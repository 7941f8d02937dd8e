---------------------------- MODULE StorageRegistry ----------------------------
(***************************************************************************)
(* The registry of the storage sets (private-messenger/services/            *)
(* storage-maintenance.js) and the messengers of one identity that use it,   *)
(* each in a page of its own: their leases, the retention policy they share  *)
(* and the deletion of the databases of an identity out of use.              *)
(*                                                                         *)
(* Time is counted in heartbeats: a lease lives for two.  The retries of a   *)
(* deletion come within one, so their delay and the counter it grows with    *)
(* are left out.  Maintenance every six hours comes at any time.             *)
(***************************************************************************)
EXTENDS Integers, Sequences, FiniteSets

CONSTANTS
    Insts,      \* PrivateMessenger instances, 1 the first, each with its lease id
    Channels,   \* channels they may administer
    Lives,      \* the bounds of a behaviour
    None

(* Policies, of which an update may leave out a part, and the bounds of a behaviour. *)
Policies == [stale: Nat \union {None}, keep: Nat \union {None}, rev: Nat]
ASSUME RegistryAssumption ==
    /\ None \notin [until: Int, channels: SUBSET Channels]
    /\ Lives \subseteq [time: Nat, policies: [Insts -> Policies], channels: SUBSET Channels,
                         updates: SUBSET [channels: SUBSET Channels, policy: Policies \union {None}, named: SUBSET {"stale", "keep"}],
                         broadcast: BOOLEAN, locks: BOOLEAN, failures: Nat, cares: Nat, closes: Nat, crashes: Nat]

LeaseTooShort == 1
Lease == 2

VARIABLES
    life,       \* what is left of the bounds
    now,
    set,        \* the record of storageSets, or None
    leases,     \* the records of leases: [until, channels], or None
    requests,   \* requests for the maintenance lock, first come first served
    hold,       \* what the maintenance a page runs under the lock is at
    files,      \* whether the databases of the identity exist
    retry,      \* pages with a timer in retryTimers
    inst,       \* the instances
    news        \* the revision of the last broadcast on its way to an instance, or 0

regVars == <<life, now, set, leases, requests, hold, files, retry, inst, news>>

Policy(r) == [stale |-> r.stale, keep |-> r.keep, rev |-> r.rev]
Nobody == [main |-> "new", initialized |-> FALSE, active |-> FALSE, listens |-> FALSE, handles |-> FALSE,
           stale |-> 0, keep |-> 0, rev |-> 0, snapshot |-> 0, needs |-> FALSE, missed |-> FALSE,
           channels |-> {}, applied |-> [c \in Channels |-> None], want |-> None,
           beat |-> 0, touch |-> FALSE, crossed |-> FALSE, refresh |-> FALSE, wanted |-> FALSE, care |-> FALSE]
InUse == {i \in Insts : inst[i].handles}

--------------------------------------------------------------------------------
(* The registry's operations *)

(* refreshLeaseState: who holds a lease at this time; leaseUntil follows from it. *)
Leased(at) == {i \in Insts : leases[i] # None /\ leases[i].until > at}
Unexpired(ls, at) == [i \in Insts |-> IF ls[i] # None /\ ls[i].until > at THEN ls[i] ELSE None]

(* activatePrivateMessengerStorage: the lease and the record; a request carries the  *)
(* time it was made at.                                                              *)
LeaseWritten(r) == [leases EXCEPT ![r.who] = [until |-> r.at + Lease, channels |-> r.channels]]
KnownPolicy == IF set = None THEN [stale |-> 1, keep |-> 1, rev |-> 0] ELSE Policy(set)
Revised(r) == IF r.policy = None THEN KnownPolicy ELSE [r.policy EXCEPT !.rev = KnownPolicy.rev + 1]
SetWritten(r) ==
    LET p == Revised(r) IN
    [used |-> r.at, status |-> "ready", stale |-> p.stale, keep |-> p.keep, rev |-> p.rev]

(* markAndListDueStorageSets *)
DueIgnoringLeases(at) == set # None /\ set.used + set.keep <= at
Due(at) == set # None /\ Leased(at) = {} /\ set.used + set.keep <= at
Marked(at) ==
    IF set = None THEN None
    ELSE [set EXCEPT !.status = IF Due(at) THEN "delete_pending" ELSE "ready"]

LockRequest(i, job, op) == [who |-> i, job |-> job, op |-> op, at |-> now, channels |-> {}, policy |-> None]
First(r) == LET mine == {k \in 1..Len(requests) : life.locks \/ requests[k].who = requests[r].who} IN \A k \in mine : r <= k
Granted(n) == n \in 1..Len(requests) /\ First(n) /\ hold[requests[n].who] = "free"
Dequeued(n) == SubSeq(requests, 1, n - 1) \o SubSeq(requests, n + 1, Len(requests))

(* applyStoragePolicySnapshot; missed notes that the change will not be applied. *)
Told(s, p) ==
    LET changed == s.stale # p.stale \/ s.keep # p.keep IN
    [s EXCEPT !.stale = p.stale, !.keep = p.keep, !.rev = p.rev, !.needs = @ \/ (changed /\ s.initialized),
              !.missed = @ \/ (changed /\ s.main = "flushing" /\ ~s.initialized)]

--------------------------------------------------------------------------------
(* What an instance does with the answer to a request. *)

Open(i) == inst[i].initialized /\ inst[i].main \notin {"closing", "closed", "crashed"}
Broadcast(i, rev) == [j \in Insts |-> IF life.broadcast /\ j # i /\ inst[j].listens THEN rev ELSE news[j]]

(* applyRecoveryPolicies: what is stored for these channels follows the policy. *)
Applied(s, cs) ==
    [s EXCEPT !.applied = [c \in Channels |-> IF c \in cs THEN [stale |-> s.stale, keep |-> s.keep] ELSE @[c]]]

(* applyPendingStoragePolicy applies it to all channels, and watches them again. *)
PendingApplied(s) ==
    IF s.needs /\ s.main # "closing" THEN Applied([s EXCEPT !.needs = FALSE, !.missed = FALSE], s.channels) ELSE s

Activated(s, r, p) ==
    CASE r.job = "touch" -> [PendingApplied(Told(s, p)) EXCEPT !.touch = FALSE]
      [] s.main = "activating" -> [Told(s, p) EXCEPT !.main = "maintaining", !.active = TRUE, !.listens = TRUE, !.beat = r.at]
      [] OTHER -> [Told(s, p) EXCEPT !.main = "settling", !.snapshot = p.rev]

GrantActivate(n) ==
    LET r == requests[n]
        i == r.who IN
    /\ Granted(n) /\ r.op = "activate"
    /\ leases' = LeaseWritten(r)
    /\ set' = SetWritten(r)
    /\ requests' = IF inst[i].main = "activating" THEN Append(Dequeued(n), LockRequest(i, "main", "maintain")) ELSE Dequeued(n)
    /\ inst' = [inst EXCEPT ![i] = Activated(@, r, Revised(r))]
    /\ news' = IF inst[i].main = "updating" /\ r.policy # None THEN Broadcast(i, Revised(r).rev) ELSE news
    /\ UNCHANGED <<life, now, hold, files, retry>>

(* readPrivateMessengerStorage, for a refresh or for an update, which fills in the *)
(* fields it does not name and goes on.                                            *)
Filled(u, p) == [f \in {"stale", "keep", "rev"} |-> IF f = "rev" \/ u[f] = None THEN p[f] ELSE u[f]]
ReadBy(s, r, p) ==
    IF r.job = "refresh" THEN [PendingApplied(Told(s, p)) EXCEPT !.refresh = FALSE]
    ELSE [Told(s, p) EXCEPT !.main = "updating"]

GrantRead(n) ==
    LET r == requests[n]
        u == inst[r.who].want IN
    /\ Granted(n) /\ r.op = "read" /\ set # None
    /\ leases' = Unexpired(leases, r.at)
    /\ requests' = IF r.job = "refresh" THEN Dequeued(n)
               ELSE Append(Dequeued(n), [LockRequest(r.who, "main", "activate") EXCEPT
                                           !.channels = u.channels, !.policy = Filled(u.policy, Policy(set))])
    /\ inst' = [inst EXCEPT ![r.who] = ReadBy(@, r, Policy(set))]
    /\ UNCHANGED <<life, now, set, hold, files, retry, news>>

(* releasePrivateMessengerStorage ends close, but for a maintenance if nothing is kept. *)
GrantRelease(n) ==
    LET r == requests[n]
        i == r.who IN
    /\ Granted(n) /\ r.op = "release"
    /\ IF set = None THEN UNCHANGED <<leases, set>>
       ELSE /\ leases' = Unexpired([leases EXCEPT ![i] = None], r.at)
            /\ set' = [set EXCEPT !.used = r.at, !.status = "ready"]
    /\ requests' = IF inst[i].keep = 0 THEN Append(Dequeued(n), LockRequest(i, "purge", "maintain")) ELSE Dequeued(n)
    /\ inst' = [inst EXCEPT ![i].main = "closed", ![i].active = FALSE]
    /\ UNCHANGED <<life, now, hold, files, retry, news>>

--------------------------------------------------------------------------------
(* The end of a maintenance: a timer is set for a deletion to be tried again; init goes *)
(* on, runStorageMaintenance refreshes the policy.                                       *)
Pending(st) == st # None /\ st.status = "delete_pending"
RetrySet(i, st) == IF Pending(st) THEN retry \union {i} ELSE retry \ {i}
MaintainedBy(s, job) ==
    CASE job = "main" -> [s EXCEPT !.main = "maintained"]
      [] job = "care" -> [s EXCEPT !.care = FALSE, !.wanted = TRUE]
      [] OTHER -> s
Ends(n) ==
    LET i == requests[n].who IN
    /\ requests' = Dequeued(n)
    /\ retry' = RetrySet(i, set')
    /\ inst' = [inst EXCEPT ![i] = MaintainedBy(@, requests[n].job)]

(* maintainRegistry holds the lock from the mark to the end of the deletion. *)
GrantMaintain(n) ==
    LET r == requests[n] IN
    /\ Granted(n) /\ r.op = "maintain"
    /\ set' = Marked(r.at)
    /\ leases' = IF set = None THEN leases ELSE Unexpired(leases, r.at)
    /\ IF Due(r.at) THEN hold' = [hold EXCEPT ![r.who] = "deleting"] /\ UNCHANGED <<requests, retry, inst>>
       ELSE Ends(n) /\ UNCHANGED hold
    /\ UNCHANGED <<life, now, files, news>>

Holds(n, step) == n \in 1..Len(requests) /\ First(n) /\ requests[n].op = "maintain" /\ hold[requests[n].who] = step

(* deleteStorageSet: the handles that are still open close for it. *)
Delete(n) ==
    /\ Holds(n, "deleting")
    /\ hold' = [hold EXCEPT ![requests[n].who] = "deleted"]
    /\ files' = FALSE
    /\ inst' = [j \in Insts |-> [inst[j] EXCEPT !.handles = FALSE]]
    /\ UNCHANGED <<life, now, set, leases, requests, retry, news>>
DeleteFails(n) ==
    /\ Holds(n, "deleting") /\ life.failures > 0 /\ life' = [life EXCEPT !.failures = @ - 1]
    /\ hold' = [hold EXCEPT ![requests[n].who] = "failed"]
    /\ UNCHANGED <<now, set, leases, requests, files, retry, inst, news>>

(* finishDeleteAttempt *)
FinishDelete(n) ==
    LET at == requests[n].at
        deleted == Holds(n, "deleted") IN
    /\ deleted \/ Holds(n, "failed")
    /\ hold' = [hold EXCEPT ![requests[n].who] = "free"]
    /\ IF ~Pending(set) THEN UNCHANGED <<set, leases>>
       ELSE IF Leased(at) # {}
            THEN set' = [set EXCEPT !.status = "ready"] /\ leases' = Unexpired(leases, at)
       ELSE IF deleted THEN set' = None /\ leases' = [j \in Insts |-> None]
       ELSE UNCHANGED set /\ leases' = Unexpired(leases, at)
    /\ Ends(n)
    /\ UNCHANGED <<life, now, files, news>>

RetryTimer(i) ==
    /\ i \in retry /\ retry' = retry \ {i}
    /\ requests' = Append(requests, LockRequest(i, "retry", "maintain"))
    /\ UNCHANGED <<life, now, set, leases, hold, files, inst, news>>

--------------------------------------------------------------------------------
(* The life of an instance *)

Asks(i, r, s) ==
    /\ requests' = Append(requests, r)
    /\ inst' = [inst EXCEPT ![i] = s]
    /\ UNCHANGED <<now, set, leases, hold, files, retry, news>>
Becomes(i, s) ==
    /\ inst' = [inst EXCEPT ![i] = s]
    /\ UNCHANGED <<life, now, set, leases, requests, hold, files, retry>>

(* init registers and maintains before it opens the databases, and then updates. *)
StartPage(i) ==
    LET p == life.policies[i] IN
    /\ inst[i].main = "new" /\ UNCHANGED life
    /\ \A j \in 1..(i - 1) : inst[j].main # "new"
    /\ Asks(i, [LockRequest(i, "main", "activate") EXCEPT !.policy = p],
            [inst[i] EXCEPT !.main = "activating", !.stale = p.stale, !.keep = p.keep])
Opens(i) ==
    /\ inst[i].main = "maintained"
    /\ files' = TRUE
    /\ requests' = Append(requests, [LockRequest(i, "main", "activate") EXCEPT !.channels = life.channels])
    /\ inst' = [inst EXCEPT ![i] = [@ EXCEPT !.main = "updating", !.handles = TRUE, !.beat = now,
                                             !.want = [channels |-> life.channels, policy |-> None, named |-> {}]]]
    /\ UNCHANGED <<life, now, set, leases, hold, retry, news>>

(* applyUpdate: other channels, or another policy in one field or both. *)
Update(i, u) ==
    /\ Open(i) /\ inst[i].main = "open" /\ u \in life.updates /\ life' = [life EXCEPT !.updates = @ \ {u}]
    /\ IF u.policy = None
       THEN Asks(i, [LockRequest(i, "main", "activate") EXCEPT !.channels = u.channels], [inst[i] EXCEPT !.main = "updating", !.want = u])
       ELSE Asks(i, LockRequest(i, "main", "read"), [inst[i] EXCEPT !.main = "reading", !.want = [u EXCEPT !.channels = inst[i].channels]])

(* It applies the policy to the channels it changed. *)
SettleUpdate(i) ==
    LET s == inst[i]
        changed == IF s.want.policy # None THEN s.want.channels ELSE s.want.channels \ s.channels IN
    /\ s.main = "settling"
    /\ Becomes(i, Applied([s EXCEPT !.channels = s.want.channels, !.main = "flushing"], changed))
    /\ UNCHANGED news

(* The end of an update; init then refreshes the policy and tells the others. *)
Flushed(s) == [s EXCEPT !.main = "open", !.initialized = TRUE,
                        !.needs = @ /\ s.rev # s.snapshot, !.missed = @ \/ (s.needs /\ s.rev = s.snapshot)]
Flush(i) ==
    /\ inst[i].main = "flushing"
    /\ IF inst[i].initialized
       THEN Becomes(i, Flushed(inst[i])) /\ UNCHANGED news
       ELSE Becomes(i, [Flushed(inst[i]) EXCEPT !.wanted = TRUE]) /\ news' = Broadcast(i, inst[i].rev)

(* refreshAndApplyStoragePolicy, one at a time. *)
Refresh(i) ==
    /\ inst[i].wanted /\ ~inst[i].refresh /\ inst[i].main \notin {"closing", "closed", "crashed"} /\ UNCHANGED life
    /\ Asks(i, LockRequest(i, "refresh", "read"), [inst[i] EXCEPT !.refresh = TRUE, !.wanted = FALSE])
Hear(i) ==
    /\ news[i] > 0 /\ news' = [news EXCEPT ![i] = 0]
    /\ Becomes(i, [inst[i] EXCEPT !.wanted = @ \/ (inst[i].listens /\ news[i] > inst[i].rev)])

(* runStorageHeartbeat, every hour; when time has ended, the next one comes when nothing *)
(* else will tell what it tells.                                                          *)
Quiet(i) == inst[i].main = "open" /\ ~inst[i].wanted /\ ~inst[i].refresh /\ news[i] = 0
Outdated(i) == inst[i].needs \/ set = None \/ inst[i].rev # set.rev \/ leases[i] = None \/ leases[i].channels # inst[i].channels
Heartbeat(i) ==
    /\ inst[i].handles /\ inst[i].main # "closing" /\ ~inst[i].touch
    /\ inst[i].beat < now \/ (now = life.time /\ Quiet(i) /\ Outdated(i))
    /\ UNCHANGED life
    /\ Asks(i, [LockRequest(i, "touch", "activate") EXCEPT !.channels = inst[i].channels],
            [inst[i] EXCEPT !.touch = TRUE, !.beat = now, !.crossed = inst[i].main # "open"])

(* runStorageMaintenance *)
Maintain(i) ==
    /\ Open(i) /\ ~inst[i].care /\ life.cares > 0 /\ life' = [life EXCEPT !.cares = @ - 1]
    /\ Asks(i, LockRequest(i, "care", "maintain"), [inst[i] EXCEPT !.care = TRUE])

(* close waits for what is under way, closes the databases and releases the lease. *)
Close(i) ==
    /\ inst[i].main = "open" /\ life.closes > 0 /\ life' = [life EXCEPT !.closes = @ - 1]
    /\ inst' = [inst EXCEPT ![i] = [@ EXCEPT !.main = "closing", !.listens = FALSE, !.wanted = FALSE]]
    /\ UNCHANGED <<now, set, leases, requests, hold, files, retry, news>>
Release(i) ==
    /\ inst[i].main = "closing" /\ inst[i].active /\ UNCHANGED life
    /\ ~inst[i].touch /\ ~inst[i].care /\ ~inst[i].refresh
    /\ \A n \in 1..Len(requests) : ~(requests[n].who = i /\ requests[n].op = "release")
    /\ Asks(i, LockRequest(i, "main", "release"), [inst[i] EXCEPT !.handles = FALSE])

(* A page dies with its requests and timers; its lease stays. *)
Others(i) ==
    LET kept == {n \in 1..Len(requests) : requests[n].who # i}
        nth(k) == CHOOSE n \in kept : Cardinality({m \in kept : m <= n}) = k IN
    [k \in 1..Cardinality(kept) |-> requests[nth(k)]]
CrashPage(i) ==
    /\ inst[i].main \notin {"new", "crashed"} /\ life.crashes > 0 /\ life' = [life EXCEPT !.crashes = @ - 1]
    /\ inst' = [inst EXCEPT ![i] = [Nobody EXCEPT !.main = "crashed"]]
    /\ requests' = Others(i)
    /\ hold' = [hold EXCEPT ![i] = "free"]
    /\ retry' = retry \ {i}
    /\ UNCHANGED <<now, set, leases, files, news>>

(* Heartbeats come in time and nobody waits for the lock for more than an hour. *)
Tick ==
    /\ now < life.time /\ now' = now + 1
    /\ \A i \in Insts : inst[i].active => inst[i].beat = now
    /\ \A n \in 1..Len(requests) : requests[n].at = now
    /\ UNCHANGED <<life, set, leases, requests, hold, files, retry, inst, news>>

--------------------------------------------------------------------------------
RegInit ==
    /\ life \in Lives
    /\ now = 0 /\ set = None /\ files = FALSE /\ requests = <<>> /\ retry = {}
    /\ leases = [i \in Insts |-> None]
    /\ hold = [i \in Insts |-> "free"] /\ news = [i \in Insts |-> 0]
    /\ inst = [i \in Insts |-> Nobody]

AnyRequest == \E n \in 1..Len(requests) :
    \/ GrantActivate(n) \/ GrantRead(n) \/ GrantRelease(n) \/ GrantMaintain(n)
    \/ Delete(n) \/ FinishDelete(n)
Goes(i) ==
    \/ Opens(i) \/ SettleUpdate(i) \/ Flush(i)
    \/ Refresh(i) \/ Hear(i) \/ Release(i) \/ RetryTimer(i)
RegNext ==
    \/ AnyRequest \/ Tick
    \/ \E n \in 1..Len(requests) : DeleteFails(n)
    \/ \E i \in Insts :
        \/ Goes(i) \/ Heartbeat(i) \/ Maintain(i) \/ Close(i) \/ CrashPage(i) \/ StartPage(i)
        \/ \E u \in life.updates : Update(i, u)

(* Requests are granted and answered, broadcasts and timers of the page come, and time *)
(* passes.                                                                              *)
RegSpec ==
    /\ RegInit /\ [][RegNext]_regVars
    /\ WF_regVars(AnyRequest) /\ WF_regVars(Tick)
    /\ \A i \in Insts : WF_regVars(Goes(i)) /\ WF_regVars(Heartbeat(i))

--------------------------------------------------------------------------------
RegTypeOK ==
    /\ now \in 0..life.time /\ files \in BOOLEAN /\ retry \subseteq Insts
    /\ set = None \/ set.status \in {"ready", "delete_pending"}
    /\ \A i \in Insts : leases[i] = None \/ leases[i].channels \subseteq Channels
    /\ hold \in [Insts -> {"free", "deleting", "deleted", "failed"}]
    /\ \A i \in Insts : inst[i].channels \subseteq Channels

(* The databases are never deleted while an instance has them open: its lease is older  *)
(* than they are, and is renewed in time (storage-maintenance.js:225-278).               *)
InUseKept == [][files /\ ~files' => InUse = {}]_regVars

(* A channel an instance administers is in its lease, which has not run out, so that the *)
(* cleanup of another leaves it alone; except from a heartbeat that crossed an update to *)
(* the next one (private-messenger/index.js:746, 885).  And the state keeps its type.     *)
Named == RegTypeOK /\ \A i \in Insts :
    Open(i) /\ inst[i].main = "open" /\ ~inst[i].touch /\ ~inst[i].crossed =>
        leases[i] # None /\ leases[i].until > now /\ inst[i].channels \subseteq leases[i].channels
NamedAlways == \A i \in Insts :
    Open(i) /\ inst[i].main = "open" /\ ~inst[i].touch =>
        leases[i] # None /\ leases[i].until > now /\ inst[i].channels \subseteq leases[i].channels

(* What an update does not name keeps the value that is stored (README.md:540). *)
OmittedRetained == [][
    \A i \in Insts : inst[i].main = "updating" /\ inst'[i].main = "settling" /\ set # None =>
        \A f \in {"stale", "keep"} \ inst[i].want.named : set'[f] = set[f]]_regVars

(* A deletion that failed is tried again until the databases are gone or used again, as *)
(* long as the pages live (storage-maintenance.js:299-312).                              *)
Deleted == set = None \/ set.status = "ready" \/ \E i \in Insts : inst[i].main = "crashed"
(* Every instance comes to hold the policy last stored and to have applied it to all its *)
(* channels; except one that missed a change, see PolicyReachesAll.                       *)
Follows(i) == inst[i].main = "open" /\ set # None => \A c \in inst[i].channels : inst[i].applied[c] = [stale |-> set.stale, keep |-> set.keep]
Reached == \A i \in Insts : inst[i].missed \/ Follows(i)
(* The last confirmed policy update wins and is propagated to the others                 *)
(* (README.md:550-551).                                                                   *)
PolicyReachesAll == <>[](\A i \in Insts : Follows(i))
================================================================================
