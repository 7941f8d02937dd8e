---------------------------- MODULE PendingPackets ----------------------------
(***************************************************************************)
(* The packets that could not be decrypted yet: the queue they are kept in    *)
(* (private-messenger/services/pending-decryption.js), shared by the           *)
(* messengers of one identity, and the passes that try them again             *)
(* (private-messenger/index.js:3660-3822, private-channel/index.js:1245).      *)
(*                                                                         *)
(* A packet fails with one of the codes its plan allows until it opens, that  *)
(* is, until its key has come.  The packets that can miss a key share one      *)
(* content key, and are all of one channel and one size.                    *)
(***************************************************************************)
EXTENDS Integers, Sequences, FiniteSets, SequencesExt

CONSTANTS
    Msgrs, Packets,
    Room,       \* the packets the queue has room for
    Tries,      \* 3
    Budgets,    \* the bounds of a behaviour
    Nothing

VARIABLES
    budget,     \* what is left of the bounds
    queue,      \* the pending items, oldest first
    opens,      \* the packets that can be decrypted by now
    lock,       \* who holds the retry lock, or Nothing
    msgr,       \* the messengers: the operation of the serial tail, the job, the next one
    seen        \* ghost: what became of the packets (saved, delivered, evicted, cleared), which evictions were
                \* reported or are excused, the saves another one crossed, attempts, what a request is owed

pvars == <<budget, queue, opens, lock, msgr, seen>>

NoOp == [kind |-> "none", id |-> Nothing, item |-> Nothing, code |-> "none", before |-> 0, lost |-> {}]
NoJob == [at |-> "none", again |-> FALSE, force |-> FALSE, forced |-> FALSE, todo |-> <<>>, probe |-> FALSE,
          item |-> Nothing, absent |-> FALSE, aborted |-> FALSE]
Gone == [on |-> FALSE, paused |-> FALSE, ready |-> TRUE, op |-> NoOp, job |-> NoJob, next |-> NoJob]

--------------------------------------------------------------------------------
(* The queue *)
IsIn(p) == \E i \in 1..Len(queue) : queue[i].id = p
Ids(q) == {q[i].id : i \in 1..Len(q)}
Place(p) == CHOOSE i \in 1..Len(queue) : queue[i].id = p
ItemOf(p) == queue[Place(p)]
Without(p) == IF IsIn(p) THEN RemoveAt(queue, Place(p)) ELSE queue
Put(item) == [i \in 1..Len(queue) |-> IF queue[i].id = item.id THEN item ELSE queue[i]]

(* pendingMissingContentKeyGroup and pendingContentKeyGroup *)
Misses(item) == item.code = "key"
Grouped(item) == "key" \in budget.codes[item.id]
(* What a pass takes: every item, or those with attempts left. *)
Tried(item, force) == force \/ item.tries < Tries

Step(m, s) == msgr' = [msgr EXCEPT ![m] = s]
InJob(m, at) == msgr[m].on /\ msgr[m].job.at = at /\ ~msgr[m].job.aborted
Moves(m, at) == Step(m, [msgr[m] EXCEPT !.job.at = at])
Free(m) == msgr[m].op = NoOp
Unlocked(m) == IF lock = m THEN Nothing ELSE lock
NotOwed(m) == [seen EXCEPT !.owed = {o \in @ : o[1] # m}]

--------------------------------------------------------------------------------
(* Live and historical reception: a packet opens, or is deferred. *)

Receive(m, p) ==
    /\ msgr[m].on /\ ~msgr[m].paused /\ Free(m)
    /\ budget.receptions > 0 /\ budget' = [budget EXCEPT !.receptions = @ - 1]
    /\ IF p \in opens
       THEN seen' = [seen EXCEPT !.delivered = @ \union {p}] /\ UNCHANGED msgr
       ELSE /\ \E code \in budget.codes[p] : Step(m, [msgr[m] EXCEPT !.op = [NoOp EXCEPT !.kind = "save", !.id = p, !.code = code]])
            /\ UNCHANGED seen
    /\ UNCHANGED <<queue, opens, lock>>

(* save reads what it has of the packet, and then updates it, or adds it between two readings *)
(* of the space used, whose difference says what the addition evicted; each is an await.       *)
SaveReads(m) ==
    /\ msgr[m].op.kind = "save"
    /\ LET op == msgr[m].op IN
       Step(m, [msgr[m] EXCEPT !.op = [op EXCEPT !.kind = "saving", !.item = IF IsIn(op.id) THEN ItemOf(op.id) ELSE Nothing]])
    /\ UNCHANGED <<budget, queue, opens, lock, seen>>
SaveUpdates(m) ==
    LET op == msgr[m].op
        undone == IsIn(op.id) /\ op.item.code # op.code /\ op.item.tries # ItemOf(op.id).tries IN
    /\ op.kind = "saving" /\ op.item # Nothing /\ Step(m, [msgr[m] EXCEPT !.op = NoOp])
    /\ queue' = IF op.item.code = op.code THEN queue ELSE Put([op.item EXCEPT !.code = op.code])
    /\ seen' = [seen EXCEPT !.saved = @ \union {op.id}, !.undone = IF undone THEN @ \union {op.id} ELSE @]
    /\ UNCHANGED <<budget, opens, lock>>
SaveSizes(m) ==
    LET op == msgr[m].op IN
    /\ op.kind = "saving" /\ op.item = Nothing
    /\ Step(m, [msgr[m] EXCEPT !.op = [op EXCEPT !.kind = "sized", !.before = Len(queue)]])
    /\ seen' = [seen EXCEPT !.crossed = @ \ {m}]
    /\ UNCHANGED <<budget, queue, opens, lock>>

NewItem(op) == [id |-> op.id, code |-> op.code, tries |-> IF op.code = "mac" THEN 1 ELSE 0]
Evicted == IF Len(queue) = Room THEN {Head(queue).id} ELSE {}
(* ghost: the packets whose attempts were read, and are about to be written; the saves that *)
(* have read the space used once.                                                         *)
Counting == {msgr[n].op.id : n \in {n \in Msgrs : msgr[n].op.kind = "writing"}}
Measuring == {n \in Msgrs : msgr[n].op.kind \in {"sized", "stored"}}
(* Whoever added the packet meanwhile, it is there. *)
SaveFinds(m) ==
    LET op == msgr[m].op IN
    /\ op.kind = "sized" /\ IsIn(op.id) /\ Step(m, [msgr[m] EXCEPT !.op = NoOp])
    /\ seen' = [seen EXCEPT !.saved = @ \union {op.id}]
    /\ UNCHANGED <<budget, queue, opens, lock>>
SaveEnqueues(m) ==
    LET op == msgr[m].op IN
    /\ op.kind = "sized" /\ ~IsIn(op.id)
    /\ queue' = Append(IF Len(queue) = Room THEN Tail(queue) ELSE queue, NewItem(op))
    /\ Step(m, [msgr[m] EXCEPT !.op = [op EXCEPT !.kind = "stored", !.lost = Evicted]])
    /\ seen' = [seen EXCEPT !.evicted = (@ \ {op.id}) \union Evicted,
                            !.reported = @ \ (Evicted \union {op.id}), !.excused = @ \ (Evicted \union {op.id}),
                            !.crossed = @ \union (Measuring \ {m}),
                            !.undone = @ \union (Evicted \intersect Counting),
                            !.attempts[op.id] = NewItem(op).tries,
                            !.owed = {o \in @ : o[2] \notin Evicted}]
    /\ UNCHANGED <<budget, opens, lock>>

(* evictedBytes counts what is missing of the space that both should use: a difference of two  *)
(* readings, which another messenger's addition between them may hide.  The save is confirmed. *)
InHand(m) == IF msgr[m].op.kind = "stored" THEN msgr[m].op.lost ELSE {}
ReportsIf(m, told) ==
    LET op == msgr[m].op
        lost == op.lost \intersect seen.evicted IN
    /\ op.kind = "stored" /\ Step(m, [msgr[m] EXCEPT !.op = NoOp])
    /\ seen' = [seen EXCEPT !.saved = @ \union {op.id}, !.reported = IF told THEN @ \union lost ELSE @,
                            !.excused = IF ~told /\ m \in seen.crossed THEN @ \union lost ELSE @]
    /\ UNCHANGED <<budget, queue, opens, lock>>
SaveReportsUsed(m) == ReportsIf(m, msgr[m].op.before > Len(queue))
SaveReports(m) == ReportsIf(m, msgr[m].op.before + 1 > Len(queue))

--------------------------------------------------------------------------------
(* retryPendingDecryptions *)

Owed(m, force) == {<<m, p, force>> : p \in {q \in opens : IsIn(q) /\ Tried(ItemOf(q), force)}}
NewJob(force) == [NoJob EXCEPT !.at = "wait", !.force = force]
Started(job) == job.at \notin {"wait", "ending"}
AskedForgets(s, force) ==
    IF s.job = NoJob THEN [s EXCEPT !.job = NewJob(force)]
    ELSE IF s.job.aborted THEN [s EXCEPT !.next = NewJob(force \/ @.force)]
    ELSE [s EXCEPT !.job.force = @ \/ force]
Asked(s, force) ==
    IF s.job = NoJob THEN [s EXCEPT !.job = NewJob(force)]
    ELSE IF s.job.aborted THEN [s EXCEPT !.next = NewJob(force \/ @.force)]
    ELSE [s EXCEPT !.job.force = @ \/ force, !.job.again = @ \/ Started(s.job)]
Request(m, force) ==
    /\ msgr[m].on /\ ~msgr[m].paused /\ budget.requests > 0 /\ budget' = [budget EXCEPT !.requests = @ - 1]
    /\ msgr[m].job.at = "ending" => budget.late
    /\ Step(m, Asked(msgr[m], force))
    /\ seen' = [seen EXCEPT !.owed = @ \union Owed(m, force)]
    /\ UNCHANGED <<queue, opens, lock>>

BeginJob(job) == [job EXCEPT !.at = "read", !.again = FALSE, !.forced = job.force, !.force = FALSE]
Begin(m) ==
    /\ InJob(m, "wait") /\ msgr[m].ready
    /\ Step(m, [msgr[m] EXCEPT !.job = BeginJob(@)])
    /\ UNCHANGED <<budget, queue, opens, lock, seen>>

(* The snapshot; the first item that misses the key is tried before the others. *)
Snapshot(m) ==
    LET job == msgr[m].job
        items == SelectSeq(queue, LAMBDA item : Tried(item, job.forced))
        missing == SelectSeq(items, Misses)
        probe == IF missing = <<>> THEN <<>> ELSE <<Head(missing)>>
        others == SelectSeq(items, LAMBDA item : missing = <<>> \/ item # Head(missing)) IN
    /\ InJob(m, "read") /\ Free(m)
    /\ Step(m, [msgr[m] EXCEPT !.job = [@ EXCEPT !.at = "next", !.todo = probe \o others, !.probe = probe # <<>>, !.absent = FALSE]])
    /\ UNCHANGED <<budget, queue, opens, lock, seen>>

(* The next item: admitted by the scheduler, and under the lock if there is one. *)
Next1(m) ==
    LET job == msgr[m].job IN
    /\ InJob(m, "next")
    /\ IF job.todo = <<>>
       THEN Moves(m, IF job.again THEN "wait" ELSE "ending")
       ELSE LET item == Head(job.todo) IN
            Step(m, [msgr[m] EXCEPT !.job = [@ EXCEPT !.todo = Tail(job.todo), !.item = item,
                         !.at = IF job.absent /\ Grouped(item) THEN "next" ELSE "admit"]])
    /\ UNCHANGED <<budget, queue, opens, lock, seen>>
AdmitUnlocked(m) ==
    /\ InJob(m, "admit") /\ msgr[m].ready /\ Moves(m, "locked")
    /\ UNCHANGED <<budget, queue, opens, lock, seen>>
Admit(m) ==
    /\ InJob(m, "admit") /\ msgr[m].ready
    /\ (budget.locks => lock = Nothing) /\ lock' = IF budget.locks THEN m ELSE lock
    /\ Moves(m, "locked")
    /\ UNCHANGED <<budget, queue, opens, seen>>

(* Readiness and the item are checked again. *)
Done(m) == [msgr[m] EXCEPT !.job = [@ EXCEPT !.at = "next", !.item = Nothing, !.probe = FALSE]]
Check(m) ==
    LET job == msgr[m].job IN
    /\ InJob(m, "locked") /\ Free(m)
    /\ IF ~msgr[m].ready THEN Moves(m, "admit") /\ lock' = Unlocked(m)
       ELSE IF IsIn(job.item.id) /\ Tried(ItemOf(job.item.id), job.forced)
            THEN Moves(m, "process") /\ UNCHANGED lock
            ELSE Step(m, Done(m)) /\ lock' = Unlocked(m)
    /\ UNCHANGED <<budget, queue, opens, seen>>

(* It opens: it enters the inbox and leaves the queue. *)
Deliver(m) ==
    /\ InJob(m, "process") /\ msgr[m].job.item.id \in opens
    /\ seen' = [seen EXCEPT !.delivered = @ \union {msgr[m].job.item.id}]
    /\ Moves(m, "recover")
    /\ UNCHANGED <<budget, queue, opens, lock>>
Recovered(m) ==
    LET p == msgr[m].job.item.id IN
    /\ InJob(m, "recover") /\ Free(m)
    /\ queue' = Without(p) /\ lock' = Unlocked(m) /\ Step(m, Done(m))
    /\ seen' = [seen EXCEPT !.owed = {o \in @ : o[2] # p}]
    /\ UNCHANGED <<budget, opens>>

(* It fails: its attempts are read, and then written with one more of an invalid MAC. *)
Fail(m) ==
    LET job == msgr[m].job
        p == job.item.id IN
    /\ InJob(m, "process") /\ p \notin opens /\ Free(m)
    /\ \E code \in budget.codes[p] :
        /\ Step(m, [msgr[m] EXCEPT !.op = [NoOp EXCEPT !.kind = "failed", !.id = p, !.code = code],
                                   !.job = [@ EXCEPT !.at = "failing", !.absent = job.absent \/ (job.probe /\ code = "key")]])
    /\ UNCHANGED <<budget, queue, opens, lock, seen>>
FailReads(m) ==
    LET op == msgr[m].op IN
    /\ op.kind = "failed"
    /\ Step(m, [msgr[m] EXCEPT !.op = IF IsIn(op.id) THEN [op EXCEPT !.kind = "writing", !.item = ItemOf(op.id)] ELSE [op EXCEPT !.kind = "ended"]])
    /\ UNCHANGED <<budget, queue, opens, lock, seen>>
FailWrites(m) ==
    LET op == msgr[m].op IN
    /\ op.kind = "writing"
    /\ queue' = Put([op.item EXCEPT !.code = op.code, !.tries = IF op.code = "mac" THEN @ + 1 ELSE @])
    /\ Step(m, [msgr[m] EXCEPT !.op = [op EXCEPT !.kind = "ended"]])
    /\ seen' = IF op.code # "mac" \/ ~IsIn(op.id) THEN seen
               ELSE [seen EXCEPT !.attempts[op.id] = IF msgr[m].job.forced THEN @ ELSE @ + 1,
                                 !.owed = IF op.item.tries + 1 < Tries THEN @ ELSE @ \ {<<n, op.id, FALSE>> : n \in Msgrs}]
    /\ UNCHANGED <<budget, opens, lock>>
FailEnds(m) ==
    /\ msgr[m].op.kind = "ended" /\ lock' = Unlocked(m)
    /\ Step(m, [Done(m) EXCEPT !.op = NoOp])
    /\ UNCHANGED <<budget, queue, opens, seen>>

(* The pass is over; or it was aborted, or could not go on, and whoever asked is told. *)
Following(s) == [s EXCEPT !.job = s.next, !.next = NoJob]
JobEnds(m) ==
    /\ InJob(m, "ending") /\ Step(m, Following(msgr[m]))
    /\ UNCHANGED <<budget, queue, opens, lock, seen>>
AbortEnds(m) ==
    /\ msgr[m].job.aborted /\ Free(m) /\ lock' = Unlocked(m)
    /\ Step(m, Following(msgr[m]))
    /\ UNCHANGED <<budget, queue, opens, seen>>
PassFails(m) ==
    /\ msgr[m].on /\ Started(msgr[m].job) /\ msgr[m].job # NoJob /\ ~msgr[m].job.aborted /\ Free(m)
    /\ budget.failures > 0 /\ budget' = [budget EXCEPT !.failures = @ - 1]
    /\ lock' = Unlocked(m) /\ Step(m, Following(msgr[m])) /\ seen' = NotOwed(m)
    /\ UNCHANGED <<queue, opens>>

--------------------------------------------------------------------------------
(* The messenger, the app and the page *)

Start(m) ==
    /\ ~msgr[m].on /\ budget.starts > 0 /\ budget' = [budget EXCEPT !.starts = @ - 1]
    /\ Step(m, [Gone EXCEPT !.on = TRUE, !.ready = budget.ready, !.job = NewJob(FALSE)])
    /\ seen' = [seen EXCEPT !.owed = @ \union Owed(m, FALSE)]
    /\ UNCHANGED <<queue, opens, lock>>
Pause(m) ==
    /\ msgr[m].on /\ ~msgr[m].paused /\ budget.pauses > 0 /\ budget' = [budget EXCEPT !.pauses = @ - 1]
    /\ Step(m, [msgr[m] EXCEPT !.paused = TRUE, !.next = NoJob, !.job.aborted = msgr[m].job # NoJob])
    /\ seen' = NotOwed(m)
    /\ UNCHANGED <<queue, opens, lock>>
Resume(m) ==
    /\ msgr[m].paused
    /\ Step(m, Asked([msgr[m] EXCEPT !.paused = FALSE], FALSE))
    /\ seen' = [seen EXCEPT !.owed = @ \union Owed(m, FALSE)]
    /\ UNCHANGED <<budget, queue, opens, lock>>
SetReady(m, ready) ==
    /\ msgr[m].on /\ msgr[m].ready # ready /\ (ready \/ budget.holds > 0)
    /\ budget' = IF ready THEN budget ELSE [budget EXCEPT !.holds = @ - 1]
    /\ Step(m, [msgr[m] EXCEPT !.ready = ready])
    /\ UNCHANGED <<queue, opens, lock, seen>>
Crash(m) ==
    /\ msgr[m].on /\ budget.crashes > 0 /\ budget' = [budget EXCEPT !.crashes = @ - 1]
    /\ Step(m, Gone) /\ lock' = Unlocked(m)
    /\ seen' = [NotOwed(m) EXCEPT !.excused = @ \union (InHand(m) \intersect seen.evicted)]
    /\ UNCHANGED <<queue, opens>>
(* The app clears the channel: its rows go, and what the messenger was at with them comes to   *)
(* nothing, until the channel is added again (Start).                                         *)
Clear(m) ==
    /\ msgr[m].on /\ Free(m) /\ budget.clears > 0 /\ budget' = [budget EXCEPT !.clears = @ - 1]
    /\ queue' = <<>> /\ Step(m, Gone) /\ lock' = Unlocked(m)
    /\ seen' = [seen EXCEPT !.cleared = @ \union Ids(queue), !.undone = @ \union (Ids(queue) \intersect Counting),
                            !.owed = {o \in @ : o[1] # m /\ o[2] \notin Ids(queue)}]
    /\ UNCHANGED opens
KeyArrives(ps) ==
    /\ ps # {} /\ ps \subseteq Packets \ opens /\ budget.keys > 0 /\ budget' = [budget EXCEPT !.keys = @ - 1]
    /\ \A p, q \in Packets : "key" \in budget.codes[p] /\ "key" \in budget.codes[q] => (p \in ps <=> q \in ps)
    /\ opens' = opens \union ps
    /\ UNCHANGED <<queue, lock, msgr, seen>>

--------------------------------------------------------------------------------
PInit ==
    /\ budget \in Budgets /\ queue = <<>> /\ opens = {} /\ lock = Nothing
    /\ msgr = [m \in Msgrs |-> Gone]
    /\ seen = [saved |-> {}, delivered |-> {}, evicted |-> {}, reported |-> {}, excused |-> {}, cleared |-> {}, crossed |-> {},
               undone |-> {}, owed |-> {}, attempts |-> [p \in Packets |-> 0]]

Works(m) ==
    \/ SaveReads(m) \/ SaveUpdates(m) \/ SaveSizes(m) \/ SaveFinds(m) \/ SaveEnqueues(m) \/ SaveReports(m) \/ Begin(m) \/ Snapshot(m) \/ Next1(m) \/ Admit(m) \/ Check(m) \/ Deliver(m)
    \/ Recovered(m) \/ Fail(m) \/ FailReads(m) \/ FailWrites(m) \/ FailEnds(m) \/ JobEnds(m) \/ AbortEnds(m)
PNext ==
    \/ \E ps \in SUBSET Packets : KeyArrives(ps)
    \/ \E m \in Msgrs :
        \/ Works(m) \/ PassFails(m) \/ Start(m) \/ Pause(m) \/ Resume(m) \/ Crash(m) \/ Clear(m)
        \/ \E p \in Packets : Receive(m, p)
        \/ \E b \in BOOLEAN : Request(m, b) \/ SetReady(m, b)

(* The work of a messenger goes on, and the app sets it ready. *)
PSpec == PInit /\ [][PNext]_pvars /\ \A m \in Msgrs : WF_pvars(Works(m)) /\ WF_pvars(SetReady(m, TRUE))

--------------------------------------------------------------------------------
PTypeOK ==
    /\ Len(queue) <= Room /\ \A i, j \in 1..Len(queue) : queue[i].id = queue[j].id => i = j
    /\ opens \subseteq Packets /\ lock \in Msgrs \union {Nothing}

(* A packet whose deferral was confirmed is in the queue, in the inbox, evicted or cleared with its *)
(* channel; and an eviction was reported or is about to be, but where another messenger's save     *)
(* added a packet between the two readings of this one's, or the messenger crashed before the      *)
(* report: over pauses, failing passes, and saves and deliveries of the same packet by two         *)
(* messengers (pending-decryption.js:107-151, index.js:3649, README.md:254-259, 270-271).          *)
DeferredIsKept ==
    /\ PTypeOK
    /\ seen.saved \subseteq seen.delivered \union seen.evicted \union seen.cleared \union Ids(queue)
    /\ seen.evicted \subseteq seen.reported \union seen.excused \union UNION {InHand(m) : m \in Msgrs}

(* README.md:259, "capacity eviction are reported as discards", without the exceptions: no run checks it, *)
(* and saves of two tabs, or a crash before the report, break it.                                         *)
EvictionIsReported == seen.evicted \subseteq seen.reported \union UNION {InHand(m) : m \in Msgrs}

(* A packet is tried at most three times over with an invalid MAC unless a pass is forced, *)
(* whoever tries it; except when a later reception wrote back the attempts it had read, or   *)
(* the packet was evicted between the read and the write of a failure                       *)
(* (pending-decryption.js:111-116, 170-185, README.md:265-266).                             *)
ThreeAttempts == \A p \in Packets \ seen.undone : seen.attempts[p] <= Tries

(* The same of every packet. *)
ThreeAttemptsAlways == \A p \in Packets : seen.attempts[p] <= Tries

(* Who asks for a pass has what can be decrypted by then delivered, unless it is paused,   *)
(* closed or told of a failure: also when the pass under way had already read the queue     *)
(* (index.js:3682-3690, README.md:287-290).                                                 *)
NothingOwed == seen.owed = {}
================================================================================
