------------------------------- MODULE Messenger -------------------------------
(***************************************************************************)
(* private-messenger/index.js, one channel: live delivery into the durable  *)
(* inbox, and the durable record of what live delivery may have missed.     *)
(*                                                                         *)
(* Every way delivery can stop - a pause, an unwatch, a lost connection, a  *)
(* full or failing inbox, a crash - leaves a gap, and the gap must reach    *)
(* the channel's stored state before anything later is stored over it.      *)
(* An event is its created_at; at most one is published per instant.        *)
(* Delays are left out: a timer may fire at any moment.                     *)
(***************************************************************************)
EXTENDS Integers, Sequences, FiniteSets, FiniteSetsExt

CONSTANTS
    MaxTime,   \* the clock's bound
    Skew,      \* offlineSkewSeconds
    Plans      \* a behaviour's bounds, and the inbox rows from which events are refused

Bounds == [time : 0..MaxTime, events : Nat, cuts : Nat, pauses : Nat, faults : Nat, fails : Nat, crashes : Nat,
           changes : Nat, offline : Nat, high : Nat]

ASSUME ConstantsAssumption == MaxTime \in Nat \ {0} /\ Skew \in Nat /\ Plans \subseteq Bounds

Times == 1..MaxTime
Never == MaxTime + 1

VARIABLES
    plan,      \* what is left of the behaviour's bounds
    now,       \* the clock
    online,    \* what a connectivity probe answers
    published, \* external: events the relay holds
    st,        \* the channel's state in memory: lastSeenAt, recoveredThrough,
               \* openOfflineStart and the instants of offlineRanges
    disk,      \* ... as stored
    behind,    \* who awaits flushStateWrites
    inbox,     \* events in the durable queue
    incoming,  \* queueOperationTail: events to take in, in order
    unsaved,   \* pendingStorageWrites
    up,        \* the messenger is open
    desired,   \* desiredChannels holds the channel
    pauses,    \* pauseReasons
    auto,      \* automaticPauses
    resumes,   \* resume() calls under way
    w,         \* the watch: stopByChannel, its call and job, timers, interruption
    sub,       \* external: the session's subscription for the channel
    rec,       \* recoveries: the recovery pass under way
    records,   \* recoveryRanges: ranges a pass began to read, and whether it read them
    timer,     \* liveRecoveryTimers
    accepted,  \* ghost: events that reached the inbox
    unheard,   \* ghost: published between a watch's window and its subscription
    owned,     \* ghost: reasons the application holds
    resting    \* ghost: the last retry found the network gone and left none behind

state == <<st, disk, behind>>
queue == <<inbox, incoming, unsaved, accepted>>
pausing == <<pauses, auto, resumes, owned>>
vars == <<plan, now, online, published, state, queue, up, desired, pausing, w, sub, rec, records, timer, unheard, resting>>

--------------------------------------------------------------------------------
(* The stored state of the channel. *)
Fresh == [seen |-> 0, through |-> 0, open |-> Never, ranges |-> {}]
Before(t) == Max({0, t - Skew})
Checkpoint(s) == Max({s.seen, s.through})

Seen(s, e) == [s EXCEPT !.seen = Max({@, e})]
Interrupted(s, t) == [s EXCEPT !.open = Min({@, Before(t)})]
WithRange(s, from, to) == [s EXCEPT !.ranges = @ \union (from..to)]
WithWindowSinceNow(s) == WithRange(s, Before(now), now)
WithWindow(s) == WithRange(s, Before(Checkpoint(s)), now)
WithOpenClosed(s) == [WithRange(s, s.open, now) EXCEPT !.open = Never]

(* mergeRanges: ranges are kept as the maximal runs of their instants. *)
RunOf(S, t) == {x \in S : \A y \in Min({x, t})..Max({x, t}) : y \in S}
Runs(S) == {RunOf(S, t) : t \in S}

--------------------------------------------------------------------------------
(* The watch, the recovery pass and the retry timer. *)
NoCall == [by |-> "nobody", stage |-> "none", window |-> 0]
NoWatch == [held |-> FALSE, call |-> NoCall, job |-> "none", gap |-> Never, recover |-> FALSE,
            told |-> Never, closing |-> FALSE, retrying |-> FALSE, refresh |-> FALSE]
NoSub == [owner |-> "nobody", state |-> "none", window |-> 0, since |-> 0, told |-> FALSE]
NoPass == [stage |-> "none", snap |-> {}, left |-> {}, run |-> {}, done |-> {}, todo |-> {}, waiting |-> 0,
           aborted |-> FALSE, changed |-> FALSE, failed |-> FALSE, offline |-> FALSE, for |-> {}]
NoTimer == [at |-> "none", again |-> FALSE]

Full == Cardinality(inbox) >= plan.high   \* inboxCapacityLimits: high water, and falling below it
Passing == rec.stage # "none"
Paused == pauses # {}
Wanted == up = "open" /\ desired /\ ~Paused

(* A new revision of the watch: the call under way is stale.  What it opened is *)
(* closed by the call itself, later.                                            *)
Ended(x) == [x EXCEPT !.call = NoCall,
                      !.job = IF x.call.by = "job" THEN "history" ELSE @,
                      !.refresh = @ \/ x.call.by = "refresh"]
SubAfter(x) == IF x.owner = "call" THEN [x EXCEPT !.owner = "orphan"] ELSE x
InRange(r) == r.stage = "read"
Changed(r) == [r EXCEPT !.changed = InRange(r) \/ @]
Aborted(r) == [r EXCEPT !.aborted = InRange(r) \/ @]

(* stopWatches, and the abort of the recovery pass its callers add. *)
StopWatches ==
    /\ w' = [NoWatch EXCEPT !.retrying = w.retrying, !.refresh = Ended(w).refresh]
    /\ sub' = IF sub.owner = "held" THEN NoSub ELSE SubAfter(sub)
    /\ rec' = [Aborted(Changed(rec)) EXCEPT !.for = @ \ {"job"}]
    /\ timer' = NoTimer

ScheduledOnce(t) == IF t.at = "none" THEN [at |-> "armed", again |-> FALSE] ELSE t

(* scheduleOfflineRecovery *)
Scheduled(t) == IF t.at = "none" THEN [at |-> "armed", again |-> FALSE] ELSE [t EXCEPT !.again = TRUE]

(* recoverOfflineRanges: callers share the pass under way. *)
Recovering(s, for) ==
    IF Passing THEN [rec EXCEPT !.for = @ \union {for}]
    ELSE [NoPass EXCEPT !.stage = "pick", !.snap = s.ranges, !.left = s.ranges, !.offline = ~online, !.for = {for}]

(* applyPause, from memory state s; waiters then await the flush. *)
Pausing(reason, s, waiters) ==
    /\ pauses' = pauses \union {reason}
    /\ resumes' = {IF c.reason = reason THEN [c EXCEPT !.valid = FALSE] ELSE c : c \in resumes}
    /\ st' = IF desired THEN Interrupted(s, now) ELSE s
    /\ behind' = behind \union waiters
    /\ StopWatches

PauseInternally(reason, s, waiters) ==
    /\ auto' = IF reason \notin pauses THEN auto \union {reason} ELSE auto
    /\ Pausing(reason, s, waiters)

PauseExplicitly(reason, s, waiters) ==
    /\ auto' = auto \ {reason}
    /\ Pausing(reason, s, waiters)

--------------------------------------------------------------------------------
(* The world: time, the relay, the connection, the disk. *)

Entry(e, src) == [ev |-> e, src |-> src, storing |-> FALSE]

(* A watch that is not live yet though its window is over, or an instant that *)
(* history has already read.                                                  *)
Hole == \/ /\ sub.state # "live" /\ (sub.state = "opening" \/ w.call.stage = "flush")
           /\ now <= st.through \/ now > IF sub.state = "opening" THEN sub.window ELSE w.call.window
        \/ now \in (UNION {x.run : x \in records}) \union rec.done
        \/ rec.stage = "finalize" /\ now \in rec.run

(* Live events are taken in within the skew. *)
Tick ==
    /\ now < plan.time /\ \A i \in DOMAIN incoming : incoming[i].src = "live" => now < incoming[i].ev + Skew
    /\ now' = now + 1
    /\ UNCHANGED <<plan, online, published, state, queue, up, desired, pausing, w, sub, rec, records, timer, unheard, resting>>

Publish ==
    /\ plan.events > 0 /\ now \notin published
    /\ plan' = [plan EXCEPT !.events = @ - 1]
    /\ published' = published \union {now}
    /\ incoming' = IF sub.state = "live" THEN Append(incoming, Entry(now, "live")) ELSE incoming
    /\ unheard' = IF Hole THEN unheard \union {now} ELSE unheard
    /\ UNCHANGED <<now, online, state, inbox, unsaved, accepted, up, desired, pausing, w, sub, rec, records, timer, resting>>

GoesLive ==
    /\ sub.state = "opening"
    /\ sub' = [sub EXCEPT !.state = "live"]
    /\ UNCHANGED <<plan, now, online, published, state, queue, up, desired, pausing, w, rec, records, timer, unheard, resting>>

Cut ==
    /\ plan.cuts > 0 /\ sub.state \in {"opening", "live"}
    /\ plan' = [plan EXCEPT !.cuts = @ - 1]
    /\ sub' = [sub EXCEPT !.state = "cut", !.since = IF sub.state = "live" THEN now ELSE @, !.told = FALSE]
    /\ UNCHANGED <<now, online, published, state, queue, up, desired, pausing, w, rec, records, timer, unheard, resting>>

(* The probe fails; a browser may tell, or not. *)
GoOffline ==
    /\ plan.offline > 0 /\ online
    /\ plan' = [plan EXCEPT !.offline = @ - 1]
    /\ online' = FALSE
    /\ \/ /\ up = "open"
          /\ PauseInternally("network", st, {})
       \/ UNCHANGED <<pauses, auto, resumes, st, behind, w, sub, rec, timer>>
    /\ UNCHANGED <<now, published, disk, queue, up, desired, owned, records, unheard, resting>>

GoOnline ==
    /\ ~online
    /\ online' = TRUE
    /\ UNCHANGED <<plan, now, published, state, queue, up, desired, pausing, w, sub, rec, records, timer, unheard, resting>>

(* writeState's tail reaches the store. *)
Persist ==
    /\ up # "down"
    /\ disk # st \/ behind # {}
    /\ disk' = st
    /\ behind' = {}
    /\ UNCHANGED <<plan, now, online, published, st, queue, up, desired, pausing, w, sub, rec, records, timer, unheard, resting>>

(* The application acknowledges a delivery, only when the inbox is full. *)
Consume ==
    /\ "capacity" \in pauses
    /\ \E e \in inbox : inbox' = inbox \ {e}
    /\ UNCHANGED <<plan, now, online, published, state, incoming, unsaved, accepted, up, desired, pausing, w, sub, rec, records, timer, unheard, resting>>

--------------------------------------------------------------------------------
(* receive and enqueueRumor *)
First == Head(incoming)

(* The history event a pass waits for was handled. *)
Handled(r, x) == IF x.src = "history" THEN [r EXCEPT !.waiting = 0, !.todo = @ \ {x.ev}] ELSE r

(* An event whose turn comes while paused is given back to the gap. *)
TakeIn ==
    /\ incoming # <<>> /\ ~First.storing
    /\ IF Paused \/ ~desired
       THEN /\ incoming' = Tail(incoming)
            /\ st' = Interrupted(st, First.ev)
       ELSE /\ incoming' = [incoming EXCEPT ![1].storing = TRUE]
            /\ UNCHANGED st
    /\ UNCHANGED <<plan, now, online, published, disk, behind, inbox, unsaved, accepted, up, desired, pausing, w, sub, rec, records, timer, unheard, resting>>

Stored ==
    /\ incoming # <<>> /\ First.storing
    /\ First.ev \in inbox \/ ("capacity" \notin pauses /\ ~Full)
    /\ incoming' = Tail(incoming)
    /\ inbox' = inbox \union {First.ev}
    /\ accepted' = accepted \union {First.ev}
    /\ st' = Seen(st, First.ev)
    /\ rec' = Handled(rec, First)
    /\ UNCHANGED <<plan, now, online, published, disk, behind, unsaved, up, desired, pausing, w, sub, records, timer, unheard, resting>>

(* beginCapacityPressure *)
Refused ==
    /\ incoming # <<>> /\ First.storing /\ First.ev \notin inbox
    /\ "capacity" \in pauses \/ Full
    /\ incoming' = Tail(incoming)
    /\ IF "capacity" \in pauses \/ up # "open"
       THEN UNCHANGED <<pauses, auto, resumes, st, behind, w, sub, rec, timer>>
       ELSE PauseExplicitly("capacity", st, {})
    /\ UNCHANGED <<plan, now, online, published, disk, inbox, unsaved, accepted, up, desired, owned, records, unheard, resting>>

(* The write fails: no room, a store that may come back, or one that will not.  *)
(* An explicit pause stays the application's, even if it was being resumed.     *)
StoreFails ==
    /\ plan.faults > 0 /\ up = "open"
    /\ incoming # <<>> /\ First.storing /\ First.ev \notin inbox /\ ~Full
    /\ "capacity" \notin pauses
    /\ plan' = [plan EXCEPT !.faults = @ - 1]
    /\ incoming' = Tail(incoming)
    /\ \/ unsaved' = unsaved /\ owned' = owned /\ PauseExplicitly("capacity", Interrupted(st, First.ev), {})
       \/ /\ unsaved' = unsaved \union {First.ev}
          /\ owned' = owned \union ({"storage"} \intersect (pauses \ auto))
          /\ PauseInternally("storage", Interrupted(st, First.ev), {})
       \/ unsaved' = unsaved /\ owned' = owned \union {"storage"} /\ PauseExplicitly("storage", Interrupted(st, First.ev), {})
    /\ UNCHANGED <<now, online, published, disk, inbox, accepted, up, desired, records, unheard, resting>>

--------------------------------------------------------------------------------
(* handleSubscriptionState *)
TellInterrupted ==
    /\ sub.state = "cut" /\ ~sub.told
    /\ sub' = [sub EXCEPT !.told = TRUE]
    /\ IF ~Wanted THEN UNCHANGED <<st, behind, w, rec>>
       ELSE LET start == Min({w.told, sub.since}) IN
            /\ w' = [w EXCEPT !.told = start, !.retrying = FALSE, !.gap = Never]
            /\ rec' = Aborted(rec)
            /\ st' = WithRange(Interrupted(st, start), Before(start), now)
            /\ behind' = behind \union {"told"}
    /\ UNCHANGED <<plan, now, online, published, disk, queue, up, desired, pausing, records, timer, unheard, resting>>

ReadyUnrecorded ==
    /\ sub.state = "cut" /\ sub.told /\ "told" \notin behind
    /\ sub' = [sub EXCEPT !.state = "live"]
    /\ IF ~Wanted \/ w.told = Never THEN UNCHANGED <<st, behind, w>>
       ELSE /\ st' = WithRange(st, Before(w.told), w.told)
            /\ behind' = behind \union {"ready"}
            /\ w' = [w EXCEPT !.closing = TRUE]
    /\ UNCHANGED <<plan, now, online, published, disk, queue, up, desired, pausing, rec, records, timer, unheard, resting>>

(* The subscription is live again, and says so before an event can arrive. *)
Ready ==
    /\ sub.state = "cut" /\ sub.told /\ "told" \notin behind
    /\ sub' = [sub EXCEPT !.state = "live"]
    /\ IF ~Wanted \/ w.told = Never THEN UNCHANGED <<st, behind, w>>
       ELSE /\ st' = WithOpenClosed(WithRange(st, Before(w.told), now))
            /\ behind' = behind \union {"ready"}
            /\ w' = [w EXCEPT !.closing = TRUE]
    /\ UNCHANGED <<plan, now, online, published, disk, queue, up, desired, pausing, rec, records, timer, unheard, resting>>

ReadySaved ==
    /\ w.closing /\ "ready" \notin behind
    /\ w' = [w EXCEPT !.closing = FALSE, !.told = IF Wanted THEN Never ELSE @]
    /\ timer' = IF Wanted THEN Scheduled(timer) ELSE timer
    /\ resting' = (resting /\ ~Wanted)
    /\ UNCHANGED <<plan, now, online, published, state, queue, up, desired, pausing, sub, rec, records, unheard>>

--------------------------------------------------------------------------------
(* The application: init, update, watch, unwatch, pause, resume and close. *)
Change == plan' = [plan EXCEPT !.changes = @ - 1]

(* applyUpdate of the channel, from the memory state s. *)
Updating(s, paused) ==
    /\ st' = IF paused THEN Interrupted(WithWindow(s), now) ELSE WithWindow(s)
    /\ behind' = behind \union {"setup"}

(* init over what was stored. *)
Start ==
    /\ up = "down"
    /\ up' = "open" /\ desired' = TRUE
    /\ pauses' = IF Full THEN {"capacity"} ELSE {}
    /\ Updating(disk, Full)
    /\ w' = [NoWatch EXCEPT !.job = "setup"]
    /\ UNCHANGED <<plan, now, online, published, disk, queue, auto, resumes, owned, sub, rec, records, timer, unheard, resting>>

(* update keeps the reader that is live until the new watch replaces it. *)
Update ==
    /\ up = "open" /\ desired /\ plan.changes > 0 /\ Change
    /\ Updating(st, Paused)
    /\ w' = [Ended(w) EXCEPT !.gap = Never, !.job = "setup", !.recover = FALSE]
    /\ sub' = SubAfter(sub)
    /\ rec' = [Changed(rec) EXCEPT !.for = @ \ {"job"}]
    /\ timer' = NoTimer
    /\ UNCHANGED <<now, online, published, disk, queue, up, desired, pausing, records, unheard, resting>>

(* watch, once it is past its check for pauses. *)
Call(by, x, s) ==
    /\ w' = [Ended(x) EXCEPT !.call = [by |-> by, stage |-> "flush", window |-> now], !.gap = Never,
                             !.job = IF by = "job" THEN "watch" ELSE @]
    /\ st' = WithWindow(s)
    /\ behind' = behind \union {"call"}
    /\ sub' = SubAfter(sub)
    /\ rec' = Changed(rec)

Watch ==
    /\ up = "open"
    /\ IF desired THEN plan.changes > 0 /\ Change ELSE UNCHANGED plan
    /\ desired' = TRUE
    /\ IF Paused
       THEN st' = Interrupted(st, now) /\ UNCHANGED <<behind, w, sub, rec>>
       ELSE Call("app", w, st)
    /\ UNCHANGED <<now, online, published, disk, queue, up, pausing, records, timer, unheard, resting>>

(* The account's relay list changed: refreshNip65WatchRelaysNow. *)
Refresh ==
    /\ up = "open" /\ w.held /\ plan.changes > 0 /\ Change
    /\ Call("refresh", w, IF st.seen = 0 THEN st ELSE WithRange(st, Before(st.seen), now))
    /\ UNCHANGED <<now, online, published, disk, queue, up, desired, pausing, records, timer, unheard, resting>>

Unwatching ==
    /\ desired' = FALSE
    /\ unsaved' = {}
    /\ records' = {}
    /\ st' = Interrupted(st, now)
    /\ StopWatches

Unwatch ==
    /\ up = "open" /\ desired /\ plan.changes > 0 /\ Change
    /\ Unwatching
    /\ UNCHANGED <<now, online, published, disk, behind, inbox, incoming, accepted, up, pausing, unheard, resting>>

Close ==
    /\ up = "open" /\ plan.changes > 0 /\ Change
    /\ up' = "closing"
    /\ IF desired THEN Unwatching
       ELSE unsaved' = {} /\ UNCHANGED <<desired, records, st, w, sub, rec, timer>>
    /\ resumes' = {}
    /\ UNCHANGED <<now, online, published, disk, behind, inbox, incoming, accepted, pauses, auto, owned, unheard, resting>>

(* Nothing of the process is left. *)
Down ==
    /\ up' = "down" /\ desired' = FALSE
    /\ st' = Fresh /\ behind' = {}
    /\ incoming' = <<>> /\ unsaved' = {}
    /\ pauses' = {} /\ auto' = {} /\ resumes' = {} /\ owned' = {}
    /\ w' = NoWatch /\ sub' = NoSub /\ rec' = NoPass /\ records' = {} /\ timer' = NoTimer
    /\ resting' = FALSE

Closed ==
    /\ up = "closing" /\ incoming = <<>> /\ ~Passing /\ sub = NoSub
    /\ disk' = st
    /\ Down
    /\ UNCHANGED <<plan, now, online, published, inbox, accepted, unheard>>

Crash ==
    /\ up # "down" /\ plan.crashes > 0
    /\ plan' = [plan EXCEPT !.crashes = @ - 1]
    /\ Down
    /\ UNCHANGED <<now, online, published, disk, inbox, accepted, unheard>>

AppPauses(r) ==
    /\ up = "open" /\ plan.pauses > 0
    /\ plan' = [plan EXCEPT !.pauses = @ - 1]
    /\ owned' = owned \union {r}
    /\ PauseExplicitly(r, st, {})
    /\ UNCHANGED <<now, online, published, disk, queue, up, desired, records, unheard, resting>>

--------------------------------------------------------------------------------
(* resume *)
Resuming(r, by) == resumes' = {c \in resumes : ~(c.reason = r /\ c.by = by)} \union {[reason |-> r, by |-> by, valid |-> TRUE, closing |-> FALSE]}
Resumes(r, by) == \E c \in resumes : c.reason = r /\ c.by = by

(* retryStorageWrites *)
SaveUnsaved ==
    /\ inbox' = inbox \union unsaved
    /\ accepted' = accepted \union unsaved
    /\ unsaved' = {}
    /\ st' = [st EXCEPT !.seen = Max({@} \union unsaved)]

Repairing(r, by) ==
    /\ Resuming(r, by)
    /\ behind' = behind \union {r}
    /\ IF r = "storage" THEN SaveUnsaved ELSE UNCHANGED <<inbox, accepted, unsaved, st>>
    /\ UNCHANGED <<plan, now, online, published, disk, incoming, up, desired, pauses, auto, w, sub, rec, records, timer, unheard, resting>>

AppResumes(r) ==
    /\ up = "open" /\ r \in owned
    /\ owned' = owned \ {r}
    /\ Repairing(r, "app")

(* createPauseRecovery: reasons the messenger set itself, while it has no other. *)
TaskResumes(r) ==
    /\ up = "open" /\ desired /\ r \in auto \intersect pauses
    /\ pauses \subseteq {"network", "storage", "capacity"}
    /\ r = "network" => online
    /\ ~Resumes(r, "task")
    /\ owned' = owned
    /\ Repairing(r, "task")

(* checkCapacity *)
MonitorResumes ==
    /\ up = "open" /\ "capacity" \in pauses /\ Cardinality(inbox) < plan.high
    /\ ~Resumes("capacity", "monitor")
    /\ owned' = owned
    /\ Repairing("capacity", "monitor")

ResumeUnchecked(c) ==
    /\ up = "open" /\ c \in resumes /\ ~c.closing /\ c.reason \notin behind
    /\ pauses' = pauses \ {c.reason}
    /\ auto' = auto \ {c.reason}
    /\ IF pauses' = {} /\ c.reason \in pauses
       THEN /\ st' = IF desired THEN WithOpenClosed(st) ELSE st
            /\ behind' = behind \union {c.reason}
            /\ resumes' = (resumes \ {c}) \union {[c EXCEPT !.closing = TRUE]}
       ELSE resumes' = resumes \ {c} /\ UNCHANGED <<st, behind>>
    /\ UNCHANGED <<plan, now, online, published, disk, queue, up, desired, owned, w, sub, rec, records, timer, unheard, resting>>

(* After the flush: a pause made since keeps its reason. *)
ResumeRepaired(c) ==
    /\ up = "open" /\ c \in resumes /\ ~c.closing /\ c.reason \notin behind
    /\ IF ~c.valid
       THEN /\ resumes' = resumes \ {c}
            /\ UNCHANGED <<pauses, auto, st, behind>>
       ELSE /\ pauses' = pauses \ {c.reason}
            /\ auto' = auto \ {c.reason}
            /\ IF pauses' = {} /\ c.reason \in pauses
               THEN /\ st' = IF desired THEN WithOpenClosed(st) ELSE st
                    /\ behind' = behind \union {c.reason}
                    /\ resumes' = (resumes \ {c}) \union {[c EXCEPT !.closing = TRUE]}
               ELSE resumes' = resumes \ {c} /\ UNCHANGED <<st, behind>>
    /\ UNCHANGED <<plan, now, online, published, disk, queue, up, desired, owned, w, sub, rec, records, timer, unheard, resting>>

(* startChannelBackground, unless a job is under way. *)
ResumeClosed(c) ==
    /\ up = "open" /\ c \in resumes /\ c.closing /\ c.reason \notin behind
    /\ resumes' = resumes \ {c}
    /\ w' = IF Wanted /\ w.job = "none" THEN [w EXCEPT !.job = "setup", !.recover = TRUE] ELSE w
    /\ UNCHANGED <<plan, now, online, published, state, queue, up, desired, pauses, auto, owned, sub, rec, records, timer, unheard, resting>>

--------------------------------------------------------------------------------
(* startChannelBackground, and the rest of watch *)
JobStarts ==
    /\ w.job = "setup" /\ "setup" \notin behind
    /\ IF Wanted THEN Call("job", w, st)
       ELSE w' = [w EXCEPT !.job = "none"] /\ UNCHANGED <<st, behind, sub, rec>>
    /\ UNCHANGED <<plan, now, online, published, disk, queue, up, desired, pausing, records, timer, unheard, resting>>

(* The window is durable and the relays are known: the session takes the watch. *)
Install ==
    /\ w.call.stage = "flush" /\ "call" \notin behind
    /\ w' = [w EXCEPT !.call.stage = "open"]
    /\ sub' = [NoSub EXCEPT !.owner = "call", !.state = "opening", !.window = w.call.window, !.since = now]
    /\ UNCHANGED <<plan, now, online, published, state, queue, up, desired, pausing, rec, records, timer, unheard, resting>>

CallFails ==
    /\ w.call.stage = "flush" /\ "call" \notin behind /\ plan.fails > 0
    /\ plan' = [plan EXCEPT !.fails = @ - 1]
    /\ w' = [Ended(w) EXCEPT !.retrying = TRUE]
    /\ UNCHANGED <<now, online, published, state, queue, up, desired, pausing, sub, rec, records, timer, unheard, resting>>

(* closeOpenOfflineRanges and scheduleReloadGap, unless history follows anyway. *)
Returns ==
    /\ w.call.stage = "open"
    /\ LET reload == w.call.by = "app" \/ (w.call.by = "job" /\ ~w.recover)
           s == IF reload THEN WithOpenClosed(st) ELSE st IN
       /\ st' = s
       /\ w' = [Ended(w) EXCEPT !.held = TRUE, !.retrying = FALSE,
                    !.gap = IF reload /\ (s.seen # 0 \/ s.ranges # {}) THEN s.seen ELSE @]
    /\ sub' = IF sub.owner = "call" THEN [sub EXCEPT !.owner = "held"] ELSE sub
    /\ UNCHANGED <<plan, now, online, published, disk, behind, queue, up, desired, pausing, rec, records, timer, unheard, resting>>

(* A stale watch closes what it opened. *)
OrphanStops ==
    /\ sub.owner = "orphan"
    /\ sub' = NoSub
    /\ UNCHANGED <<plan, now, online, published, state, queue, up, desired, pausing, w, rec, records, timer, unheard, resting>>

(* watchRecoveries *)
WatchRetries ==
    /\ up = "open" /\ w.retrying /\ w.call = NoCall /\ w.job \notin {"setup", "watch"} /\ online
    /\ IF Wanted THEN Call("app", w, st)
       ELSE w' = [w EXCEPT !.retrying = FALSE] /\ UNCHANGED <<st, behind, sub, rec>>
    /\ UNCHANGED <<plan, now, online, published, disk, queue, up, desired, pausing, records, timer, unheard, resting>>

JobHistory ==
    /\ w.job = "history" /\ "job" \notin rec.for
    /\ IF Wanted /\ w.recover
       THEN rec' = Recovering(st, "job") /\ w' = [w EXCEPT !.job = "recovering"]
       ELSE w' = [w EXCEPT !.job = "none"] /\ UNCHANGED rec
    /\ UNCHANGED <<plan, now, online, published, state, queue, up, desired, pausing, sub, records, timer, unheard, resting>>

RefreshHistory ==
    /\ w.refresh
    /\ w' = [w EXCEPT !.refresh = FALSE]
    /\ rec' = IF Wanted THEN Recovering(st, "gap") ELSE rec
    /\ UNCHANGED <<plan, now, online, published, state, queue, up, desired, pausing, sub, records, timer, unheard, resting>>

GapFires ==
    /\ w.gap # Never
    /\ w' = [w EXCEPT !.gap = Never]
    /\ LET s == IF w.gap = 0 THEN st ELSE WithRange(st, Before(w.gap), now) IN
       IF up = "open" /\ w.held
       THEN st' = s /\ rec' = IF Wanted THEN Recovering(s, "gap") ELSE rec
       ELSE UNCHANGED <<st, rec>>
    /\ UNCHANGED <<plan, now, online, published, disk, behind, queue, up, desired, pausing, sub, records, timer, unheard, resting>>

(* The retry lets a pass under way end, then starts its own. *)
TimerFires ==
    /\ timer.at = "armed" /\ ~Passing /\ Wanted
    /\ timer' = [at |-> "running", again |-> FALSE]
    /\ rec' = Recovering(st, "timer")
    /\ UNCHANGED <<plan, now, online, published, state, queue, up, desired, pausing, w, sub, records, unheard, resting>>

--------------------------------------------------------------------------------
(* recoverChannelRanges *)

(* Ranges recorded while the pass ran are kept; of its own, those not recovered. *)
Merged(s, r) ==
    [s EXCEPT !.through = Max({@} \union r.done),
              !.ranges = (UNION (Runs(s.ranges) \ Runs(r.snap))) \union (r.snap \ r.done)]

RunEnds(r, kept) ==
    LET next == [r EXCEPT !.stage = "pick", !.run = {}, !.todo = {}, !.waiting = 0,
                          !.done = IF kept THEN @ ELSE @ \union r.run]
    IN /\ rec' = IF next.left = {} THEN [next EXCEPT !.stage = "flush"] ELSE next
       /\ IF next.left = {}
          THEN st' = Merged(st, next) /\ behind' = behind \union {"rec"}
          ELSE UNCHANGED <<st, behind>>

Known(run) == \E x \in records : x.run = run

(* A pass begins a range, unless it found the network gone or is to stop: the   *)
(* relays read it, or did when an earlier pass could not end it.                *)
Pick ==
    /\ rec.stage = "pick"
    /\ LET run == IF rec.left = {} THEN {} ELSE RunOf(rec.left, Min(rec.left))
           r == [rec EXCEPT !.left = @ \ run, !.run = run] IN
       IF run = {} \/ rec.offline \/ ~Wanted
       THEN RunEnds(r, TRUE) /\ UNCHANGED records
       ELSE /\ rec' = [r EXCEPT !.stage = "read", !.aborted = FALSE, !.changed = FALSE,
                                !.todo = IF [run |-> run, read |-> TRUE] \in records THEN {} ELSE published \intersect run]
            /\ records' = IF Known(run) THEN records ELSE records \union {[run |-> run, read |-> FALSE]}
            /\ UNCHANGED <<st, behind>>
    /\ UNCHANGED <<plan, now, online, published, disk, queue, up, desired, pausing, w, sub, timer, unheard, resting>>

FetchFails ==
    /\ rec.stage = "read" /\ rec.waiting = 0 /\ plan.fails > 0
    /\ plan' = [plan EXCEPT !.fails = @ - 1]
    /\ RunEnds([rec EXCEPT !.failed = TRUE], TRUE)
    /\ UNCHANGED <<now, online, published, disk, queue, up, desired, pausing, w, sub, records, timer, unheard, resting>>

ReadNext ==
    /\ rec.stage = "read" /\ rec.waiting = 0 /\ rec.todo # {} /\ ~rec.aborted
    /\ rec' = [rec EXCEPT !.waiting = Min(rec.todo)]
    /\ incoming' = Append(incoming, Entry(Min(rec.todo), "history"))
    /\ UNCHANGED <<plan, now, online, published, state, inbox, unsaved, accepted, up, desired, pausing, w, sub, records, timer, unheard, resting>>

PassAborted ==
    /\ rec.stage = "read" /\ rec.aborted
    /\ RunEnds(rec, TRUE)
    /\ incoming' = [i \in DOMAIN incoming |-> IF incoming[i].src = "history" THEN [incoming[i] EXCEPT !.src = "stray"] ELSE incoming[i]]
    /\ UNCHANGED <<plan, now, online, published, disk, inbox, unsaved, accepted, up, desired, pausing, w, sub, records, timer, unheard, resting>>

(* Everything was taken in; a watch that changed meanwhile keeps the range. *)
ReadDone ==
    /\ rec.stage = "read" /\ rec.todo = {} /\ rec.waiting = 0 /\ ~rec.aborted
    /\ records' = {x \in records : x.run # rec.run} \union {[run |-> rec.run, read |-> TRUE]}
    /\ IF rec.changed \/ up # "open" \/ ~w.held
       THEN RunEnds(rec, TRUE)
       ELSE rec' = [rec EXCEPT !.stage = "finalize"] /\ UNCHANGED <<st, behind>>
    /\ UNCHANGED <<plan, now, online, published, disk, queue, up, desired, pausing, w, sub, timer, unheard, resting>>

(* finalizeRecoveryRange: the seeders are asked for what the relays may lack. *)
Finalize ==
    /\ rec.stage = "finalize"
    /\ \/ online /\ RunEnds(rec, FALSE) /\ UNCHANGED plan
       \/ (Paused \/ ~online) /\ RunEnds(rec, TRUE) /\ UNCHANGED plan
       \/ /\ plan.fails > 0 /\ plan' = [plan EXCEPT !.fails = @ - 1]
          /\ RunEnds([rec EXCEPT !.failed = TRUE], TRUE)
    /\ UNCHANGED <<now, online, published, disk, queue, up, desired, pausing, w, sub, records, timer, unheard, resting>>

(* The callers go on: what is still pending is scheduled again. *)
PassEnds ==
    /\ rec.stage = "flush" /\ "rec" \notin behind
    /\ rec' = NoPass
    /\ records' = {x \in records : x.run \in Runs(rec.snap \ rec.done)}
    /\ w' = IF "job" \in rec.for /\ w.job = "recovering" THEN [w EXCEPT !.job = "none"] ELSE w
    /\ LET pending == st.ranges # {}
           ask == Wanted /\ pending /\ ("gap" \in rec.for \/ ("job" \in rec.for /\ w.job = "recovering"))
           mine == "timer" \in rec.for /\ timer.at = "running"
           retry == mine /\ pending /\ (rec.failed \/ \E x \in records' : ~x.read) IN
       /\ timer' = IF ask THEN Scheduled(IF mine /\ ~retry /\ ~timer.again THEN NoTimer ELSE [timer EXCEPT !.at = IF mine THEN "none" ELSE @])
                   ELSE IF mine THEN (IF retry \/ timer.again THEN [at |-> "armed", again |-> FALSE] ELSE NoTimer)
                   ELSE timer
       /\ resting' = (pending /\ ~ask /\ (resting \/ (mine /\ ~retry /\ ~timer.again /\ rec.offline)))
    /\ UNCHANGED <<plan, now, online, published, state, queue, up, desired, pausing, sub, unheard>>

--------------------------------------------------------------------------------
Init ==
    /\ plan \in Plans
    /\ now = 1 /\ online = TRUE /\ published = {}
    /\ st = Fresh /\ disk = Fresh /\ behind = {}
    /\ inbox = {} /\ incoming = <<>> /\ unsaved = {} /\ accepted = {}
    /\ up = "down" /\ desired = FALSE
    /\ pauses = {} /\ auto = {} /\ resumes = {} /\ owned = {}
    /\ w = NoWatch /\ sub = NoSub /\ rec = NoPass /\ records = {} /\ timer = NoTimer
    /\ unheard = {} /\ resting = FALSE

Reasons == {"app", "storage"}

World == \/ Tick \/ Publish \/ Cut \/ GoOffline \/ StoreFails \/ Refused \/ Crash
         \/ Update \/ Watch \/ Refresh \/ Unwatch \/ Close \/ \E r \in Reasons : AppPauses(r)
         \/ CallFails \/ FetchFails
Taken == TakeIn \/ Stored
Live == GoesLive \/ TellInterrupted \/ Ready \/ ReadySaved \/ OrphanStops
Watching == JobStarts \/ Install \/ Returns \/ WatchRetries \/ JobHistory \/ RefreshHistory \/ GapFires
Pass == Pick \/ ReadNext \/ PassAborted \/ ReadDone \/ Finalize \/ PassEnds
Resume == \/ \E r \in Reasons : AppResumes(r)
          \/ \E r \in {"network", "storage"} : TaskResumes(r)
          \/ MonitorResumes
          \/ \E c \in resumes : ResumeRepaired(c) \/ ResumeClosed(c)

Next == World \/ Taken \/ Live \/ Watching \/ Pass \/ Resume \/ TimerFires
        \/ Persist \/ Consume \/ Start \/ Closed \/ GoOnline

(* Timers fire, writes end, the relay answers, and the application consumes,  *)
(* resumes what it paused, watches again and reopens.                         *)
Fairness ==
    /\ WF_vars(Taken \/ Refused) /\ WF_vars(Live) /\ WF_vars(Watching) /\ WF_vars(Pass) /\ WF_vars(Resume)
    /\ WF_vars(TimerFires)
    /\ WF_vars(Persist) /\ WF_vars(Consume) /\ WF_vars(Start) /\ WF_vars(Closed) /\ WF_vars(GoOnline)
    /\ WF_vars(~desired /\ Watch)

Spec == Init /\ [][Next]_vars /\ Fairness

--------------------------------------------------------------------------------
TypeOK ==
    /\ now \in Times /\ published \subseteq Times /\ unheard \subseteq published
    /\ \A s \in {st, disk} : s.seen \in 0..MaxTime /\ s.through \in 0..MaxTime /\ s.open \in 0..Never /\ s.ranges \subseteq 0..MaxTime
    /\ accepted \subseteq published /\ inbox \subseteq accepted /\ unsaved \subseteq published
    /\ auto \subseteq pauses /\ up \in {"down", "open", "closing"}
    /\ rec.stage \in {"none", "pick", "read", "finalize", "flush"}

(* A later watch reads these instants again. *)
Covers(s, e) == e \in s.ranges \/ e >= s.open \/ e >= Before(Checkpoint(s))

(* A subscription is kept only while the channel is wanted; one that a stale watch *)
(* opened is the stale watch's to close.                                           *)
LiveOnlyWhenWanted ==
    /\ TypeOK
    /\ sub.owner = "held" => Wanted /\ w.held
    /\ sub.owner = "call" => w.call.stage = "open" /\ Wanted
    /\ w.held => Wanted

(* Whatever stops, the inbox holds an event or the stored state still covers it: a  *)
(* crash now, and a restart, would recover it; and the subscription that events      *)
(* arrive on is there only while the channel is wanted.                              *)
NothingForgotten ==
    /\ LiveOnlyWhenWanted
    /\ \A e \in published \ (accepted \union unheard) : Covers(disk, e) /\ (up # "down" => Covers(st, e))

(* What the application paused, it alone resumes: automatic recovery that was under *)
(* way ends without effect.                                                         *)
ExplicitPauseHolds == [][\A r \in owned : r \notin pauses' => r \notin owned' \/ up' # "open"]_vars

Idle ==
    /\ Wanted /\ w.held /\ sub.state = "live" /\ sub.owner = "held" /\ incoming = <<>>
    /\ ~w.closing /\ w.call = NoCall /\ w.job = "none" /\ ~Passing

(* Once the channel is live again and idle, whatever it missed is in a range that   *)
(* history will read, not only after an open start that the next watch would close. *)
MissedIsPending == Idle => published \ (accepted \union unheard) \subseteq st.ranges

(* Every event that was not published into a hole is taken in at last, unless the *)
(* inbox fills again and again: a pass that is refused starts over.               *)
AllRecovered ==
    \/ <>[](resting \/ published \subseteq accepted \union unheard)
    \/ []<>("capacity" \in pauses)
================================================================================
