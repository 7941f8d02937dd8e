----------------------------- MODULE Connectivity -----------------------------
(***************************************************************************)
(* The connectivity monitor (network/index.js) and those who wait on it:    *)
(* the pool's ReadRetry, with the live readers whose relay is to be opened   *)
(* again; the recovery of the messenger's network pause; a session that has  *)
(* a message to send, urgently; and an application that stays subscribed.    *)
(*                                                                         *)
(* Delays and deadlines are any delay; a check answers by what the network   *)
(* was while it ran.  A monitor, a probe or a job that was dropped answers   *)
(* nobody, so it is forgotten.                                               *)
(***************************************************************************)
EXTENDS Integers, FiniteSets

CONSTANTS
    Readers,    \* live readers with a relay to open again
    Steps,      \* the length of RETRY_DELAYS
    Plans       \* the first network and the bounds of a behaviour

Links == {"up", "captive", "off"}

(* "lost" is a subscription of a recovery job that lost its handle. *)
Listeners == {"pool", "pause", "lost", "session", "app"}

VARIABLES
    plan,       \* what is left of the bounds
    link,       \* the network; navigator.onLine is false when it is off
    monitor,    \* the monitor's session, on while it has listeners
    entries,    \* its listeners
    probe,      \* ReadRetry's shared check and its users
    reader,     \* where the reconnection of each reader is
    job         \* the current job of the pause recovery

vars == <<plan, link, monitor, entries, probe, reader, job>>

--------------------------------------------------------------------------------
(* isOnline answers true only if the network was up meanwhile, and false only if it *)
(* was not, or was slow; it is false at once when the browser is offline.           *)
Sees(seen, l) == IF seen \in {{}, {"off"}} THEN seen ELSE seen \union {l}
MayAnswer(seen, v) == IF v THEN "up" \in seen ELSE seen # {"up"} \/ plan.slow > 0
Spent(seen, v) == IF ~v /\ seen = {"up"} THEN [plan EXCEPT !.slow = @ - 1] ELSE plan

NoListener == [on |-> FALSE, delivered |-> FALSE, urgent |-> FALSE]
NoMonitor == [on |-> FALSE, online |-> FALSE, retry |-> 0, timer |-> "none", soon |-> FALSE,
              probing |-> "none", seen |-> {}, wakes |-> {}]
Started == [NoMonitor EXCEPT !.on = TRUE, !.wakes = {"start"}]

On(e) == {l \in Listeners : e[l].on}
Urgent(e) == \E l \in On(e) : e[l].urgent

(* arm: urgency matters while the network is not known to be there. *)
Armed(m, e) ==
    IF m.probing # "none" \/ On(e) = {} THEN m
    ELSE [m EXCEPT !.timer = IF Urgent(e) /\ (~m.online \/ m.soon) THEN "expedited" ELSE "backoff"]

(* probe: one at a time. *)
Probing(m, reason, l) ==
    IF ~m.on \/ m.probing # "none" THEN m ELSE [m EXCEPT !.timer = "none", !.probing = reason, !.seen = {l}]

ScheduledOnce(m, e, expedited) ==
    IF expedited /\ ~m.online THEN [m EXCEPT !.soon = FALSE] ELSE
    Armed([m EXCEPT !.retry = IF m.online \/ @ = Steps THEN @ ELSE @ + 1, !.soon = FALSE], e)

(* schedule: urgent checks do not spend the backoff. *)
Scheduled(m, e, expedited) ==
    Armed([m EXCEPT !.retry = IF m.online \/ expedited \/ @ = Steps THEN @ ELSE @ + 1, !.soon = FALSE], e)

(* onOnline, and the function it returns: the last listener stops the monitor. *)
Added(e, l, urgent) == [e EXCEPT ![l] = [on |-> TRUE, delivered |-> FALSE, urgent |-> urgent]]
Joined(m, e, l, urgent) ==
    IF ~m.on THEN Started
    ELSE IF Urgent(Added(e, l, urgent)) THEN Armed([m EXCEPT !.soon = TRUE], Added(e, l, urgent))
    ELSE [m EXCEPT !.wakes = @ \union {"joined"}]
Removed(e, gone) == [l \in Listeners |-> IF l \in gone THEN NoListener ELSE e[l]]
LeftAlone(m, e, gone) ==
    IF On(e) \intersect gone = {} THEN m ELSE Armed(m, Removed(e, gone))

Left(m, e, gone) ==
    IF On(e) \subseteq gone THEN NoMonitor ELSE IF On(e) \intersect gone = {} THEN m ELSE Armed(m, Removed(e, gone))

--------------------------------------------------------------------------------
(* createPauseRecovery *)
NoJob == [on |-> FALSE, work |-> "none", seen |-> {}, timers |-> 0, held |-> FALSE, confirmed |-> FALSE, lost |-> FALSE]
NewJob == [NoJob EXCEPT !.on = TRUE, !.timers = 1, !.held = TRUE]
TimerSet(j) == [j EXCEPT !.timers = IF @ = 2 THEN 2 ELSE @ + 1, !.held = TRUE]
TimerCleared(j) == IF j.held THEN [j EXCEPT !.timers = @ - 1, !.held = FALSE] ELSE j
Run(j, l) ==
    IF j.work # "none" THEN j
    ELSE IF j.confirmed THEN [j EXCEPT !.confirmed = FALSE, !.work = "attempting"]
    ELSE [j EXCEPT !.work = "checking", !.seen = {l}]

(* wake and the start of a job that is there already: now, or when its time comes. *)
Woken(j, l) == IF ~j.on \/ j.work # "none" THEN {j} ELSE {Run(TimerCleared(j), l), TimerSet(TimerCleared(j))}

JobStarts ==
    /\ ~job.on /\ plan.jobs > 0
    /\ plan' = [plan EXCEPT !.jobs = @ - 1]
    /\ job' = NewJob
    /\ UNCHANGED <<link, monitor, entries, probe, reader>>

JobTimer ==
    /\ job.timers > 0
    /\ job' = Run([job EXCEPT !.timers = @ - 1, !.held = FALSE], link)
    /\ UNCHANGED <<plan, link, monitor, entries, probe, reader>>

JobChecked(v) ==
    /\ job.work = "checking" /\ MayAnswer(job.seen, v)
    /\ plan' = Spent(job.seen, v)
    /\ \/ /\ v
          /\ job' = [job EXCEPT !.work = "attempting", !.seen = {}]
          /\ UNCHANGED <<monitor, entries>>
       \/ /\ ~v
          /\ job' = [job EXCEPT !.work = "none", !.seen = {}, !.lost = @ \/ entries["pause"].on]
          /\ LET e == IF entries["pause"].on THEN [entries EXCEPT !["lost"] = entries["pause"]] ELSE entries IN
             /\ entries' = Added(e, "pause", FALSE)
             /\ monitor' = Joined(monitor, e, "pause", FALSE)
    /\ UNCHANGED <<link, probe, reader>>

JobStopped ==
    /\ job' = NoJob
    /\ entries' = Removed(entries, {"pause"})
    /\ monitor' = Left(monitor, entries, {"pause"})
    /\ UNCHANGED <<link, probe, reader>>

(* The pause was lifted otherwise, or the messenger closes. *)
StopJob ==
    /\ job.on /\ plan.stops > 0 /\ plan' = [plan EXCEPT !.stops = @ - 1]
    /\ JobStopped

(* The attempt lifts the pause, fails for good, or fails for now. *)
JobEnds == job.work = "attempting" /\ JobStopped /\ UNCHANGED plan
JobFails ==
    /\ job.work = "attempting" /\ plan.fails > 0
    /\ plan' = [plan EXCEPT !.fails = @ - 1]
    /\ job' = TimerSet([job EXCEPT !.work = "none"])
    /\ UNCHANGED <<link, monitor, entries, probe, reader>>

--------------------------------------------------------------------------------
(* ReadRetry.confirmOnline: readers share a check. *)
NoProbe == [on |-> FALSE, seen |-> {}, users |-> {}]

Waits(r) ==
    /\ reader' = [reader EXCEPT ![r] = "wait"]
    /\ entries' = IF entries["pool"].on THEN entries ELSE Added(entries, "pool", FALSE)
    /\ monitor' = IF entries["pool"].on THEN monitor ELSE Joined(monitor, entries, "pool", FALSE)

Confirm(r, at) ==
    IF link = "off" THEN Waits(r) /\ UNCHANGED probe
    ELSE /\ reader' = [reader EXCEPT ![r] = at]
         /\ probe' = [on |-> TRUE, seen |-> IF probe.on THEN probe.seen ELSE {link}, users |-> probe.users \union {r}]
         /\ UNCHANGED <<monitor, entries>>

(* scheduleReconnect: a relay of the reader failed, as the network may have. *)
ReaderFails(r) ==
    /\ reader[r] = "open" /\ plan.reads > 0
    /\ plan' = [plan EXCEPT !.reads = @ - 1]
    /\ Confirm(r, "first")
    /\ UNCHANGED <<link, job>>

ReaderDelayed(r) ==
    /\ reader[r] = "delay"
    /\ Confirm(r, "again")
    /\ UNCHANGED <<plan, link, job>>

(* The check ends, by itself or at its deadline: all its users have the answer. *)
PoolAnswers(v) ==
    /\ probe.on /\ MayAnswer(probe.seen, v)
    /\ plan' = Spent(probe.seen, v)
    /\ reader' = [r \in Readers |-> IF r \notin probe.users THEN reader[r] ELSE IF ~v THEN "wait"
                                    ELSE IF reader[r] = "first" THEN "delay" ELSE "open"]
    /\ entries' = IF v \/ entries["pool"].on THEN entries ELSE Added(entries, "pool", FALSE)
    /\ monitor' = IF v \/ entries["pool"].on THEN monitor ELSE Joined(monitor, entries, "pool", FALSE)
    /\ probe' = NoProbe
    /\ UNCHANGED <<link, job>>

(* A user that leaves ends the check only when it was the last. *)
Unused(p, r) == IF p.users \subseteq {r} THEN NoProbe ELSE [p EXCEPT !.users = @ \ {r}]

StopReader(r) ==
    /\ reader[r] # "stopped" /\ plan.stops > 0
    /\ plan' = [plan EXCEPT !.stops = @ - 1]
    /\ probe' = Unused(probe, r)
    /\ LET told == IF probe'.on \/ r \notin probe.users THEN {} ELSE probe.users \ {r}
           idle == \A x \in Readers \ {r} : reader[x] # "wait" /\ x \notin told
           gone == IF reader[r] = "wait" /\ idle THEN {"pool"} ELSE {} IN
       /\ reader' = [x \in Readers |-> IF x = r THEN "stopped" ELSE IF x \in told THEN "wait" ELSE reader[x]]
       /\ IF told # {} /\ ~entries["pool"].on
          THEN entries' = Added(entries, "pool", FALSE) /\ monitor' = Joined(monitor, entries, "pool", FALSE)
          ELSE entries' = Removed(entries, gone) /\ monitor' = Left(monitor, entries, gone)
    /\ UNCHANGED <<link, job>>

--------------------------------------------------------------------------------
(* The microtasks of start and of onOnline *)
MonitorWakes ==
    /\ monitor.wakes # {}
    /\ \E w \in monitor.wakes :
           LET m == [monitor EXCEPT !.wakes = @ \ {w}] IN
           monitor' = IF w = "joined" /\ Urgent(entries) THEN Armed(m, entries) ELSE Probing(m, "wake", link)
    /\ UNCHANGED <<plan, link, entries, probe, reader, job>>

MonitorTimer ==
    /\ monitor.timer # "none"
    /\ LET m == [monitor EXCEPT !.timer = "none"] IN
       monitor' = IF monitor.timer = "expedited" /\ ~Urgent(entries) THEN Armed(m, entries) ELSE Probing(m, monitor.timer, link)
    /\ UNCHANGED <<plan, link, entries, probe, reader, job>>

(* A probe that found the network tells who was not told: the pool's readers go on  *)
(* and, like the session, it leaves; a recovery job leaves by the handle it has.     *)
Found ==
    LET told == {l \in On(entries) : ~entries[l].delivered}
        jobs == "pause" \in told \/ ("lost" \in told /\ job.lost)
        gone == (told \intersect {"pool", "session"}) \union (IF jobs THEN {"pause"} ELSE {})
        e == Removed([l \in Listeners |-> IF l \in told THEN [entries[l] EXCEPT !.delivered = TRUE] ELSE entries[l]], gone)
        m == [monitor EXCEPT !.online = TRUE, !.retry = 0, !.probing = "none", !.seen = {}]
    IN /\ entries' = e
       /\ monitor' = IF On(e) = {} THEN NoMonitor ELSE Scheduled(m, e, monitor.probing = "expedited")
       /\ reader' = [r \in Readers |-> IF reader[r] = "wait" /\ "pool" \in told THEN "delay" ELSE reader[r]]
       /\ job' = IF jobs THEN TimerSet([job EXCEPT !.confirmed = TRUE]) ELSE job

NotFound ==
    /\ entries' = [l \in Listeners |-> [entries[l] EXCEPT !.delivered = FALSE]]
    /\ monitor' = Scheduled([monitor EXCEPT !.online = FALSE, !.probing = "none", !.seen = {}], entries, monitor.probing = "expedited")
    /\ UNCHANGED <<reader, job>>

Probed(v) ==
    /\ monitor.probing # "none" /\ MayAnswer(monitor.seen, v)
    /\ plan' = Spent(monitor.seen, v)
    /\ IF v /\ link # "off" THEN Found ELSE NotFound
    /\ UNCHANGED <<link, probe>>

--------------------------------------------------------------------------------
(* A session subscribes urgently, or does so anew for a newer message. *)
SessionSends ==
    /\ plan.sends > 0 /\ plan' = [plan EXCEPT !.sends = @ - 1]
    /\ entries' = Added(entries, "session", TRUE)
    /\ monitor' = Joined(monitor, entries, "session", TRUE)
    /\ UNCHANGED <<link, probe, reader, job>>

UrgencyEnds ==
    /\ entries["session"].urgent
    /\ entries' = [entries EXCEPT !["session"].urgent = FALSE]
    /\ UNCHANGED <<plan, link, monitor, probe, reader, job>>

(* The network changes; the browser fires an event when navigator.onLine does, which *)
(* the monitor and, for online, the messenger listen to.                              *)
LinkChanges(l) ==
    LET fired == (l = "off") # (link = "off")
        m == [monitor EXCEPT !.seen = Sees(@, l)]
        j == [job EXCEPT !.seen = Sees(@, l)]
    IN /\ l # link /\ plan.links > 0 /\ plan' = [plan EXCEPT !.links = @ - 1]
       /\ link' = l
       /\ probe' = [probe EXCEPT !.seen = Sees(@, l)]
       /\ monitor' = IF fired /\ m.on THEN Probing([m EXCEPT !.online = FALSE, !.retry = 0], "wake", l) ELSE m
       /\ entries' = IF fired THEN [x \in Listeners |-> [entries[x] EXCEPT !.delivered = FALSE]] ELSE entries
       /\ job' \in IF fired /\ l # "off" THEN Woken(j, l) ELSE {j}
       /\ UNCHANGED reader

(* The page is focused or visible again. *)
Focus ==
    /\ plan.focus > 0 /\ monitor.on /\ plan' = [plan EXCEPT !.focus = @ - 1]
    /\ monitor' = Probing(monitor, "wake", link)
    /\ UNCHANGED <<link, entries, probe, reader, job>>

--------------------------------------------------------------------------------
Init ==
    /\ plan \in Plans
    /\ link = plan.link
    /\ entries = [l \in Listeners |-> IF l = "app" /\ plan.app THEN [NoListener EXCEPT !.on = TRUE] ELSE NoListener]
    /\ monitor = IF plan.app THEN Started ELSE NoMonitor
    /\ probe = NoProbe /\ job = NoJob
    /\ reader = [r \in Readers |-> "open"]

Answers == \E v \in BOOLEAN : JobChecked(v) \/ PoolAnswers(v) \/ Probed(v)
Goes == JobTimer \/ JobEnds \/ MonitorWakes \/ MonitorTimer \/ UrgencyEnds \/ \E r \in Readers : ReaderDelayed(r)
Next == Answers \/ Goes \/ JobStarts \/ JobFails \/ StopJob \/ SessionSends \/ Focus
        \/ (\E r \in Readers : ReaderFails(r) \/ StopReader(r)) \/ (\E l \in Links : LinkChanges(l))

Spec == Init /\ [][Next]_vars /\ WF_vars(\E v \in BOOLEAN : JobChecked(v)) /\ WF_vars(\E v \in BOOLEAN : PoolAnswers(v))
        /\ WF_vars(\E v \in BOOLEAN : Probed(v)) /\ WF_vars(JobTimer) /\ WF_vars(JobEnds) /\ WF_vars(MonitorWakes) /\ WF_vars(MonitorTimer)
        /\ WF_vars(UrgencyEnds) /\ \A r \in Readers : WF_vars(ReaderDelayed(r))
--------------------------------------------------------------------------------
TypeOK ==
    /\ link \in Links /\ \A r \in Readers : reader[r] \in {"open", "first", "again", "wait", "delay", "stopped"}
    /\ monitor.probing \in {"none", "wake", "expedited", "backoff"} /\ monitor.retry \in 0..Steps
    /\ probe.users \subseteq Readers /\ job.timers \in 0..2 /\ job.work \in {"none", "checking", "attempting"}

(* The monitor runs exactly while it has listeners, always with a probe, a timer or *)
(* a wake-up to come; a reader waits only under the pool's subscription, and a check *)
(* or a wait of the pool has a reader that wants it.                                 *)
LoopAlive ==
    /\ TypeOK
    /\ monitor.on <=> On(entries) # {}
    /\ monitor.on => monitor.probing # "none" \/ monitor.timer # "none" \/ monitor.wakes # {}
    /\ entries["pool"].on <=> \E r \in Readers : reader[r] = "wait"
    /\ probe.users = {r \in Readers : reader[r] \in {"first", "again"}} /\ (probe.on <=> probe.users # {})

(* A reader is told that it is offline only when the network was not up at some     *)
(* time since it asked, or answered late: never because another reader ended.        *)
OthersUndisturbedStep ==
    \A r \in Readers : reader[r] \in {"first", "again", "delay"} /\ reader'[r] = "wait"
     => link # "up" \/ probe.seen # {"up"} \/ plan'.slow < plan.slow

(* Once the network stays, every reader reconnects, the pause is lifted and an       *)
(* application is told, whatever was urgent, slow or ended meanwhile.                *)
Resumed ==
    link = "up" =>
        /\ \A r \in Readers : reader[r] \in {"open", "stopped"}
        /\ ~job.on
        /\ entries["app"].on => entries["app"].delivered

(* A recovery job that ended leaves no subscription behind. *)
EndedLeavesNothing == ~job.on => ~entries["pause"].on /\ ~entries["lost"].on
================================================================================
