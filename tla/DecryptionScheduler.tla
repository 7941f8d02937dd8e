-------------------------- MODULE DecryptionScheduler --------------------------
(***************************************************************************)
(* The admission of pending decryptions: private-messenger/services/          *)
(* decryption-scheduler.js.  A job of a channel runs when the channel has     *)
(* been quiet for a while, or when it has waited for long enough; one job at  *)
(* a time.  A replay of a channel asks for one job after another, and the     *)
(* scheduler is one timer, rearmed by everything that happens.                *)
(***************************************************************************)
EXTENDS Integers, FiniteSets, FiniteSetsExt

CONSTANTS
    Chans,      \* the channels
    Quiet,      \* 250 ms
    Wait,       \* 5000 ms
    InARow,     \* 4
    Bounds,     \* the bounds of a behaviour
    NoTime      \* null

VARIABLES
    left,       \* what is left of the bounds
    clock,
    chan,       \* channels: activities, time of the last, deadline, whether a job waits
    timer,      \* when pump is called, or NoTime
    running,    \* the channel of the running job and whether its state is still the channel's
    gate,       \* ready, closed, foreground and since when, priority
    turn,       \* previous and batch
    late        \* jobs that ran while a channel's own was overdue

svars == <<left, clock, chan, timer, running, gate, turn, late>>

NoChan == [known |-> FALSE, active |-> 0, at |-> 0, deadline |-> NoTime, job |-> FALSE]
Idle == [chan |-> "none", own |-> FALSE]
Never == 1000000
Later(a, b) == IF a >= b THEN a ELSE b
Sooner(a, b) == IF a <= b THEN a ELSE b

--------------------------------------------------------------------------------
(* stateFor, quietAt and schedule, of the state that follows. *)
StateFor(c) == IF chan[c].known THEN chan[c] ELSE [NoChan EXCEPT !.known = TRUE, !.at = clock]
QuietAt(s, g) == IF s.active > 0 \/ g.foreground THEN Never ELSE Later(s.at, g.since) + Quiet
Due(s, g) == Sooner(QuietAt(s, g), s.deadline)
Waiting(ch) == {c \in Chans : ch[c].job}
Schedule(ch, g, run) ==
    IF g.closed \/ ~g.ready \/ run # Idle \/ Waiting(ch) = {} THEN NoTime
    ELSE Later(clock, Min({Due(ch[c], g) : c \in Waiting(ch)}))
Rearmed == timer' = Schedule(chan', gate', running')

--------------------------------------------------------------------------------
(* What the messenger tells the scheduler. *)

Activity(c) ==
    /\ ~gate.closed /\ left.acts > 0 /\ left' = [left EXCEPT !.acts = @ - 1]
    /\ chan' = [chan EXCEPT ![c] = [StateFor(c) EXCEPT !.active = @ + 1, !.at = clock]]
    /\ UNCHANGED <<clock, running, gate, turn, late>> /\ Rearmed
Release(c) ==
    /\ chan[c].active > 0
    /\ chan' = [chan EXCEPT ![c].active = @ - 1, ![c].at = clock]
    /\ UNCHANGED <<left, clock, running, gate, turn, late>> /\ Rearmed
Foreground(on) ==
    /\ gate.foreground # on /\ (on => left.fronts > 0)
    /\ left' = IF on THEN [left EXCEPT !.fronts = @ - 1] ELSE left
    /\ gate' = [gate EXCEPT !.foreground = on, !.since = clock]
    /\ UNCHANGED <<clock, chan, running, turn, late>> /\ Rearmed
Priority(c) ==
    /\ gate.priority # c /\ left.picks > 0 /\ left' = [left EXCEPT !.picks = @ - 1]
    /\ gate' = [gate EXCEPT !.priority = c]
    /\ UNCHANGED <<clock, chan, running, turn, late>> /\ Rearmed
SetReady(ready) ==
    /\ ~gate.closed /\ gate.ready # ready /\ (ready \/ left.holds > 0)
    /\ left' = IF ready THEN left ELSE [left EXCEPT !.holds = @ - 1]
    /\ gate' = [gate EXCEPT !.ready = ready]
    /\ chan' = IF ~ready THEN chan
               ELSE [c \in Chans |-> IF ~chan[c].known THEN chan[c]
                                     ELSE [chan[c] EXCEPT !.at = clock, !.deadline = IF chan[c].job THEN clock + Wait ELSE NoTime]]
    /\ late' = IF ready THEN [c \in Chans |-> 0] ELSE late
    /\ UNCHANGED <<clock, running, turn>> /\ Rearmed

(* run: the replay of a channel asks for its next record. *)
Run(c) ==
    /\ ~gate.closed /\ ~chan[c].job /\ (running.chan = c => ~running.own)
    /\ left.jobs > 0 /\ left' = [left EXCEPT !.jobs = @ - 1]
    /\ chan' = [chan EXCEPT ![c] = [StateFor(c) EXCEPT !.job = TRUE, !.deadline = IF @ = NoTime THEN clock + Wait ELSE @]]
    /\ late' = [late EXCEPT ![c] = 0]
    /\ UNCHANGED <<clock, running, gate, turn>> /\ Rearmed
(* abort, finish, remove and close *)
Abort(c) ==
    /\ chan[c].job /\ left.aborts > 0 /\ left' = [left EXCEPT !.aborts = @ - 1]
    /\ chan' = [chan EXCEPT ![c].job = FALSE]
    /\ UNCHANGED <<clock, running, gate, turn, late>> /\ Rearmed
Finish(c) ==
    /\ chan[c].known /\ ~chan[c].job /\ chan[c].deadline # NoTime /\ (running.chan = c => ~running.own)
    /\ chan' = [chan EXCEPT ![c].deadline = NoTime]
    /\ UNCHANGED <<left, clock, timer, running, gate, turn, late>>
Remove(c) ==
    /\ chan[c].known /\ left.removes > 0 /\ left' = [left EXCEPT !.removes = @ - 1]
    /\ chan' = [chan EXCEPT ![c] = NoChan]
    /\ running' = IF running.chan = c THEN [running EXCEPT !.own = FALSE] ELSE running
    /\ UNCHANGED <<clock, gate, turn, late>> /\ Rearmed
Close ==
    /\ ~gate.closed /\ left.closes > 0 /\ left' = [left EXCEPT !.closes = @ - 1]
    /\ gate' = [gate EXCEPT !.closed = TRUE] /\ timer' = NoTime
    /\ chan' = [c \in Chans |-> NoChan]
    /\ running' = IF running = Idle THEN Idle ELSE [running EXCEPT !.own = FALSE]
    /\ UNCHANGED <<clock, turn, late>>

--------------------------------------------------------------------------------
(* pump *)

Eligible == {c \in Waiting(chan) : Due(chan[c], gate) <= clock}
Overdue(c) == chan[c].job /\ chan[c].deadline <= clock
Spent(c) == c = turn.previous /\ turn.batch >= InARow
Before(a, b) ==
    IF Overdue(a) # Overdue(b) THEN Overdue(a)
    ELSE IF Overdue(a) /\ chan[a].deadline # chan[b].deadline THEN chan[a].deadline < chan[b].deadline
    ELSE IF Spent(a) # Spent(b) THEN Spent(b)
    ELSE a = gate.priority /\ b # gate.priority

Pump ==
    /\ timer # NoTime /\ timer <= clock
    /\ IF Eligible = {}
       THEN UNCHANGED <<chan, running, turn, late>> /\ timer' = Schedule(chan, gate, running)
       ELSE \E c \in {a \in Eligible : \A b \in Eligible : ~Before(b, a)} :
            /\ chan' = [chan EXCEPT ![c].job = FALSE]
            /\ running' = [chan |-> c, own |-> TRUE] /\ timer' = NoTime
            /\ turn' = IF turn.previous = c THEN [turn EXCEPT !.batch = @ + 1] ELSE [previous |-> c, batch |-> 1]
            /\ late' = [d \in Chans |-> IF d # c /\ Overdue(d) THEN late[d] + 1 ELSE late[d]]
    /\ UNCHANGED <<left, clock, gate>>

(* The work is over, well or not: a fresh deadline, and the next task. *)
RenewedNot(ch) == ch
Renewed(ch) == IF running.own THEN [ch EXCEPT ![running.chan].deadline = clock + Wait] ELSE ch
JobEnds ==
    /\ running # Idle /\ running' = Idle /\ chan' = Renewed(chan)
    /\ UNCHANGED <<left, clock, gate, turn, late>> /\ Rearmed

TimePasses ==
    /\ clock < left.time /\ clock' = clock + 1
    /\ UNCHANGED <<left, chan, timer, running, gate, turn, late>>

--------------------------------------------------------------------------------
SInit ==
    /\ left \in Bounds
    /\ clock = 0 /\ timer = NoTime /\ running = Idle
    /\ chan = [c \in Chans |-> NoChan]
    /\ gate = [ready |-> left.ready, closed |-> FALSE, foreground |-> FALSE, since |-> 0, priority |-> "none"]
    /\ turn = [previous |-> "none", batch |-> 0]
    /\ late = [c \in Chans |-> 0]

SNext ==
    \/ Pump \/ JobEnds \/ TimePasses \/ Close
    \/ \E b \in BOOLEAN : Foreground(b) \/ SetReady(b)
    \/ \E c \in Chans : Activity(c) \/ Release(c) \/ Priority(c) \/ Run(c) \/ Abort(c) \/ Finish(c) \/ Remove(c)

SSpec == SInit /\ [][SNext]_svars

--------------------------------------------------------------------------------
(* While a job may run and none does, the timer is armed for the first of the waiting    *)
(* jobs to be due: no order of activities, releases, aborts and ends of jobs leaves one    *)
(* waiting for a timer that is not there, or past its deadline (decryption-scheduler.js:    *)
(* 21-30, README.md:275-278).                                                              *)
Armed ==
    gate.ready /\ ~gate.closed /\ running = Idle =>
        \A c \in Waiting(chan) : chan[c].deadline # NoTime /\ timer # NoTime /\ timer <= Later(clock, Due(chan[c], gate))

(* A job past its deadline is overtaken by at most one job of each other channel: neither *)
(* a preferred channel nor a batch keeps it waiting (decryption-scheduler.js:36-45, 58,     *)
(* README.md:275-279).                                                                     *)
NotOvertaken == \A c \in Chans : chan[c].job => late[c] < Cardinality(Chans)
================================================================================
