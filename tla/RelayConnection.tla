---------------------------- MODULE RelayConnection ----------------------------
(***************************************************************************)
(* relay/services/relay-connection.js: one socket to a relay and the work   *)
(* that shares it.  Publications of one event share a job per pacing; bulk  *)
(* jobs go one at a time, paced; a rate limit puts an operation type on a    *)
(* cooldown, after which jobs whose callers allow it are sent again.        *)
(*                                                                         *)
(* The connection's memory is one record, conn.  A method or a listener     *)
(* runs to completion and is one action, composed of operators from memory  *)
(* to memory.  Timers fire when their time has come or any time later.      *)
(***************************************************************************)
EXTENDS Integers, FiniteSets, Sequences, SequencesExt, FiniteSetsExt

CONSTANTS
    Calls,      \* calls of publish
    Asks,       \* subscriptions and counts
    Offers,     \* what a behaviour may bring: terms for the calls, asks, faults
    None,
    Pacing, Timeout, \* BULK_PACING_MS and publishTimeout, in units of half a second
    Advice,     \* waits a relay may ask for in a rate limit; None for no advice
    MaxClock    \* bound: units of time

Types == {"EVENT", "REQ", "COUNT"}
NoLimit == -1

TimesAssumption == /\ {Pacing, Timeout} \subseteq Nat \ {0}
                          /\ MaxClock \in Nat
OffersAssumption ==
    \A o \in Offers : DOMAIN o.terms \subseteq Calls /\ o.asks \subseteq Asks /\ o.faults \in Nat
AdviceAssumption == Advice \subseteq (Nat \ {0}) \cup {None} /\ None \notin Int

VARIABLES
    clock,
    offer,   \* terms of the calls that come (event, bulk, retries, maxWait, deadline), and asks
    conn,    \* the RelayConnection
    faults   \* rate limits, aborts, closing sockets and changes of the cap that are left

vars == <<clock, offer, conn, faults>>

--------------------------------------------------------------------------------
terms == offer.terms
Callers == DOMAIN terms
Events == {terms[c].event : c \in Callers}
Keys == Events \X {"interactive", "bulk"}

NoJob == [waiters |-> {}, state |-> "none", startedAt |-> 0, retryAt |-> 0,
          retrying |-> FALSE, limited |-> FALSE, awaiting |-> FALSE, due |-> FALSE]

(* The job of a key in a connection's maps. *)
HasJob(m, k) == m.jobs[k].state # "none"
JobOf(m, c) == {k \in Keys : c \in m.jobs[k].waiters}

(* nextRateLimitBackoff *)
NextBackoff(delay) ==
    IF delay = 2 THEN 3 ELSE IF delay = 3 THEN 4 ELSE Min({60, 2 * delay})

Fresh(socket) ==
    [socket |-> socket, jobs |-> [k \in Keys |-> NoJob], queue |-> <<>>, active |-> None,
     nextAt |-> 0, timer |-> None, lastBulk |-> None]

(* canShareScheduledRetry and canRetryAfterLimit, for a retry at a time. *)
SharesRetry(m, c, at) ==
    /\ ~m.calls[c].retryAborted
    /\ terms[c].deadline # NoLimit => at < terms[c].deadline

RetriesAfterLimit(m, c, at) ==
    /\ m.calls[c].failures <= terms[c].retries
    /\ terms[c].maxWait # NoLimit => at - clock <= terms[c].maxWait
    /\ SharesRetry(m, c, at)

--------------------------------------------------------------------------------
(* What becomes of memory when job k leaves the maps, the queue and the active *)
(* slot, before the scheduler runs.                                          *)
Dropped(m, k) ==
    [m EXCEPT
        !.jobs[k] = NoJob,
        !.queue = SelectSeq(@, LAMBDA j : j # k),
        !.active = IF @ = k THEN None ELSE @,
        !.nextAt = IF m.active = k THEN Max({@, clock, m.jobs[k].startedAt + Pacing}) ELSE @]

(* detachJob, given the scheduler. *)
Detach(m, k, pump(_)) ==
    LET rest == Dropped(m, k) IN IF rest.active = None THEN pump(rest) ELSE rest

Told(m, cs, how) ==
    [m EXCEPT !.calls = [c \in Callers |-> IF c \in cs THEN [@[c] EXCEPT !.state = how] ELSE @[c]]]

(* removeWaiter for each of cs; a job without waiters goes. *)
Left(m, k, cs, how) == [Told(m, cs, how) EXCEPT !.jobs[k].waiters = @ \ cs]
Leave(m, k, cs, how, pump(_)) ==
    LET left == Left(m, k, cs, how)
    IN  IF cs # {} /\ left.jobs[k].waiters = {} THEN Detach(left, k, pump) ELSE left

(* settleJob *)
Settle(m, k, how, pump(_)) == Detach(Told(m, m.jobs[k].waiters, how), k, pump)

(* The callback of dispatchEventAttempt: callers past their deadline leave and *)
(* the event is sent, if the socket still takes it.                          *)
Overdue(m, k) ==
    {c \in m.jobs[k].waiters : terms[c].deadline # NoLimit /\ clock >= terms[c].deadline}
OnWire(m, k) == [m EXCEPT !.jobs[k].retrying = FALSE, !.jobs[k].awaiting = TRUE, !.wire[k[1]] = @ + 1]
Transmit(m, k, pump(_)) ==
    LET job == m.jobs[k]
        late == Overdue(m, k)
        rest == Leave([m EXCEPT !.jobs[k].due = FALSE], k, late,
                      IF job.retrying THEN "limited" ELSE "timeout", pump)
    IN  IF job.waiters \ late = {} THEN rest
        ELSE IF m.socket = "open"
             THEN OnWire(rest, k)
             ELSE Settle(rest, k, "failed", pump)

(* dispatchWork: at once, or when the cooldown of the type is over. *)
Held(m, k) == [m EXCEPT !.jobs[k].due = TRUE]
Dispatch(m, k, pump(_)) ==
    IF clock < m.retryAt["EVENT"] THEN Held(m, k) ELSE Transmit(m, k, pump)

EligibleAt(m) == Max({m.nextAt, m.retryAt["EVENT"]})

(* Mutant of Arm: a job held by the cooldown is left to the end of another. *)
ArmForPacing(m) ==
    IF m.queue = <<>> \/ m.nextAt <= clock THEN m ELSE [m EXCEPT !.timer = EligibleAt(m)]

(* pumpBulkPublishes: the next queued job starts if pacing and cooldown allow,  *)
(* else a timer is set for it.  A job that ends at once has moved nextAt, so    *)
(* the scheduler that runs then can only set the timer.                      *)
Arm(m) == IF m.queue = <<>> THEN m ELSE [m EXCEPT !.timer = EligibleAt(m)]
Pump(m) ==
    IF m.active # None \/ m.queue = <<>> THEN m
    ELSE IF EligibleAt(m) > clock THEN Arm(m)
    ELSE LET k == Head(m.queue)
         IN  Dispatch([m EXCEPT !.timer = None, !.queue = Tail(@), !.active = k, !.lastBulk = clock,
                                !.jobs[k].state = "active", !.jobs[k].startedAt = clock], k, Arm)

(* pruneScheduledRetryWaiters *)
Pruned(m, k) ==
    IF ~m.jobs[k].retrying THEN m
    ELSE Leave(m, k, {c \in m.jobs[k].waiters : ~SharesRetry(m, c, m.jobs[k].retryAt)}, "limited", Pump)

(* applyRateLimit: callers who cannot wait for the retry leave; for the others   *)
(* the job is dispatched again.                                               *)
ApplyRateLimit(m, k) ==
    LET at == m.retryAt["EVENT"]
        counted == [m EXCEPT
            !.jobs[k].awaiting = FALSE, !.jobs[k].limited = TRUE,
            !.calls = [c \in Callers |-> IF c \in m.jobs[k].waiters
                                       THEN [@[c] EXCEPT !.failures = @ + 1] ELSE @[c]]]
        leaving == {c \in m.jobs[k].waiters : ~RetriesAfterLimit(counted, c, at)}
        rest == Leave(counted, k, leaving, "limited", Pump)
    IN  IF m.jobs[k].waiters \subseteq leaving THEN rest
        ELSE Dispatch([rest EXCEPT !.jobs[k].retryAt = at, !.jobs[k].retrying = TRUE], k, Pump)

(* rejection of a rate limit: the type cools down for what the relay advised, or *)
(* for the backoff, which grows either way.                                  *)
CooledDown(m, type, advice) ==
    LET at == clock + (IF advice = None THEN m.backoff[type] ELSE advice)
    IN  [m EXCEPT !.retryAt[type] = Max({@, at}), !.backoff[type] = NextBackoff(@)]

(* recordSuccess *)
Recovered(m, type) == [m EXCEPT !.backoff[type] = Pacing]

--------------------------------------------------------------------------------
(* selectJob: an interactive call joins a bulk job only once that is active. *)
Selected(m, c) ==
    LET interactive == <<terms[c].event, "interactive">>
        bulk == <<terms[c].event, "bulk">>
    IN  IF HasJob(m, interactive) THEN interactive
        ELSE IF terms[c].bulk \/ m.jobs[bulk].state = "active" THEN bulk
        ELSE interactive

(* sendEventOperation: the call becomes a waiter of a job; a new job is queued  *)
(* or dispatched.                                                            *)
Publish(c) ==
    LET k == Selected(conn, c)
        joined == [conn EXCEPT
            !.calls[c] = [@ EXCEPT !.state = "waiting", !.expireAt = clock + Timeout],
            !.jobs[k].waiters = @ \cup {c}]
        queued == [joined EXCEPT !.jobs[k].state = "queued", !.queue = Append(@, k)]
        started == [joined EXCEPT !.jobs[k].state = "active"]
    IN  /\ conn.calls[c].state = "idle"
        /\ clock + Timeout <= MaxClock
        /\ conn.socket # "closed"
        /\ conn' = IF HasJob(conn, k)
                   THEN IF conn.jobs[k].retrying /\ ~SharesRetry(joined, c, conn.jobs[k].retryAt)
                        THEN Leave(joined, k, {c}, "limited", Pump)
                        ELSE joined
                   ELSE IF k[2] = "bulk" THEN Pump(queued) ELSE Dispatch(started, k, Pump)
        /\ UNCHANGED <<clock, offer, faults>>

(* The caller's signal aborts. *)
Abort(c) == \E k \in JobOf(conn, c) :
    /\ faults > 0
    /\ faults' = faults - 1
    /\ conn' = Leave(conn, k, {c}, "aborted", Pump)
    /\ UNCHANGED <<clock, offer>>

(* expireWaiter *)
Expire(c) == \E k \in JobOf(conn, c) :
    /\ clock >= conn.calls[c].expireAt
    /\ conn' = Pruned(Leave(conn, k, {c}, IF conn.jobs[k].retrying THEN "limited" ELSE "timeout", Pump), k)
    /\ UNCHANGED <<clock, offer, faults>>

(* The caller gives up retries: abortWaiterRetry if one is scheduled. *)
AbortRetry(c) ==
    LET given == [conn EXCEPT !.calls[c].retryAborted = TRUE]
    IN  /\ conn.calls[c].state = "waiting"
        /\ ~conn.calls[c].retryAborted
        /\ faults > 0
        /\ faults' = faults - 1
        /\ \E k \in JobOf(conn, c) :
             conn' = IF conn.jobs[k].retrying
                     THEN Pruned(Leave(given, k, {c}, "limited", Pump), k)
                     ELSE given
        /\ UNCHANGED <<clock, offer>>

(* The timer of dispatchWork fires after the cooldown. *)
Due(k) ==
    /\ conn.jobs[k].due
    /\ clock >= conn.retryAt["EVENT"]
    /\ conn' = Transmit(conn, k, Pump)
    /\ UNCHANGED <<clock, offer, faults>>

BulkTimer ==
    /\ conn.timer # None
    /\ clock >= conn.timer
    /\ conn' = Pump([conn EXCEPT !.timer = None])
    /\ UNCHANGED <<clock, offer, faults>>

--------------------------------------------------------------------------------
(* OK, true: every job of the event is settled, if one of them awaits an answer. *)
Awaiting(e) == {k \in Keys : k[1] = e /\ conn.jobs[k].awaiting}
Heard(e) == [conn EXCEPT !.wire[e] = @ - 1]

Accept(e) ==
    LET settle(m, k) == IF HasJob(m, k) THEN Settle(m, k, "accepted", Pump) ELSE m
        success == Recovered(Heard(e), "EVENT")
    IN  /\ conn.wire[e] > 0
        /\ conn' = IF Awaiting(e) = {} THEN Heard(e)
                   ELSE settle(settle(success, <<e, "bulk">>), <<e, "interactive">>)
        /\ UNCHANGED <<clock, offer, faults>>

(* OK, false (handleOkFailure): the jobs that await are settled, or retried. *)
Refuse(e) ==
    LET settle(m, k) == IF conn.jobs[k].awaiting THEN Settle(m, k, "refused", Pump) ELSE m
    IN  /\ conn.wire[e] > 0
        /\ conn' = settle(settle(Heard(e), <<e, "bulk">>), <<e, "interactive">>)
        /\ UNCHANGED <<clock, offer, faults>>
RateLimit(e) ==
    LET limit(m, k) == IF conn.jobs[k].awaiting THEN ApplyRateLimit(m, k) ELSE m
    IN  /\ conn.wire[e] > 0
        /\ faults > 0
        /\ faults' = faults - 1
        /\ \E advice \in Advice :
             conn' = IF Awaiting(e) = {} THEN Heard(e)
                     ELSE limit(limit(CooledDown(Heard(e), "EVENT", advice), <<e, "bulk">>),
                                <<e, "interactive">>)
        /\ UNCHANGED <<clock, offer>>

--------------------------------------------------------------------------------
(* Subscriptions and counts. *)
TypeOf(a) == conn.asks[a].type
AskIs(a, states) == conn.asks[a].state \in states
AskTo(m, a, state, told) == [m EXCEPT !.asks[a].state = state, !.asks[a].told = @ + told]

(* The REQ or COUNT goes out; a socket that is closing ends it. *)
Asked(m, a) == IF m.socket = "open" THEN AskTo(m, a, "sent", 0) ELSE AskTo(m, a, "ended", 1)

(* subscribe and countWithHll *)
Ask(a) ==
    /\ AskIs(a, {"idle"})
    /\ conn.socket # "closed"
    /\ conn' = IF clock < conn.retryAt[TypeOf(a)] THEN AskTo(conn, a, "due", 0) ELSE Asked(conn, a)
    /\ UNCHANGED <<clock, offer, faults>>

AskDue(a) ==
    /\ AskIs(a, {"due"})
    /\ clock >= conn.retryAt[TypeOf(a)]
    /\ conn' = Asked(conn, a)
    /\ UNCHANGED <<clock, offer, faults>>

(* close() of a subscription, or the abort of a count. *)
CloseAsk(a) ==
    /\ AskIs(a, {"due", "sent"})
    /\ conn' = AskTo(conn, a, "ended", 1)
    /\ UNCHANGED <<clock, offer, faults>>

(* EOSE, or the COUNT that answers. *)
Answer(a) ==
    /\ AskIs(a, {"sent"})
    /\ conn' = LET rest == Recovered(conn, TypeOf(a))
               IN  IF TypeOf(a) = "COUNT" THEN AskTo(rest, a, "ended", 1) ELSE rest
    /\ UNCHANGED <<clock, offer, faults>>

(* CLOSED, with a rate limit. *)
CloseFromRelay(a) ==
    /\ AskIs(a, {"sent"})
    /\ faults > 0
    /\ faults' = faults - 1
    /\ \E advice \in Advice : conn' = AskTo(CooledDown(conn, TypeOf(a), advice), a, "ended", 1)
    /\ UNCHANGED <<clock, offer>>

--------------------------------------------------------------------------------
(* setRateLimitCapMs: cooldowns longer than the cap end with it. *)
Cap(cap) ==
    LET limited == [conn EXCEPT !.retryAt = [t \in Types |-> Min({@[t], clock + cap})]]
    IN  /\ faults > 0
        /\ faults' = faults - 1
        /\ limited # conn
        /\ conn' = Pump(limited)
        /\ UNCHANGED <<clock, offer>>

(* The socket no longer takes messages; its close event has yet to come. *)
SocketCloses ==
    /\ conn.socket = "open"
    /\ faults > 0
    /\ faults' = faults - 1
    /\ conn' = [conn EXCEPT !.socket = "closing"]
    /\ UNCHANGED <<clock, offer>>

(* handleClose: all that is under way ends, and the scheduler starts over. *)
Closed(m) ==
    LET told == Told(m, UNION {m.jobs[k].waiters : k \in Keys}, "failed")
        ended(a) == IF m.asks[a].state \in {"due", "sent"}
                    THEN [m.asks[a] EXCEPT !.state = "ended", !.told = @ + 1]
                    ELSE m.asks[a]
        fresh == Fresh("closed")
    IN  [told EXCEPT
            !.socket = "closed", !.jobs = fresh.jobs, !.queue = fresh.queue,
            !.active = None, !.timer = None, !.nextAt = 0, !.lastBulk = None,
            !.asks = [a \in offer.asks |-> ended(a)], !.wire = [e \in Events |-> 0]]

HandleClose ==
    /\ conn.socket = "closing"
    /\ conn' = Closed(conn)
    /\ UNCHANGED <<clock, offer, faults>>

(* connect on the same object, after its socket has closed. *)
Reconnect ==
    /\ conn.socket = "closed"
    /\ conn' = [conn EXCEPT !.socket = "open"]
    /\ UNCHANGED <<clock, offer, faults>>

Tick ==
    /\ clock < MaxClock
    /\ clock' = clock + 1
    /\ UNCHANGED <<offer, conn, faults>>

--------------------------------------------------------------------------------
Init ==
    /\ clock = 0
    /\ offer \in Offers
    /\ conn = [socket |-> "open", jobs |-> [k \in Keys |-> NoJob], queue |-> <<>>, active |-> None,
               nextAt |-> 0, timer |-> None, lastBulk |-> None,
               retryAt |-> [t \in Types |-> 0], backoff |-> [t \in Types |-> Pacing],
               calls |-> [c \in Callers |-> [state |-> "idle", failures |-> 0, expireAt |-> 0,
                                           retryAborted |-> FALSE]],
               asks |-> [a \in offer.asks |-> [type |-> IF a = "count" THEN "COUNT" ELSE "REQ",
                                         state |-> "idle", told |-> 0]],
               wire |-> [e \in Events |-> 0]]
    /\ faults = offer.faults

Next ==
    \/ \E c \in Callers : Publish(c) \/ Abort(c) \/ Expire(c) \/ AbortRetry(c)
    \/ \E k \in Keys : Due(k)
    \/ BulkTimer
    \/ \E e \in Events : Accept(e) \/ Refuse(e) \/ RateLimit(e)
    \/ \E a \in offer.asks : Ask(a) \/ AskDue(a) \/ CloseAsk(a) \/ Answer(a) \/ CloseFromRelay(a)
    \/ Cap(1)
    \/ SocketCloses \/ HandleClose \/ Reconnect
    \/ Tick

Spec == Init /\ [][Next]_vars

--------------------------------------------------------------------------------
Waiting == {c \in Callers : conn.calls[c].state = "waiting"}

(* The shape of the state. *)
TypeOK ==
    /\ TimesAssumption /\ OffersAssumption /\ AdviceAssumption
    /\ clock \in 0..MaxClock
    /\ offer \in Offers
    /\ faults \in 0..offer.faults
    /\ conn.socket \in {"open", "closing", "closed"}
    /\ \A k \in Keys : conn.jobs[k].state \in {"none", "queued", "active"}
    /\ conn.active \in Keys \cup {None}
    /\ \A k \in Keys : Cardinality({i \in 1..Len(conn.queue) : conn.queue[i] = k})
                         = IF conn.jobs[k].state = "queued" THEN 1 ELSE 0
    /\ \A c \in Callers : conn.calls[c].state \in
          {"idle", "waiting", "accepted", "refused", "limited", "timeout", "aborted", "failed"}
    /\ \A a \in offer.asks : conn.asks[a].told \in Nat

(* A call that waits is a waiter of exactly one job, and every job has somebody  *)
(* who waits for it: abandoned work is not sent, and no caller is left behind   *)
(* when jobs are shared, settled, retried or torn down.                        *)
WaitersAndJobsAgree ==
    /\ \A c \in Callers : Cardinality(JobOf(conn, c)) = IF c \in Waiting THEN 1 ELSE 0
    /\ \A k \in Keys : HasJob(conn, k) <=> conn.jobs[k].waiters # {}

(* While bulk jobs are queued, one is active or a timer will start the next, and *)
(* the active one is under way: aborts, rate limits, shared settlements and     *)
(* failed sends never stall the scheduler.                                     *)
QueueNeverStalls ==
    /\ conn.queue # <<>> => conn.active # None \/ conn.timer # None
    /\ conn.active # None =>
          /\ HasJob(conn, conn.active)
          /\ conn.jobs[conn.active].awaiting \/ conn.jobs[conn.active].due

(* An interactive call never waits behind a bulk job that has not started.      *)
InteractiveNotQueued ==
    \A c \in Waiting : ~terms[c].bulk => \A k \in JobOf(conn, c) : conn.jobs[k].state = "active"

(* Nobody is left waiting for a retry that comes after the deadline. *)
RetriesInTime ==
    \A k \in Keys : conn.jobs[k].retrying =>
        \A c \in conn.jobs[k].waiters :
            terms[c].deadline # NoLimit => conn.jobs[k].retryAt < terms[c].deadline

(* A subscription or count is told once how it ended. *)
ToldOnce == \A a \in offer.asks : conn.asks[a].told = IF AskIs(a, {"ended"}) THEN 1 ELSE 0

(* Two bulk jobs start a pacing apart, whatever ended the first, and nothing is  *)
(* sent before the cooldown its type was put on.                              *)
PacedAndCoolStep ==
    /\ conn'.lastBulk # conn.lastBulk /\ {conn.lastBulk, conn'.lastBulk} \subseteq Nat =>
           conn'.lastBulk >= conn.lastBulk + Pacing
    /\ \A e \in Events : conn'.wire[e] > conn.wire[e] => clock >= conn.retryAt["EVENT"]

(* Once the relay has accepted an event, no call for it is still waiting. *)
AcceptSettlesAllStep ==
    (\E c \in Callers : conn'.calls[c].state = "accepted" /\ conn.calls[c].state = "waiting") =>
      \A c, d \in Callers :
          /\ conn'.calls[c].state = "accepted" /\ conn.calls[c].state = "waiting"
          /\ terms[d].event = terms[c].event
          => conn'.calls[d].state # "waiting"
================================================================================
