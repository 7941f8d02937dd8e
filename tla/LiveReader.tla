------------------------------- MODULE LiveReader -------------------------------
(***************************************************************************)
(* relay/services/relay-pool.js, getLiveEventsGenerator: one live stream    *)
(* over several relays.  Each relay is admitted, connected and subscribed   *)
(* to by attempts; a lost one is tried again with a read of the gap, whose  *)
(* events come before the live ones that arrived meanwhile.                 *)
(*                                                                         *)
(* The reader is one record that pure operators change; the relays, the     *)
(* requests and the messages in flight are beside it.  Backoff delays are   *)
(* left out: a wait may end at any moment.                                  *)
(***************************************************************************)
EXTENDS Integers, Sequences, SequencesExt, FiniteSets

CONSTANTS
    Plans,     \* a behaviour: its relays, events, faults, stops, progress
               \* markers, a span offline; its end of time
    None,
    Overlap,   \* LIVE_OVERLAP_SECONDS
    Capacity   \* maxBufferedLiveEvents

Stops == {"abort", "drain", "until"}
ASSUME PlansAssumption ==
    \A p \in Plans : /\ {p.events, p.faults, p.markers, p.clock} \subseteq Nat
                     /\ p.stops \subseteq Stops /\ {p.offline, p.slow} \subseteq BOOLEAN
ASSUME BoundsAssumption == Overlap \in Nat /\ Capacity \in Nat \ {0}

VARIABLES
    plan, clock, online,
    store,   \* published events: when, and on which relays
    relay,   \* per relay: requests on their way, the attempt it serves, messages in flight
    reader,  \* the stream: its relays' attempts and its queue
    owed     \* ghost: per relay, the events published since it first served the stream,
             \* less those stored between the clock reading of an attempt and its REQ

vars == <<plan, clock, online, store, relay, reader, owed>>

--------------------------------------------------------------------------------
Urls == plan.urls
Until == IF "until" \in plan.stops THEN plan.clock ELSE plan.clock + 1
LastOf(u) == Len(reader.at[u].attempts)
Before(x, y) == IF x < y THEN y ELSE x

FreshAttempt(gapSince) ==
    [stage |-> "admission", gapSince |-> gapSince, now |-> None, eose |-> FALSE, since |-> None,
     closed |-> FALSE, stop |-> FALSE, recovered |-> gapSince = None, gap |-> "none", buffer |-> <<>>,
     live |-> FALSE, history |-> FALSE, claimed |-> -1]

FreshRelay ==
    [attempts |-> <<FreshAttempt(None)>>, holder |-> 0, pendingGap |-> None, lastSeen |-> None,
     openedAt |-> None, retry |-> FALSE, stopped |-> FALSE, retained |-> TRUE, outcome |-> "pending"]

--------------------------------------------------------------------------------
(* Operators on the reader c.                                                   *)
Attempt(c, u, n) == c.at[u].attempts[n]
Newest(c, u) == Len(c.at[u].attempts)
Current(c, u, n) == n = Newest(c, u) /\ ~Attempt(c, u, n).closed

(* The lease in the map goes back, whichever attempt put it there. *)
ReleaseLive(c, u) ==
    IF c.at[u].holder = 0 THEN c
    ELSE [c EXCEPT !.at[u].attempts[c.at[u].holder].live = FALSE, !.at[u].holder = 0]

CloseAttempt(c, u, n) ==
    IF Attempt(c, u, n).closed THEN c
    ELSE ReleaseLive([c EXCEPT !.at[u].attempts[n].closed = TRUE, !.at[u].attempts[n].stop = TRUE], u)

Settled(c, status) ==
    [c EXCEPT !.ready = TRUE, !.grace = FALSE,
              !.at = [u \in Urls |-> IF c.at[u].outcome = "pending" THEN [c.at[u] EXCEPT !.outcome = status] ELSE c.at[u]]]

(* teardown: subscriptions, retries, leases and gap reads end; a drain keeps what   *)
(* was accepted.                                                                *)
Teardown(c, drain) ==
    IF c.done /\ (drain \/ ~c.draining) THEN c
    ELSE LET settled == IF c.ready THEN c ELSE Settled(c, "closed")
         IN  [settled EXCEPT
                 !.done = TRUE, !.draining = drain,
                 !.queue = IF drain THEN @ ELSE <<>>,
                 !.at = [u \in Urls |->
                     [settled.at[u] EXCEPT
                         !.retry = FALSE, !.holder = 0,
                         !.attempts = [n \in DOMAIN @ |->
                             [@[n] EXCEPT !.stop = TRUE, !.live = @ /\ n # settled.at[u].holder]]]]]

(* The consumer takes an item; controls it only reads are not kept. *)
Taken(c, item) == [c EXCEPT !.delivered = IF item.kind \in {"event", "progress"} THEN Append(@, item) ELSE @]

(* enqueue, and the overflow that fails the stream.  After the end it is silent.   *)
(* A consumer that is not slow is waiting for the item.                         *)
Enqueue(c, item) ==
    IF ~plan.slow THEN Taken(c, item)
    ELSE IF Len(c.queue) < Capacity THEN [c EXCEPT !.queue = Append(@, item)]
    ELSE IF c.done THEN c
    ELSE Teardown([c EXCEPT !.failed = TRUE], FALSE)

Control(kind, u) == [kind |-> kind, url |-> u, event |-> 0, attempt |-> 0, by |-> "none", covers |-> {}]
Item(u, n, e, by) == [kind |-> "event", url |-> u, event |-> e, attempt |-> n, by |-> by, covers |-> {}]

(* pushEvent: what a drain had accepted still counts. *)
PushEvent(c, item, accepted) ==
    IF (c.done /\ ~(c.draining /\ accepted)) \/ item.event \in c.seen THEN c
    ELSE Enqueue([c EXCEPT !.seen = @ \cup {item.event}], item)

FinishReady(c, status) == IF c.ready THEN c ELSE Enqueue(Settled(c, status), Control("eose", None))
FinishIfSettled(c) == IF \A u \in Urls : c.at[u].outcome # "pending" THEN FinishReady(c, "cutoff") ELSE c

Outcome(c, u, status) ==
    IF c.ready \/ c.at[u].outcome # "pending" THEN c ELSE FinishIfSettled([c EXCEPT !.at[u].outcome = status])

Report(c, u, status) == IF c.done THEN c ELSE Outcome(Enqueue(c, Control("error", u)), u, status)

StopRelay(c, u) ==
    LET closed == CloseAttempt([c EXCEPT !.at[u].stopped = TRUE, !.at[u].retry = FALSE], u, Newest(c, u))
        released == [closed EXCEPT !.at[u].retained = FALSE]
    IN  IF \A v \in Urls : released.at[v].stopped THEN Teardown(FinishReady(released, "cutoff"), TRUE) ELSE released

ScheduleReconnect(c, u, final) ==
    IF c.done \/ c.at[u].stopped \/ c.at[u].retry THEN c
    ELSE IF final THEN StopRelay(c, u) ELSE [c EXCEPT !.at[u].retry = TRUE]

(* The catch of an attempt that was not admitted or not connected. *)
AttemptFails(c, u, n) ==
    LET released == ReleaseLive([c EXCEPT !.at[u].attempts[n].history = FALSE, !.at[u].attempts[n].stage = "over"], u)
    IN  IF c.done \/ Attempt(c, u, n).closed THEN released
        ELSE ScheduleReconnect(Report(CloseAttempt(released, u, n), u, "error"), u, FALSE)

(* Both leases of an attempt that is over before it subscribed. *)
Abandon(c, u, n) ==
    [c EXCEPT !.at[u].attempts[n].live = FALSE, !.at[u].attempts[n].history = FALSE, !.at[u].attempts[n].stage = "over"]

(* The end of a gap read: the history slot goes back, then the live events that    *)
(* waited are let go, those of a closed attempt too.                            *)
Flush(c, u, n) ==
    LET over == [c EXCEPT !.at[u].attempts[n].gap = "over", !.at[u].attempts[n].history = FALSE,
                          !.at[u].attempts[n].buffer = <<>>]
    IN  FoldLeft(LAMBDA d, e : PushEvent(d, Item(u, n, e, "live"), TRUE), over, Attempt(c, u, n).buffer)

(* observeEvent *)
Observe(c, u, e) ==
    [c EXCEPT !.at[u].lastSeen = IF @ = None THEN store[e].at ELSE Before(@, store[e].at)]

(* Mutant of Resume: a gap that was not recovered is forgotten. *)
ResumeFromLast(c, u) == IF c.at[u].lastSeen # None THEN c.at[u].lastSeen ELSE c.at[u].openedAt

(* The point a reconnection reads from. *)
Resume(c, u) ==
    IF c.at[u].pendingGap # None THEN c.at[u].pendingGap
    ELSE IF c.at[u].lastSeen # None THEN c.at[u].lastSeen ELSE c.at[u].openedAt

Subscribe(c, u) ==
    LET gap == Resume(c, u)
    IN  IF c.done \/ c.at[u].stopped \/ clock >= Until THEN c
        ELSE [c EXCEPT !.at[u].attempts = Append(@, FreshAttempt(gap)), !.at[u].pendingGap = gap]

--------------------------------------------------------------------------------
(* Actions.  The end of an admission or of a connect finds its attempt wanted or not. *)
Wanted(u, n) == ~reader.done /\ ~Attempt(reader, u, n).closed
In(u, n, stage) == Attempt(reader, u, n).stage = stage
Strikes == plan.faults > 0 /\ plan' = [plan EXCEPT !.faults = @ - 1]
Idle == [reqs |-> <<>>, served |-> FALSE, serving |-> 0, flight |-> <<>>]

Admitted(u, n) ==
    /\ In(u, n, "admission")
    /\ reader' = IF Wanted(u, n)
                 THEN [reader EXCEPT !.at[u].holder = n,
                           !.at[u].attempts[n] = [@ EXCEPT !.stage = "connecting", !.live = TRUE, !.history = Attempt(reader, u, n).gapSince # None]]
                 ELSE [reader EXCEPT !.at[u].attempts[n].stage = "over"]
    /\ UNCHANGED <<plan, clock, online, store, relay, owed>>

(* The queue of the admission is full or too slow, or the relay cannot be reached. *)
AttemptFailed(u, n) ==
    /\ In(u, n, "admission") \/ In(u, n, "connecting")
    /\ Strikes
    /\ reader' = AttemptFails(reader, u, n)
    /\ UNCHANGED <<clock, online, store, relay, owed>>

Connected(u, n) ==
    LET recovering == Attempt(reader, u, n).gapSince # None
    IN  /\ In(u, n, "connecting")
        /\ online
        /\ IF ~Wanted(u, n) \/ clock >= Until
           THEN reader' = Abandon(reader, u, n) /\ UNCHANGED relay
           ELSE /\ reader' = [reader EXCEPT
                       !.at[u].openedAt = IF @ = None THEN clock ELSE @,
                       !.at[u].attempts[n] = [@ EXCEPT !.stage = "subscribed", !.now = clock,
                                                       !.gap = IF recovering THEN "running" ELSE "none"]]
                /\ relay' = [relay EXCEPT ![u].reqs = @ \o <<<<"live", n>>>> \o (IF recovering THEN <<<<"gap", n>>>> ELSE <<>>)]
        /\ UNCHANGED <<plan, clock, online, store, owed>>

(* The relay takes a request: limit 0 answers EOSE alone, a gap read the stored    *)
(* events of its range, the newest first.                                       *)
Message(kind, n, e) == [kind |-> kind, attempt |-> n, event |-> e]
InGap(u, n) == {e \in DOMAIN store : u \in store[e].urls
                   /\ store[e].at >= Attempt(reader, u, n).gapSince - Overlap /\ store[e].at <= Attempt(reader, u, n).now}
Serve(u) ==
    /\ relay[u].reqs # <<>>
    /\ LET kind == Head(relay[u].reqs)[1]
           n == Head(relay[u].reqs)[2]
           answer == IF kind = "live" THEN <<Message("eose", n, 0)>>
                     ELSE LET newest == SetToSortSeq(InGap(u, n), LAMBDA d, e : d > e)
                          IN  [i \in DOMAIN newest |-> Message("gap", n, newest[i])] \o <<Message("gapend", n, 0)>>
       IN  /\ relay' = [relay EXCEPT ![u] = [@ EXCEPT !.reqs = Tail(@), !.flight = @ \o answer,
                                               !.served = TRUE, !.serving = IF kind = "live" THEN n ELSE @]]
           /\ owed' = IF kind # "live" THEN owed
                      ELSE [owed EXCEPT ![u] = {e \in @ : store[e].at <= Attempt(reader, u, n).now}]
    /\ UNCHANGED <<plan, clock, online, store, reader>>

(* An event is published to some of the relays; those that serve the stream push it. *)
Publish(us) ==
    LET e == Cardinality(DOMAIN store) + 1
    IN  /\ e <= plan.events /\ ~reader.ended
        /\ store' = [d \in DOMAIN store \cup {e} |-> IF d = e THEN [at |-> clock, urls |-> us] ELSE store[d]]
        /\ relay' = [u \in Urls |-> IF u \in us /\ relay[u].serving # 0
                                    THEN [relay[u] EXCEPT !.flight = Append(@, Message("event", relay[u].serving, e))]
                                    ELSE relay[u]]
        /\ owed' = [u \in Urls |-> IF u \in us /\ relay[u].served THEN owed[u] \cup {e} ELSE owed[u]]
        /\ UNCHANGED <<plan, clock, online, reader>>

(* The handlers of the live subscription and of the gap read. *)
OnEose(c, u, n) ==
    IF c.done \/ ~Current(c, u, n) \/ Attempt(c, u, n).eose THEN c
    ELSE LET open == [c EXCEPT !.at[u].attempts[n].eose = TRUE, !.at[u].attempts[n].since = clock]
         IN  IF c.ready \/ c.at[u].outcome # "pending" THEN open
             ELSE FinishIfSettled([open EXCEPT !.at[u].outcome = "eose", !.grace = TRUE])

OnEvent(c, u, n, e) ==
    IF c.done \/ Attempt(c, u, n).closed \/ ~Attempt(c, u, n).eose THEN c
    ELSE IF Attempt(c, u, n).gap = "running"
    THEN IF Len(Attempt(c, u, n).buffer) >= Capacity THEN Teardown([Observe(c, u, e) EXCEPT !.failed = TRUE], FALSE)
         ELSE [Observe(c, u, e) EXCEPT !.at[u].attempts[n].buffer = Append(@, e)]
    ELSE PushEvent(Observe(c, u, e), Item(u, n, e, "live"), FALSE)

Gapping(c, u, n) == Attempt(c, u, n).gap = "running" /\ ~Attempt(c, u, n).stop
OnGapEvent(c, u, n, e) == IF Gapping(c, u, n) THEN PushEvent(Observe(c, u, e), Item(u, n, e, "gap"), TRUE) ELSE c
OnGapEnd(c, u, n) ==
    IF ~Gapping(c, u, n) THEN c
    ELSE Flush([c EXCEPT !.at[u].attempts[n].recovered = TRUE,
                         !.at[u].pendingGap = IF Current(c, u, n) THEN None ELSE @], u, n)

Deliver(u) ==
    /\ relay[u].flight # <<>>
    /\ LET m == Head(relay[u].flight)
       IN  reader' = CASE m.kind = "eose" -> OnEose(reader, u, m.attempt)
                       [] m.kind = "event" -> OnEvent(reader, u, m.attempt, m.event)
                       [] m.kind = "gap" -> OnGapEvent(reader, u, m.attempt, m.event)
                       [] OTHER -> OnGapEnd(reader, u, m.attempt)
    /\ relay' = [relay EXCEPT ![u].flight = Tail(@)]
    /\ UNCHANGED <<plan, clock, online, store, owed>>

(* The live subscription ends: with its connection, or by a CLOSED of the relay.    *)
LiveEnds(u, status, final) ==
    LET n == LastOf(u)
        closed == CloseAttempt(reader, u, n)
    IN  /\ In(u, n, "subscribed") /\ ~Attempt(reader, u, n).closed
        /\ reader' = IF reader.done THEN closed ELSE ScheduleReconnect(Report(closed, u, status), u, final)

Lost(u) ==
    /\ LiveEnds(u, "closed", FALSE)
    /\ Strikes
    /\ relay' = [relay EXCEPT ![u] = [Idle EXCEPT !.served = relay[u].served]]
    /\ UNCHANGED <<clock, online, store, owed>>

RelayCloses(u, final) ==
    /\ relay[u].serving = LastOf(u)
    /\ LiveEnds(u, "error", final)
    /\ Strikes
    /\ relay' = [relay EXCEPT ![u].serving = 0]
    /\ UNCHANGED <<clock, online, store, owed>>

(* The gap read is refused or times out: the attempt goes with it.                 *)
GapFails(u, n, final) ==
    LET failed == Enqueue(reader, Control("error", u))
        next == IF failed.done \/ ~Current(failed, u, n) THEN failed
                ELSE ScheduleReconnect(CloseAttempt(failed, u, n), u, final)
    IN  /\ Gapping(reader, u, n) /\ ~reader.done
        /\ Strikes
        /\ reader' = Flush(next, u, n)
        /\ UNCHANGED <<clock, online, store, relay, owed>>

GapStops(u, n) ==
    /\ Attempt(reader, u, n).gap = "running"
    /\ Attempt(reader, u, n).stop
    /\ reader' = Flush(reader, u, n)
    /\ UNCHANGED <<plan, clock, online, store, relay, owed>>

(* The wait is over and the network was confirmed. *)
Reconnect(u) ==
    /\ reader.at[u].retry
    /\ online
    /\ reader' = Subscribe([reader EXCEPT !.at[u].retry = FALSE], u)
    /\ UNCHANGED <<plan, clock, online, store, relay, owed>>

(* Timers. *)
ReadyTimeout(u) ==
    /\ reader.at[u].outcome = "pending" /\ ~In(u, 1, "admission")
    /\ Strikes
    /\ reader' = FinishIfSettled(Enqueue([reader EXCEPT !.at[u].outcome = "timeout"], Control("error", u)))
    /\ UNCHANGED <<clock, online, store, relay, owed>>

GraceEnds ==
    /\ reader.grace
    /\ reader' = FinishReady(reader, "cutoff")
    /\ UNCHANGED <<plan, clock, online, store, relay, owed>>

(* scheduleProgress *)
InFlight(u, n) == {m.event : m \in {k \in Range(relay[u].flight) : k.kind = "event" /\ k.attempt = n}}
ClaimMade(u, n) ==
    LET a == Attempt(reader, u, n)
    IN  Enqueue([reader EXCEPT !.at[u].attempts[n].claimed = clock],
            [Control("progress", u) EXCEPT !.covers =
                {e \in DOMAIN store : u \in store[e].urls /\ store[e].at > a.since /\ store[e].at <= clock} \ InFlight(u, n)])
Claims(u, n) == Attempt(reader, u, n).eose /\ Attempt(reader, u, n).recovered

Progress(u) ==
    LET n == LastOf(u)
    IN  /\ ~reader.done /\ ~Attempt(reader, u, n).closed
        /\ Claims(u, n)
        /\ clock > Attempt(reader, u, n).claimed
        /\ plan.markers > 0
        /\ plan' = [plan EXCEPT !.markers = @ - 1]
        /\ reader' = ClaimMade(u, n)
        /\ UNCHANGED <<clock, online, store, relay, owed>>

(* The caller: abort, stopAndDrain, the until of the filter. *)
Stop(how) ==
    /\ how \in plan.stops /\ how # "until"
    /\ ~reader.done
    /\ reader' = Teardown(reader, how = "drain")
    /\ UNCHANGED <<plan, clock, online, store, relay, owed>>

UntilPasses ==
    /\ "until" \in plan.stops /\ clock >= Until
    /\ ~reader.done
    /\ reader' = Teardown(FinishReady(reader, "closed"), TRUE)
    /\ UNCHANGED <<plan, clock, online, store, relay, owed>>

Consume ==
    /\ reader.queue # <<>>
    /\ reader' = Taken([reader EXCEPT !.queue = Tail(@)], Head(reader.queue))
    /\ UNCHANGED <<plan, clock, online, store, relay, owed>>

GapsRun == \E u \in Urls : \E n \in DOMAIN reader.at[u].attempts : Attempt(reader, u, n).gap = "running"
End ==
    /\ reader.done /\ ~reader.ended
    /\ reader.queue = <<>>
    /\ reader.draining => ~GapsRun
    /\ LET released == [reader EXCEPT !.ended = TRUE, !.at = [u \in Urls |-> [@[u] EXCEPT !.retained = FALSE]]]
       IN  reader' = Teardown(released, FALSE)
    /\ UNCHANGED <<plan, clock, online, store, relay, owed>>

Tick ==
    /\ clock < plan.clock /\ ~reader.ended
    /\ clock' = clock + 1
    /\ UNCHANGED <<plan, online, store, relay, reader, owed>>

GoOffline ==
    /\ plan.offline /\ online
    /\ online' = FALSE
    /\ plan' = [plan EXCEPT !.offline = FALSE]
    /\ UNCHANGED <<clock, store, relay, reader, owed>>

GoOnline ==
    /\ ~online
    /\ online' = TRUE
    /\ UNCHANGED <<plan, clock, store, relay, reader, owed>>

--------------------------------------------------------------------------------
Init ==
    /\ plan \in Plans
    /\ clock = 0
    /\ online = TRUE
    /\ store = [e \in {} |-> 0]
    /\ relay = [u \in Urls |-> Idle]
    /\ reader = [at |-> [u \in Urls |-> FreshRelay], done |-> FALSE, draining |-> FALSE, failed |-> FALSE, ended |-> FALSE,
                 ready |-> FALSE, grace |-> FALSE, queue |-> <<>>, seen |-> {}, delivered |-> <<>>]
    /\ owed = [u \in Urls |-> {}]

AttemptStep(u, n) == Admitted(u, n) \/ Connected(u, n) \/ GapStops(u, n)
Fault(u, n) == AttemptFailed(u, n) \/ \E final \in BOOLEAN : GapFails(u, n, final)
RelayStep(u) == Serve(u) \/ Deliver(u) \/ Reconnect(u)

Next ==
    \/ \E u \in Urls :
         \/ \E n \in 1..LastOf(u) : AttemptStep(u, n) \/ Fault(u, n)
         \/ RelayStep(u) \/ Lost(u) \/ ReadyTimeout(u) \/ Progress(u)
         \/ \E final \in BOOLEAN : RelayCloses(u, final)
    \/ \E us \in SUBSET Urls \ {{}} : Publish(us)
    \/ \E how \in Stops : Stop(how)
    \/ GraceEnds \/ UntilPasses \/ Consume \/ End \/ Tick \/ GoOffline \/ GoOnline

(* Promises settle, sockets deliver, backoff timers fire and a network comes back. *)
Fairness ==
    /\ WF_vars(GoOnline) /\ WF_vars(UntilPasses) /\ WF_vars(Consume) /\ WF_vars(End)
    /\ WF_vars(\E u \in Urls : RelayStep(u))
    /\ WF_vars(\E u \in Urls : \E n \in 1..LastOf(u) : AttemptStep(u, n))

Spec == Init /\ [][Next]_vars /\ Fairness

--------------------------------------------------------------------------------
Output == reader.delivered \o reader.queue
EventsIn(items) == {items[i].event : i \in {j \in DOMAIN items : items[j].kind = "event"}}
Buffered(u) == UNION {Range(Attempt(reader, u, n).buffer) : n \in 1..LastOf(u)}
Healthy(u) == LET a == Attempt(reader, u, LastOf(u)) IN ~a.closed /\ a.eose /\ a.recovered

(* The shape of the state. *)
TypeOK ==
    /\ clock \in 0..plan.clock /\ online \in BOOLEAN
    /\ \A u \in Urls : /\ reader.at[u].holder \in 0..LastOf(u)
                        /\ reader.at[u].outcome \in {"pending", "eose", "error", "closed", "timeout", "cutoff"}
                        /\ relay[u].serving \in 0..LastOf(u)
    /\ Len(reader.queue) <= Capacity

(* An event published since a relay first served the stream is accepted, or on    *)
(* its way to the attempt that is open, or the next gap read will ask for it:     *)
(* however connections were lost, gap reads failed and cursors moved.  (What a    *)
(* relay stored between an attempt's reading of the clock and its REQ is not       *)
(* owed: the gap read ends before it and the live one begins after.)             *)
NothingMissed ==
    ~reader.done => \A u \in Urls : ~reader.at[u].stopped =>
        \A e \in owed[u] \ (reader.seen \cup Buffered(u) \cup InFlight(u, LastOf(u))) :
            ~Healthy(u) /\ store[e].at >= Resume(reader, u) - Overlap

(* No event comes twice; of one attempt, the gap comes before what was live; and   *)
(* a progress marker follows every event it covers that had reached the reader.    *)
InOrder ==
    /\ \A i, j \in DOMAIN Output : i < j =>
          /\ Output[i].kind = "event" => Output[j].event # Output[i].event
          /\ ~(Output[i].by = "live" /\ Output[j].by = "gap" /\ Output[i].url = Output[j].url /\ Output[i].attempt = Output[j].attempt)
    /\ \A i \in DOMAIN Output : Output[i].covers \subseteq EventsIn(SubSeq(Output, 1, i))

(* Admission slots come back: a closed attempt holds none, but for the history slot *)
(* of a gap read that is ending, an open one has its own in the map, and an ended   *)
(* stream holds no relay.                                                       *)
LeasesReturn ==
    /\ \A u \in Urls : \A n \in 1..LastOf(u) : LET a == Attempt(reader, u, n) IN
          /\ a.live => reader.at[u].holder = n /\ ~a.closed
          /\ a.history => a.gap = "running" \/ a.stage = "connecting"
    /\ reader.ended => \A u \in Urls : ~reader.at[u].retained /\ ~reader.at[u].retry

(* What was accepted before stopAndDrain() is delivered, or the stream fails.      *)
DrainKeepsAccepted ==
    reader.ended /\ ~reader.failed /\ "abort" \notin plan.stops => reader.seen \subseteq EventsIn(reader.delivered)

(* Every relay of a stream that goes on is back with its gap recovered, however     *)
(* often it was lost, unless it refused for good.                               *)
Back == reader.ended \/ \A u \in Urls : reader.at[u].stopped \/ Healthy(u)
================================================================================
