------------------------------ MODULE WatchSession ------------------------------
(***************************************************************************)
(* private-message/index.js, createPrivateMessageSession: the watches of    *)
(* several channels share one live subscription per relay.  A change of the *)
(* channels replaces it; when it fails, every channel must record the gap   *)
(* before it is opened again, and learns when it is live again.             *)
(*                                                                         *)
(* The live streams under it (LiveReader) are seen from outside: they open, *)
(* reconnect and fetch what they missed, or fail.  Delays are left out: a   *)
(* timer may fire at any moment.                                            *)
(***************************************************************************)
EXTENDS Integers, Sequences, FiniteSets

CONSTANTS
    Channels, Relays, None,
    Plans   \* a behaviour's bounds: events, failures, refusals to save, changes of
            \* the watches, connections dropped under a stream

PlansAssumption ==
    \A p \in Plans : {p.events, p.failures, p.refusals, p.changes, p.drops} \subseteq Nat

VARIABLES
    plan,      \* what is left of the behaviour's bounds
    now,       \* the clock; at most one event is published per instant
    seq,       \* requestSequence; a watch object and its revision go by their request
    requests,  \* watchRequests: the last request about a channel, and if it was to watch it
    calls,     \* calls of watch that have not come to their channel yet
    watches,   \* watchesByChannel
    at,        \* per relay: its subscriptions, subsByRelay, relayRecoveries, subscriptionReady
    gap,       \* external: the open gap a channel has been told of, per relay
    owed,      \* ghost: <<relay, event>> published since the channel was first live there,
               \* neither handed over nor inside a gap the channel was told is over
    attached,  \* ghost: channels that have been live on a relay since they watch it
    recorded,  \* ghost: channels that made the open gap of a relay durable
    forsaken   \* ghost: what replacing a subscription has lost

ghosts == <<owed, attached, recorded, forsaken>>
asks == <<seq, requests, calls>>
vars == <<plan, now, asks, watches, at, gap, ghosts>>

--------------------------------------------------------------------------------
NoWatch == [id |-> 0, rev |-> 0, relays |-> {}]
Desired(w, r) == {c \in Channels : r \in w[c].relays}

Subscription(w, r) ==
    [since |-> now, revs |-> [c \in Desired(w, r) |-> w[c].rev], state |-> "opening",
     announced |-> FALSE, closing |-> FALSE, buffer |-> <<>>, missed |-> {}]

SubscribedTo(s) == DOMAIN s.revs

(* doesSubscriptionMatch: the same channels, none of them changed. *)
Matches(w, r, s) == s.revs = [c \in Desired(w, r) |-> w[c].rev]

Current(x) == x.subs[x.current]
Gone == [since |-> 0, revs |-> <<>>, state |-> "closed", announced |-> TRUE, closing |-> FALSE, buffer |-> <<>>, missed |-> {}]

(* closeSubscription: at once, or after a grace. *)
CloseCurrent(x, graceful) ==
    IF x.current = 0 THEN x
    ELSE [x EXCEPT !.subs[x.current] = IF graceful THEN [@ EXCEPT !.closing = TRUE] ELSE Gone,
                   !.current = 0, !.readying = None]

(* rebuildSubscriptions at relay r.  A relay in recovery waits for its retry. *)
Rebuilt(w, r, x, graceful, retry) ==
    LET closed == CloseCurrent(x, graceful)
    IN  IF Desired(w, r) = {} THEN [closed EXCEPT !.recovery = None]
        ELSE IF x.current # 0 /\ Matches(w, r, Current(x)) THEN x
        ELSE IF x.recovery # None /\ ~retry THEN x
        ELSE [closed EXCEPT !.subs = Append(@, Subscription(w, r)), !.current = Len(x.subs) + 1]

--------------------------------------------------------------------------------
(* What has become of an event that relay r owes to channel e.to.               *)
Held(x, e) ==
    \E n \in DOMAIN x.subs :
        \/ e \in x.subs[n].missed \cup {x.subs[n].buffer[i] : i \in DOMAIN x.subs[n].buffer}
        \/ n = x.current /\ x.subs[n].state = "failed" /\ x.subs[n].since <= e.time
InGap(g, e) == g # None /\ g <= e.time
Safe(r, e) ==
    \/ InGap(gap[e.to][r], e)
    \/ Held(at[r], e)

(* A step that replaces or closes a subscription may lose what it still held. *)
Forsakes == forsaken' = forsaken \cup {x \in owed' : ~Safe(x[1], x[2])'}

--------------------------------------------------------------------------------
(* watch begins: a request about channel c, which takes its number now and is    *)
(* entered at once, or when the caller's own key has been asked for (named).     *)
Raised(c, request) ==
    IF requests[c].n < request THEN [requests EXCEPT ![c] = [n |-> request, watch |-> TRUE]] ELSE requests

WatchAsked(c, relays, changed, named) ==
    /\ plan.changes > 0
    /\ plan' = [plan EXCEPT !.changes = @ - 1]
    /\ seq' = seq + 1
    /\ requests' = IF named THEN Raised(c, seq + 1) ELSE requests
    /\ calls' = calls \cup {[request |-> seq + 1, channel |-> c, relays |-> relays, changed |-> changed, named |-> named]}
    /\ UNCHANGED <<now, watches, at, gap, ghosts>>

WatchNamed(call) ==
    /\ ~call.named
    /\ requests' = Raised(call.channel, call.request)
    /\ calls' = (calls \ {call}) \cup {[call EXCEPT !.named = TRUE]}
    /\ UNCHANGED <<plan, now, seq, watches, at, gap, ghosts>>

(* Another identity, or a signer that fails: the call throws. *)
WatchRefused(call) ==
    /\ plan.refusals > 0
    /\ plan' = [plan EXCEPT !.refusals = @ - 1]
    /\ calls' = calls \ {call}
    /\ UNCHANGED <<now, seq, requests, watches, at, gap, ghosts>>

(* Mutant of Superseded: a call that is overtaken goes on. *)
SupersededNever(call) == FALSE

Superseded(call) == requests[call.channel].n # call.request

(* The rest of watch, unless a later request has taken the channel: settings that *)
(* are equal keep the revision, and with the same relays only the callbacks       *)
(* change.                                                                      *)
Watch(call) ==
    LET c == call.channel
        current == watches[c]
        sameSettings == current # NoWatch /\ ~call.changed
        new == [id |-> call.request, rev |-> IF sameSettings THEN current.rev ELSE call.request, relays |-> call.relays]
        w == IF Superseded(call) \/ (sameSettings /\ current.relays = call.relays)
             THEN watches ELSE [watches EXCEPT ![c] = new]
        left == {r \in Relays : r \notin w[c].relays}
    IN  /\ call.named
        /\ calls' = calls \ {call}
        /\ watches' = w
        /\ at' = [r \in Relays |-> Rebuilt(w, r, at[r], TRUE, FALSE)]
        /\ attached' = [r \in Relays |-> IF r \in left THEN attached[r] \ {c} ELSE attached[r]]
        /\ owed' = {x \in owed : x[2].to # c \/ x[1] \notin left}
        /\ UNCHANGED <<plan, now, seq, requests, gap, recorded>>
        /\ Forsakes

(* unwatch, and the stop function of the watch that owns the channel.  The      *)
(* channel's owner records its own gap from here on.                            *)
Unwatch(c) ==
    LET w == [watches EXCEPT ![c] = NoWatch]
    IN  /\ plan.changes > 0 /\ (requests[c].watch \/ \E call \in calls : call.channel = c)
        /\ plan' = [plan EXCEPT !.changes = @ - 1]
        /\ seq' = seq + 1
        /\ requests' = [requests EXCEPT ![c] = [n |-> seq + 1, watch |-> FALSE]]
        /\ watches' = w
        /\ at' = [r \in Relays |-> Rebuilt(w, r, at[r], FALSE, FALSE)]
        /\ gap' = [gap EXCEPT ![c] = [r \in Relays |-> None]]
        /\ attached' = [r \in Relays |-> attached[r] \ {c}]
        /\ recorded' = [r \in Relays |-> recorded[r] \ {c}]
        /\ owed' = {x \in owed : x[2].to # c}
        /\ UNCHANGED <<now, calls>>
        /\ Forsakes

(* A replaced subscription is closed when its grace is over; what it has not    *)
(* handed over by then is dropped.                                              *)
GraceEnds(r, n) ==
    /\ at[r].subs[n].closing /\ at[r].subs[n].state # "closed"
    /\ at' = [at EXCEPT ![r].subs[n] = Gone]
    /\ UNCHANGED <<plan, now, asks, watches, gap, owed, attached, recorded>>
    /\ Forsakes

--------------------------------------------------------------------------------
(* The live streams.                                                            *)
Open(s) == s.state \in {"opening", "live", "down"}

GoesLive(r, n) ==
    /\ at[r].subs[n].state = "opening"
    /\ at' = [at EXCEPT ![r].subs[n].state = "live"]
    /\ attached' = [attached EXCEPT ![r] = @ \cup (SubscribedTo(at[r].subs[n]) \cap Desired(watches, r))]
    /\ UNCHANGED <<plan, now, asks, watches, gap, owed, recorded, forsaken>>

Drops(r, n) ==
    /\ plan.drops > 0 /\ at[r].subs[n].state = "live"
    /\ plan' = [plan EXCEPT !.drops = @ - 1]
    /\ at' = [at EXCEPT ![r].subs[n].state = "down"]
    /\ UNCHANGED <<now, asks, watches, gap, ghosts>>

Reconnects(r, n) ==
    LET s == at[r].subs[n]
        order == CHOOSE q \in [1..Cardinality(s.missed) -> s.missed] :
                     \A i, j \in DOMAIN q : i < j => q[i].time < q[j].time
    IN  /\ s.state = "down"
        /\ at' = [at EXCEPT ![r].subs[n] = [s EXCEPT !.state = "live", !.buffer = @ \o order, !.missed = {}]]
        /\ UNCHANGED <<plan, now, asks, watches, gap, ghosts>>

Fails(r, n) ==
    /\ plan.failures > 0 /\ Open(at[r].subs[n])
    /\ plan' = [plan EXCEPT !.failures = @ - 1]
    /\ at' = [at EXCEPT ![r].subs[n] = [@ EXCEPT !.state = "failed", !.buffer = <<>>, !.missed = {}]]
    /\ UNCHANGED <<now, asks, watches, gap, owed, attached, recorded>>
    /\ IF n = at[r].current THEN UNCHANGED forsaken ELSE Forsakes

Receives(s, e) ==
    IF e.to \notin SubscribedTo(s) THEN s
    ELSE IF s.state = "live" THEN [s EXCEPT !.buffer = Append(@, e)]
    ELSE IF s.state = "down" THEN [s EXCEPT !.missed = @ \cup {e}]
    ELSE s

(* An event reaches relay r. *)
Publish(r, c) ==
    LET e == [time |-> now + 1, to |-> c]
    IN  /\ plan.events > 0 /\ Desired(watches, r) # {}
        /\ plan' = [plan EXCEPT !.events = @ - 1]
        /\ now' = now + 1
        /\ at' = [at EXCEPT ![r].subs = [n \in DOMAIN @ |-> Receives(@[n], e)]]
        /\ owed' = IF c \in attached[r] THEN owed \cup {<<r, e>>} ELSE owed
        /\ UNCHANGED <<asks, watches, gap, attached, recorded>>
        /\ IF at[r].current # 0 /\ at[r].recovery = None /\ Current(at[r]).state = "opening"
           THEN Forsakes ELSE UNCHANGED forsaken

(* consumeEvents hands an event to the callbacks the channel has by then. *)
Dispatch(r, n) ==
    LET s == at[r].subs[n]
        e == Head(s.buffer)
    IN  /\ s.state \in {"live", "down"} /\ s.buffer # <<>>
        /\ at' = [at EXCEPT ![r].subs[n].buffer = Tail(@)]
        /\ owed' = {x \in owed : x[2] # e}
        /\ UNCHANGED <<plan, now, asks, watches, gap, attached, recorded, forsaken>>

--------------------------------------------------------------------------------
Earlier(g, since) == IF g # None /\ g < since THEN g ELSE since

(* onSubscriptionState "interrupted": the channel opens its gap and starts to save it. *)
ToldInterrupted(r, chans, since) ==
    gap' = [c \in Channels |-> IF c \in chans THEN [gap[c] EXCEPT ![r] = Earlier(@, since)] ELSE gap[c]]

(* notifyInterruption: the watches that have not acknowledged this recovery. *)
Unnotified(w, r, recovery) == {c \in Desired(w, r) : w[c].id \notin recovery.notified}
Asked(w, chans) == {[channel |-> c, id |-> w[c].id] : c \in chans}

Least(S) == CHOOSE x \in S : \A y \in S : x <= y

(* Mutant of RecoverySince: the gap starts where the failure is noticed. *)
RecoverySinceNow(x) == now

RecoverySince(x) ==
    Least({Current(x).since} \cup (IF x.recovery = None THEN {} ELSE {x.recovery.since}))

(* subscriptionEnded of the current subscription: told to every channel, and    *)
(* tried again unless the relay refuses for good or the failure is not one that *)
(* a new attempt can cure.                                                      *)
Ended(r, retryable, permanent) ==
    LET x == at[r]
        since == RecoverySince(x)
        again == ~permanent /\ (retryable \/ x.recovery # None)
        fresh == [since |-> since, notified |-> {}, refused |-> FALSE, phase |-> "telling",
                  asked |-> Asked(watches, Desired(watches, r))]
    IN  /\ at' = [at EXCEPT ![r] = [x EXCEPT !.subs[x.current] = Gone, !.current = 0, !.readying = None,
                                             !.recovery = IF again THEN fresh ELSE None]]
        /\ ToldInterrupted(r, Desired(watches, r), since)
        /\ recorded' = [recorded EXCEPT ![r] = {}]

SubscriptionEnded(r, retryable, permanent) ==
    /\ at[r].current # 0 /\ Current(at[r]).state = "failed"
    /\ Ended(r, retryable, permanent)
    /\ UNCHANGED <<plan, now, asks, watches, owed, attached, forsaken>>

(* A channel's handler returns, or fails to save. *)
Acknowledge(r, ask, ok) ==
    /\ at[r].recovery # None /\ ask \in at[r].recovery.asked
    /\ ok \/ plan.refusals > 0
    /\ plan' = IF ok THEN plan ELSE [plan EXCEPT !.refusals = @ - 1]
    /\ at' = [at EXCEPT ![r].recovery = [@ EXCEPT !.asked = @ \ {ask},
                                                  !.notified = IF ok THEN @ \cup {ask.id} ELSE @,
                                                  !.refused = @ \/ ~ok]]
    /\ recorded' = IF ok THEN [recorded EXCEPT ![r] = @ \cup {ask.channel}] ELSE recorded
    /\ UNCHANGED <<now, asks, watches, gap, owed, attached, forsaken>>

(* Every handler has settled: a refusal goes back to the timer, a watch made    *)
(* meanwhile is asked too, and otherwise the notice is over.                    *)
NoticeEnds(r) ==
    LET recovery == at[r].recovery
        late == Unnotified(watches, r, recovery)
    IN  /\ recovery # None /\ recovery.phase \in {"telling", "retelling"} /\ recovery.asked = {}
        /\ IF recovery.refused
           THEN /\ at' = [at EXCEPT ![r].recovery.phase = "waiting"]
                /\ UNCHANGED gap
           ELSE IF late # {}
           THEN /\ at' = [at EXCEPT ![r].recovery.asked = Asked(watches, late)]
                /\ ToldInterrupted(r, late, recovery.since)
           ELSE /\ at' = [at EXCEPT ![r].recovery.phase = IF @ = "telling" THEN "waiting" ELSE "told"]
                /\ UNCHANGED gap
        /\ UNCHANGED <<plan, now, asks, watches, ghosts>>

(* Mutant of RetryTimer: the relay is opened without asking again. *)
RetryTimerUnasked(r) ==
    LET recovery == at[r].recovery
    IN  /\ recovery # None /\ recovery.phase = "waiting"
        /\ at' = [at EXCEPT ![r].recovery = [recovery EXCEPT !.phase = "told", !.refused = FALSE]]
        /\ UNCHANGED gap
        /\ UNCHANGED <<plan, now, asks, watches, ghosts>>

RetryTimer(r) ==
    LET recovery == at[r].recovery
        late == Unnotified(watches, r, recovery)
    IN  /\ recovery # None /\ recovery.phase = "waiting"
        /\ at' = [at EXCEPT ![r].recovery = [recovery EXCEPT !.phase = "retelling", !.refused = FALSE,
                                                             !.asked = Asked(watches, late)]]
        /\ ToldInterrupted(r, late, recovery.since)
        /\ UNCHANGED <<plan, now, asks, watches, ghosts>>

Restart(r) ==
    /\ at[r].recovery # None /\ at[r].recovery.phase = "told"
    /\ at' = [at EXCEPT ![r] = [Rebuilt(watches, r, @, TRUE, TRUE) EXCEPT !.recovery.phase = "restarted"]]
    /\ UNCHANGED <<plan, now, asks, watches, gap, ghosts>>

--------------------------------------------------------------------------------
(* subscriptionReady of the current subscription: the channels of a recovery    *)
(* learn that their gap is over.                                                *)
SubscriptionReady(r) ==
    LET x == at[r]
        chans == {c \in SubscribedTo(Current(x)) : watches[c] # NoWatch}
    IN  /\ x.current # 0 /\ Current(x).state \in {"live", "down"} /\ ~Current(x).announced
        /\ at' = [at EXCEPT ![r] = [x EXCEPT !.subs[x.current].announced = TRUE,
                                             !.readying = IF x.recovery = None THEN None
                                                          ELSE [asked |-> chans, refused |-> FALSE]]]
        /\ owed' = IF x.recovery = None THEN owed
                   ELSE {o \in owed : ~(o[2].to \in chans /\ InGap(gap[o[2].to][r], o[2]))}
        /\ UNCHANGED <<plan, now, asks, watches, gap, attached, recorded, forsaken>>

(* A stream that could not reach its relay: only a recovery gives it up. *)
NotReady(r) ==
    LET x == at[r]
    IN  /\ x.current # 0 /\ Current(x).state = "opening" /\ ~Current(x).announced /\ plan.failures > 0
        /\ plan' = [plan EXCEPT !.failures = @ - 1]
        /\ IF x.recovery = None
           THEN /\ at' = [at EXCEPT ![r].subs[x.current].announced = TRUE]
                /\ UNCHANGED <<gap, recorded>>
           ELSE \E permanent \in BOOLEAN : Ended(r, FALSE, permanent)
        /\ UNCHANGED <<now, asks, watches, owed, attached, forsaken>>

AcknowledgeReady(r, c, ok) ==
    /\ at[r].readying # None /\ c \in at[r].readying.asked
    /\ ok \/ plan.refusals > 0
    /\ plan' = IF ok THEN plan ELSE [plan EXCEPT !.refusals = @ - 1]
    /\ gap' = IF ok THEN [gap EXCEPT ![c][r] = None] ELSE gap
    /\ at' = [at EXCEPT ![r].readying = [@ EXCEPT !.asked = @ \ {c}, !.refused = @ \/ ~ok]]
    /\ UNCHANGED <<now, asks, watches, ghosts>>

(* The recovery is over, and the subscription catches up with the channels that *)
(* changed meanwhile; a handler that failed starts it anew.                     *)
ReadyEnds(r) ==
    LET x == at[r]
    IN  /\ x.readying # None /\ (x.readying.asked = {} \/ x.readying.refused)
        /\ IF x.readying.refused
           THEN Ended(r, FALSE, FALSE)
           ELSE /\ at' = [at EXCEPT ![r] = Rebuilt(watches, r, [x EXCEPT !.recovery = None, !.readying = None], TRUE, FALSE)]
                /\ UNCHANGED <<gap, recorded>>
        /\ UNCHANGED <<plan, now, asks, watches, owed, attached>>
        /\ Forsakes

--------------------------------------------------------------------------------
Init ==
    /\ plan \in Plans
    /\ now = 0 /\ seq = 0 /\ calls = {}
    /\ requests = [c \in Channels |-> [n |-> 0, watch |-> FALSE]]
    /\ watches = [c \in Channels |-> NoWatch]
    /\ at = [r \in Relays |-> [subs |-> <<>>, current |-> 0, recovery |-> None, readying |-> None]]
    /\ gap = [c \in Channels |-> [r \in Relays |-> None]]
    /\ owed = {} /\ forsaken = {}
    /\ attached = [r \in Relays |-> {}]
    /\ recorded = [r \in Relays |-> {}]

Change == \E c \in Channels :
    \/ \E relays \in SUBSET Relays \ {{}}, changed, named \in BOOLEAN : WatchAsked(c, relays, changed, named)
    \/ \E call \in calls : call.channel = c /\ (WatchNamed(call) \/ WatchRefused(call) \/ Watch(call))
    \/ Unwatch(c)

Stream(r) ==
    \/ \E n \in DOMAIN at[r].subs : GoesLive(r, n) \/ Drops(r, n) \/ Reconnects(r, n) \/ Fails(r, n)
    \/ NotReady(r)
    \/ \E c \in Channels : Publish(r, c)

Handle(r) ==
    \/ \E n \in DOMAIN at[r].subs : Dispatch(r, n) \/ GraceEnds(r, n)
    \/ \E retryable, permanent \in BOOLEAN : SubscriptionEnded(r, retryable, permanent)
    \/ at[r].recovery # None /\ \E ask \in at[r].recovery.asked, ok \in BOOLEAN : Acknowledge(r, ask, ok)
    \/ NoticeEnds(r) \/ RetryTimer(r) \/ Restart(r)
    \/ SubscriptionReady(r) \/ ReadyEnds(r)
    \/ \E c \in Channels, ok \in BOOLEAN : AcknowledgeReady(r, c, ok)

Next == Change \/ \E r \in Relays : Stream(r) \/ Handle(r)

(* Timers fire, handlers settle, and a stream that does not fail gets to its relay. *)
Fairness == \A r \in Relays :
    /\ WF_vars(Handle(r))
    /\ WF_vars(\E n \in DOMAIN at[r].subs : GoesLive(r, n) \/ Reconnects(r, n))

Spec == Init /\ [][Next]_vars /\ Fairness

--------------------------------------------------------------------------------
TypeOK ==
    /\ PlansAssumption
    /\ watches \in [Channels -> [id : 0..seq, rev : 0..seq, relays : SUBSET Relays]]
    /\ \A r \in Relays : /\ at[r].current \in 0..Len(at[r].subs)
                         /\ attached[r] \cup recorded[r] \subseteq Channels
                         /\ \A n \in DOMAIN at[r].subs :
                                at[r].subs[n].state \in {"opening", "live", "down", "failed", "closed"}

(* subsByRelay and relayRecoveries follow the watches: a relay somebody watches  *)
(* has a subscription to exactly its channels, is in recovery, or has refused,    *)
(* and then its channels know; a relay nobody watches has neither.  And watches   *)
(* follow the requests: a channel is not watched any more once the last request    *)
(* was to drop it, whatever calls were under way.                                *)
SubscribedAsWatched ==
    /\ TypeOK
    /\ \A c \in Channels : watches[c] # NoWatch => requests[c].watch /\ watches[c].id <= requests[c].n
    /\ \A r \in Relays :
        LET x == at[r]
        IN  IF Desired(watches, r) = {} THEN x.current = 0 /\ x.recovery = None
            ELSE \/ x.recovery # None
                 \/ x.current # 0 /\ Matches(watches, r, Current(x))
                 \/ x.current = 0 /\ \A c \in Desired(watches, r) : gap[c][r] # None

(* An event a relay published for a channel that was live there has been handed   *)
(* over, is about to be, or lies in a gap the channel knows, whatever failed and  *)
(* however often; only replacing a subscription may lose some.                    *)
NoSilentGap == \A x \in owed : Safe(x[1], x[2]) \/ x \in forsaken

(* "Keep an established reader alive until private-message atomically replaces    *)
(* it": a change of the watches costs the other channels of a relay nothing.      *)
NothingForsaken == \A x \in owed : Safe(x[1], x[2])

(* notifyInterruption: a relay in recovery is opened again only when every        *)
(* channel that had been live there has saved its gap.                            *)
SavedBeforeRestartStep ==
    \A r \in Relays : at[r].recovery # None /\ at'[r].current \notin {0, at[r].current}
        /\ at'[r].recovery # None
      => attached[r] \cap Desired(watches, r) \subseteq recorded[r]

(* scheduleRelayRecovery: once relays stop failing, recoveries end.                *)
NoRecovery == \A r \in Relays : at[r].recovery = None
================================================================================
