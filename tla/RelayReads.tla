------------------------------- MODULE RelayReads -------------------------------
(***************************************************************************)
(* relay/services/relay-pool.js: the pooled connections, and the one-shot   *)
(* operations that fan out over several relays: getEvents, countEvents and  *)
(* sendEvent, beside live readers that hold a relay open.                   *)
(*                                                                         *)
(* An operation has a leg per relay.  Promise continuations, timers and     *)
(* answers are actions of their own; time is left out, so a timer may fire  *)
(* at any moment while it is set.                                           *)
(***************************************************************************)
EXTENDS Integers, FiniteSets, FiniteSetsExt, TLC

CONSTANTS
    Urls, Ops,
    Plans,      \* the operations of a behaviour: [kind, urls, retries, fresh], and its faults
    MaxObjects  \* bound: RelayConnection objects made for a relay

Kinds == {"get", "count", "send", "live"}
NoObject == <<"none", 0>>

PlansAssumption ==
    \A p \in Plans :
        /\ DOMAIN p.ops \subseteq Ops
        /\ \A o \in DOMAIN p.ops : p.ops[o].kind \in Kinds /\ p.ops[o].urls \subseteq Urls
        /\ p.faults \in Nat
ObjectsAssumption == MaxObjects \in Nat

VARIABLES
    plan,
    objects, \* RelayConnections, <<url, number>>: the socket; ghost: forgotten while in use
    pool,    \* per url: the pooled object, idle timer, live count, disconnects under way
    legs,    \* per operation and url
    ops,     \* per operation: attempt, resolved, how, its timers
    wire     \* ghost: the events each relay accepted, <<operation, attempt>>

vars == <<plan, objects, pool, legs, ops, wire>>

--------------------------------------------------------------------------------
Running == DOMAIN plan.ops
Kind(o) == plan.ops[o].kind
Legs == {l \in Running \X Urls : l[2] \in plan.ops[l[1]].urls}
Of(o) == {l \in Legs : l[1] = o}

FreshLeg == [state |-> "idle", object |-> NoObject, outcome |-> "none",
             lease |-> FALSE, retries |-> 0, events |-> FALSE, authed |-> FALSE]
FreshOp == [attempt |-> 0, found |-> FALSE, resolved |-> FALSE, success |-> FALSE, returned |-> FALSE, grace |-> FALSE]
FreshUrl == [pooled |-> NoObject, idle |-> FALSE, live |-> 0, closing |-> 0]

Strikes == plan.faults > 0 /\ plan' = [plan EXCEPT !.faults = @ - 1]
IsIn(l, states) == legs[l].state \in states
Open(l) == legs[l].outcome = "none" /\ ~ops[l[1]].resolved

--------------------------------------------------------------------------------
(* Legs change together; what an operation concludes from them follows.         *)

(* settleRelay, or pending.delete: the leg has its outcome, its subscription is  *)
(* closed and its lease goes back.  A getRelay under way goes on.               *)
Closed(state) == IF state \in {"connecting", "refused"} THEN state ELSE "over"

(* Mutant of Settled: the lease is kept for the end of the operation. *)
SettledLeased(leg, how) == [leg EXCEPT !.outcome = how, !.state = Closed(@)]

Settled(leg, how) == [SettledLeased(leg, how) EXCEPT !.lease = FALSE]

(* The legs of some operations, once each of a set has been given its outcome.  *)
Given(hows) == [l \in Legs |-> IF l \in DOMAIN hows /\ Open(l) THEN Settled(legs[l], hows[l]) ELSE legs[l]]

(* cleanup: whatever is still under way is closed and gives its lease back. *)
Ended(leg) == IF leg.outcome = "none" THEN [leg EXCEPT !.state = Closed(@), !.lease = FALSE] ELSE leg

Definitive == {"auth", "invalid"}

Good(kind) == CASE kind = "get" -> {"eose", "satisfied", "closed"}
                [] kind = "count" -> {"counted"}
                [] OTHER -> {"accepted"}

(* finish of a read or a count: legs without an outcome are cut off, or timed out. *)
Finished(o, next, how) ==
    [l \in Legs |-> IF l \in Of(o) /\ next[l].outcome = "none"
                    THEN (IF Kind(o) = "get" \/ how = "timeout" THEN Settled(next[l], how) ELSE Ended(next[l]))
                    ELSE next[l]]

(* What follows for each operation from the outcomes of its legs. *)
Complete(o, next) == \A l \in Of(o) : next[l].outcome # "none"
Success(o, next) == \E l \in Of(o) : next[l].outcome \in Good(Kind(o)) \/ ops[o].found
Concluded(next) ==
    [o \in Running |->
        IF Kind(o) = "live" \/ ops[o].attempt = 0 \/ ops[o].resolved THEN ops[o]
        ELSE LET done == Complete(o, next)
                 success == Success(o, next)
             IN  [ops[o] EXCEPT
                     !.resolved = done,
                     !.success = IF Kind(o) = "send" THEN @ \/ success ELSE done /\ success,
                     !.returned = @ \/ (Kind(o) = "send" /\ (success \/ done))]]

Become(next) == legs' = next /\ ops' = Concluded(next)
SettleAll(hows) == Become(Given(hows))
Settle(l, how) == SettleAll([k \in {l} |-> how])

--------------------------------------------------------------------------------
(* The pool. *)
Free(u) == {<<u, n>> : n \in 1..MaxObjects} \ DOMAIN objects
Waiting(i) == {l \in Legs : legs[l].state = "connecting" /\ legs[l].object = i}
Leased(u) == {l \in Legs : l[2] = u /\ legs[l].lease /\ legs[l].outcome = "none"}

(* getRelay up to its await: the pooled object, or a new one, connects unless it  *)
(* is open.                                                                     *)
Pooled(u) == IF pool[u].pooled # NoObject THEN pool[u].pooled ELSE CHOOSE i \in Free(u) : TRUE
CanConnect(u) == pool[u].pooled # NoObject \/ Free(u) # {}
GetRelays(us) ==
    LET is == {Pooled(u) : u \in us}
    IN  /\ \A u \in us : CanConnect(u)
        /\ objects' = [i \in DOMAIN objects \cup is |->
                         IF i \notin DOMAIN objects THEN [socket |-> "connecting", forgotten |-> FALSE]
                         ELSE IF i \in is /\ objects[i].socket = "none" THEN [objects[i] EXCEPT !.socket = "connecting"]
                         ELSE objects[i]]
        /\ pool' = [u \in Urls |-> IF u \in us THEN [pool[u] EXCEPT !.pooled = Pooled(u)] ELSE pool[u]]
Towards(leg, u) == [leg EXCEPT !.state = "connecting", !.object = Pooled(u)]

(* The socket opens, or fails to. *)
SocketOpens(i) ==
    /\ objects[i].socket = "connecting"
    /\ objects' = [objects EXCEPT ![i].socket = "open"]
    /\ UNCHANGED <<plan, pool, legs, ops, wire>>

SocketFails(i) ==
    /\ objects[i].socket = "connecting"
    /\ Strikes
    /\ objects' = [objects EXCEPT ![i].socket = "none"]
    /\ legs' = [l \in Legs |-> IF l \in Waiting(i) THEN [legs[l] EXCEPT !.state = "refused"] ELSE legs[l]]
    /\ UNCHANGED <<pool, ops, wire>>

(* What the legs on an object see when it is closed or lost.  A read on a        *)
(* connection that its owner closed is closed, on one that was lost an error.   *)
Dropped(i, how) ==
    LET asked == {l \in Legs : legs[l].object = i /\ legs[l].state \in {"asked", "authenticating"} /\ Kind(l[1]) # "live"}
        over == [l \in asked |-> CASE Kind(l[1]) = "get" -> how [] Kind(l[1]) = "send" -> "lost" [] OTHER -> "error"]
        next == Given(over)
    IN  [l \in Legs |-> IF l \in Waiting(i) THEN [next[l] EXCEPT !.state = "refused"]
                        ELSE IF legs[l].object = i /\ Kind(l[1]) = "live" /\ IsIn(l, {"asked"})
                        THEN [next[l] EXCEPT !.state = "over"] ELSE next[l]]

SocketLost(i) ==
    /\ objects[i].socket = "open"
    /\ Strikes
    /\ objects' = [objects EXCEPT ![i].socket = "none"]
    /\ Become(Dropped(i, "error"))
    /\ UNCHANGED <<pool, wire>>

(* getRelay after its await.  A relay without live readers is given its idle      *)
(* timer.                                                                       *)
Reached(u) == [pool EXCEPT ![u].idle = @ \/ pool[u].live = 0]

(* What a leg does once connected: ask, unless its operation is over. *)
Asks(leg, l) == IF Open(l) THEN [leg EXCEPT !.state = "asked"] ELSE leg

Connected(l) ==
    /\ IsIn(l, {"connecting"})
    /\ objects[legs[l].object].socket = "open"
    /\ pool' = Reached(l[2])
    /\ legs' = [legs EXCEPT ![l] = Asks(@, l)]
    /\ UNCHANGED <<plan, objects, ops, wire>>

(* The connection failed: the object is evicted and closed; the leg has an error. *)
Evicted(l) ==
    IF pool[l[2]].pooled = legs[l].object
    THEN [pool EXCEPT ![l[2]].pooled = NoObject, ![l[2]].idle = FALSE]
    ELSE pool

Refused(l) ==
    /\ IsIn(l, {"refused"})
    /\ pool' = Evicted(l)
    /\ objects' = [objects EXCEPT ![legs[l].object].socket = "none"]
    /\ Become(LET next == [Dropped(legs[l].object, "closed") EXCEPT ![l] = [legs[l] EXCEPT !.state = "over"]]
              IN  IF Kind(l[1]) # "live" /\ Open(l) THEN [next EXCEPT ![l] = Settled(@, "error")] ELSE next)
    /\ UNCHANGED <<plan, wire>>

(* disconnect: queued reads are cancelled, the connection is closed, and after   *)
(* that the map forgets whatever it holds.                                      *)
Disconnect(u) ==
    LET i == pool[u].pooled
        queued == {l \in Legs : l[2] = u /\ legs[l].state = "admission"}
        closes == i # NoObject /\ objects[i].socket # "none"
        dropped == IF closes THEN Dropped(i, "closed") ELSE legs
    IN  /\ i # NoObject
        /\ objects' = [objects EXCEPT ![i].socket = "none"]
        /\ pool' = IF closes THEN [pool EXCEPT ![u].closing = @ + 1]
                   ELSE [pool EXCEPT ![u].pooled = NoObject, ![u].idle = FALSE]
        /\ Become([l \in Legs |-> IF l \in queued /\ Open(l) THEN Settled(legs[l], "error") ELSE dropped[l]])
        /\ UNCHANGED wire

Forget(u) ==
    /\ pool[u].closing > 0
    /\ pool' = [pool EXCEPT ![u].closing = @ - 1, ![u].pooled = NoObject, ![u].idle = FALSE]
    /\ objects' = [i \in DOMAIN objects |-> [objects[i] EXCEPT !.forgotten = @ \/ pool[u].pooled = i]]
    /\ UNCHANGED <<plan, legs, ops, wire>>

DisconnectCall(u) == Strikes /\ Disconnect(u)

(* The idle timer: put off while a read of the relay is admitted. *)
Busy(u) == Leased(u) # {}

IdleFires(u) ==
    /\ pool[u].idle
    /\ ~Busy(u)
    /\ Disconnect(u)
    /\ UNCHANGED plan

--------------------------------------------------------------------------------
(* Live readers: the count is raised before the relay is asked for and lowered    *)
(* when the reader lets go, whatever became of the connection.                  *)
LiveStarts(l) ==
    LET u == l[2]
    IN  /\ Kind(l[1]) = "live"
        /\ IsIn(l, {"idle"})
        /\ pool' = [pool EXCEPT ![u].live = @ + 1, ![u].idle = FALSE]
        /\ legs' = [legs EXCEPT ![l].lease = TRUE, ![l].state = "over"]
        /\ UNCHANGED <<plan, objects, ops, wire>>

(* Admitted for the first time, or once more after its connection was lost. *)
LiveConnects(l) ==
    /\ Kind(l[1]) = "live"
    /\ legs[l].lease
    /\ IsIn(l, {"over"})
    /\ GetRelays({l[2]})
    /\ legs' = [legs EXCEPT ![l] = Towards(@, l[2])]
    /\ UNCHANGED <<plan, ops, wire>>

(* Mutant of LetGo: the timer of getRelay is relied upon. *)
LetGoOnly(u) == [pool EXCEPT ![u].live = @ - 1]

(* decrementLiveSub *)
LetGo(u) == [pool EXCEPT ![u].live = @ - 1,
                         ![u].idle = @ \/ (pool[u].live = 1 /\ pool[u].pooled # NoObject)]

LiveStops(l) ==
    /\ Kind(l[1]) = "live"
    /\ legs[l].lease
    /\ pool' = LetGo(l[2])
    /\ legs' = [legs EXCEPT ![l] = Settled(@, "stopped")]
    /\ UNCHANGED <<plan, objects, ops, wire>>

--------------------------------------------------------------------------------
(* An operation starts: reads ask for admission, counts and publications for the  *)
(* connection.  startRelay of the other legs runs in the same turn.             *)
StartRead(o) ==
    /\ Kind(o) = "get"
    /\ ops[o].attempt = 0
    /\ ops' = [ops EXCEPT ![o].attempt = 1]
    /\ legs' = [l \in Legs |-> IF l \in Of(o) THEN [legs[l] EXCEPT !.state = "admission"] ELSE legs[l]]
    /\ UNCHANGED <<plan, objects, pool, wire>>

Begin(o) ==
    /\ Kind(o) \in {"count", "send"}
    /\ ops[o].attempt = 0
    /\ GetRelays(plan.ops[o].urls)
    /\ ops' = [ops EXCEPT ![o].attempt = 1]
    /\ legs' = [l \in Legs |-> IF l \in Of(o) THEN Towards(FreshLeg, l[2]) ELSE legs[l]]
    /\ UNCHANGED <<plan, wire>>

(* The lease of a read has come, or the wait of a rate limited leg is over. *)
Admitted(l) ==
    /\ IsIn(l, {"admission", "retrying"})
    /\ GetRelays({l[2]})
    /\ legs' = [legs EXCEPT ![l] = [Towards(@, l[2]) EXCEPT !.lease = (Kind(l[1]) = "get")]]
    /\ UNCHANGED <<plan, ops, wire>>

AdmissionFails(l) ==
    /\ IsIn(l, {"admission"})
    /\ Open(l)
    /\ Strikes
    /\ Settle(l, "error")
    /\ UNCHANGED <<objects, pool, wire>>

(* The relay answers a leg. *)
Answering(l) == IsIn(l, {"asked"}) /\ Kind(l[1]) # "live" /\ Open(l) /\ objects[legs[l].object].socket = "open"

EventArrives(l) ==
    /\ Kind(l[1]) = "get"
    /\ Answering(l)
    /\ ~legs[l].events
    /\ \/ /\ legs' = [legs EXCEPT ![l].events = TRUE]
          /\ ops' = [ops EXCEPT ![l[1]].found = TRUE]
       \/ /\ legs' = [Given([k \in {l} |-> "satisfied"]) EXCEPT ![l].events = TRUE]
          /\ ops' = LET now == Concluded(legs')
                    IN  [now EXCEPT ![l[1]].found = TRUE,
                                    ![l[1]].grace = ~now[l[1]].resolved]
    /\ UNCHANGED <<plan, objects, pool, wire>>

(* EOSE or COUNT: the first useful one opens the grace window. *)
Opens(l) == IF Kind(l[1]) = "get" THEN legs[l].events ELSE TRUE
Answered(l) ==
    LET next == Given([k \in {l} |-> IF Kind(l[1]) = "get" THEN "eose" ELSE "counted"])
    IN  /\ Kind(l[1]) \in {"get", "count"}
        /\ Answering(l)
        /\ legs' = next
        /\ ops' = [Concluded(next) EXCEPT ![l[1]].grace = ~Complete(l[1], next) /\ (@ \/ Opens(l))]
        /\ UNCHANGED <<plan, objects, pool, wire>>

(* A rate limit is waited out while retries are left and the deadline allows. *)
MayRetry(l) == legs[l].retries < plan.ops[l[1]].retries

RateLimited(l) ==
    /\ Kind(l[1]) \in {"get", "count"}
    /\ Answering(l)
    /\ Strikes
    /\ \/ MayRetry(l) /\ legs' = [legs EXCEPT ![l].state = "retrying", ![l].retries = @ + 1, ![l].events = FALSE] /\ UNCHANGED ops
       \/ Settle(l, "error")
    /\ UNCHANGED <<objects, pool, wire>>

(* The relay's answer to a publication.  A relay that wants authentication gets   *)
(* it once, and the event again.                                                *)
Accepts(l) ==
    /\ Kind(l[1]) = "send"
    /\ Answering(l)
    /\ wire' = wire \cup {<<l, ops[l[1]].attempt>>}
    /\ Settle(l, "accepted")
    /\ UNCHANGED <<plan, objects, pool>>

Rejects(l) == \E why \in Definitive \cup {"error"} :
    /\ Kind(l[1]) = "send"
    /\ Answering(l)
    /\ Strikes
    /\ IF why = "auth" /\ ~legs[l].authed
       THEN legs' = [legs EXCEPT ![l].state = "authenticating"] /\ UNCHANGED ops
       ELSE Settle(l, why)
    /\ UNCHANGED <<objects, pool, wire>>

Authenticates(l) ==
    /\ IsIn(l, {"authenticating"})
    /\ Open(l)
    /\ \/ legs' = [legs EXCEPT ![l].state = "asked", ![l].authed = TRUE] /\ UNCHANGED <<ops, plan>>
       \/ Strikes /\ \E why \in Definitive \cup {"error"} : Settle(l, why)
    /\ UNCHANGED <<objects, pool, wire>>

(* A relay that was sent the event may accept it after the caller gave up, or    *)
(* after its answer was lost.                                                  *)
AcceptsLate(l) ==
    /\ Kind(l[1]) = "send"
    /\ IsIn(l, {"over"})
    /\ legs[l].outcome \in {"timeout", "lost"}
    /\ <<l, ops[l[1]].attempt>> \notin wire
    /\ legs[l].object # NoObject
    /\ wire' = wire \cup {<<l, ops[l[1]].attempt>>}
    /\ UNCHANGED <<plan, objects, pool, legs, ops>>

--------------------------------------------------------------------------------
(* Timers of the operation. *)
LegTimesOut(l) ==
    /\ Kind(l[1]) = "get"
    /\ Open(l)
    /\ IsIn(l, {"connecting", "refused", "asked"})
    /\ Strikes
    /\ Settle(l, "timeout")
    /\ UNCHANGED <<objects, pool, wire>>

(* What finish leaves. *)
FinishWith(o, how) ==
    LET next == Finished(o, legs, how)
    IN  /\ legs' = next
        /\ ops' = [ops EXCEPT ![o].resolved = TRUE, ![o].grace = FALSE, ![o].success = Success(o, next)]

GraceEnds(o) ==
    /\ ops[o].grace
    /\ ~ops[o].resolved
    /\ FinishWith(o, "cutoff")
    /\ UNCHANGED <<plan, objects, pool, wire>>

(* The deadline of a count, or of a publication: every open leg has timed out. *)
Deadline(o) ==
    /\ Kind(o) \in {"count", "send"}
    /\ ops[o].attempt > 0
    /\ ~ops[o].resolved
    /\ Strikes
    /\ IF Kind(o) = "count" THEN FinishWith(o, "timeout") ELSE SettleAll([l \in Of(o) |-> "timeout"])
    /\ UNCHANGED <<objects, pool, wire>>

(* timeoutUntilFirstFulfillment of a publication nobody has accepted. *)
EarlyReturn(o) ==
    /\ Kind(o) = "send"
    /\ ops[o].attempt > 0
    /\ ~ops[o].resolved
    /\ ~ops[o].returned
    /\ Strikes
    /\ SettleAll([l \in Of(o) |-> "timeout"])
    /\ UNCHANGED <<objects, pool, wire>>

(* The caller's signal. *)
AbortOp(o) ==
    /\ Kind(o) # "live"
    /\ ops[o].attempt > 0
    /\ ~ops[o].resolved
    /\ Strikes
    /\ IF Kind(o) = "send" THEN SettleAll([l \in Of(o) |-> "error"])
       ELSE /\ legs' = [l \in Legs |-> IF l \in Of(o) THEN Ended(legs[l]) ELSE legs[l]]
            /\ ops' = [ops EXCEPT ![o].resolved = TRUE]
    /\ UNCHANGED <<objects, pool, wire>>

(* Mutant of Refreshes: one relay that says so is enough. *)
RefreshesAny(o) == /\ \E l \in Of(o) : legs[l].outcome \in Definitive
                   /\ \A l \in Of(o) : legs[l].outcome # "accepted"

(* isDefinitiveOuterRejection: every relay said that this event will not do. *)
Refreshes(o) == \A l \in Of(o) : legs[l].outcome \in Definitive

(* getRetryEvent gave a fresh event: it is sent to every relay. *)
SendFresh(o) ==
    /\ Kind(o) = "send"
    /\ plan.ops[o].fresh
    /\ ops[o].attempt = 1
    /\ ops[o].resolved
    /\ ~ops[o].success
    /\ Refreshes(o)
    /\ GetRelays(plan.ops[o].urls)
    /\ ops' = [ops EXCEPT ![o] = [FreshOp EXCEPT !.attempt = 2]]
    /\ legs' = [l \in Legs |-> IF l \in Of(o) THEN Towards(FreshLeg, l[2]) ELSE legs[l]]
    /\ UNCHANGED <<plan, wire>>

--------------------------------------------------------------------------------
Init ==
    /\ plan \in Plans
    /\ objects = [i \in {} |-> "none"]
    /\ pool = [u \in Urls |-> FreshUrl]
    /\ legs = [l \in Legs |-> FreshLeg]
    /\ ops = [o \in Running |-> FreshOp]
    /\ wire = {}

Next ==
    \/ \E i \in DOMAIN objects : SocketOpens(i) \/ SocketFails(i) \/ SocketLost(i)
    \/ \E u \in Urls : DisconnectCall(u) \/ Forget(u) \/ IdleFires(u)
    \/ \E l \in Legs :
         \/ Connected(l) \/ Refused(l) \/ LiveStarts(l) \/ LiveConnects(l) \/ LiveStops(l)
         \/ Admitted(l) \/ AdmissionFails(l)
         \/ EventArrives(l) \/ Answered(l) \/ RateLimited(l)
         \/ Accepts(l) \/ Rejects(l) \/ Authenticates(l) \/ AcceptsLate(l) \/ LegTimesOut(l)
    \/ \E o \in Running :
         StartRead(o) \/ Begin(o) \/ GraceEnds(o) \/ Deadline(o) \/ EarlyReturn(o) \/ AbortOp(o) \/ SendFresh(o)

Spec == Init /\ [][Next]_vars

--------------------------------------------------------------------------------
OpenObjects == {i \in DOMAIN objects : objects[i].socket = "open"}

(* The shape of the state. *)
TypeOK ==
    /\ PlansAssumption /\ ObjectsAssumption
    /\ plan.faults \in Nat
    /\ \A i \in DOMAIN objects : i[1] \in Urls /\ objects[i].socket \in {"none", "connecting", "open"}
    /\ \A u \in Urls : pool[u].pooled \in DOMAIN objects \cup {NoObject} /\ pool[u].live \in Nat
    /\ \A l \in Legs : legs[l].retries \in Nat /\ legs[l].lease \in BOOLEAN

(* An operation that has resolved holds nothing: no lease, no open subscription  *)
(* and no retry survives it, whatever came late.                                *)
NothingOutlivesItsOperation ==
    \A l \in Legs : Kind(l[1]) # "live" /\ (ops[l[1]].resolved \/ legs[l].outcome # "none") =>
        ~legs[l].lease /\ ~IsIn(l, {"asked", "authenticating"})

(* A pooled, open connection goes away by itself: a live reader holds it, its idle *)
(* timer is set, or somebody is about to set it; and while readers hold it the      *)
(* timer is not running and their number is the count.  A connection that a        *)
(* getRelay took up between a disconnect's close and its delete is exempt: nothing  *)
(* closes it.                                                                   *)
ConnectionsKeptAsHeld ==
    /\ \A i \in OpenObjects : LET u == i[1] IN
        ~objects[i].forgotten =>
            /\ pool[u].pooled = i
            /\ pool[u].live > 0 \/ pool[u].idle \/ Waiting(i) # {}
    /\ \A u \in Urls :
        /\ pool[u].live > 0 => ~pool[u].idle
        /\ pool[u].live = Cardinality({l \in Legs : l[2] = u /\ Kind(l[1]) = "live" /\ legs[l].lease})

(* A fresh event is signed and sent only if no relay has the first one: after a   *)
(* late acceptance or a lost answer the same event is all there is.             *)
OneEventAccepted ==
    \A k, l \in Legs : k[1] = l[1] => ~(<<k, 1>> \in wire /\ ops[l[1]].attempt = 2)

(* A send that reports success was accepted by a relay, and no other reports it. *)
SuccessIsReal ==
    \A o \in Running : Kind(o) = "send" =>
        (ops[o].success => \E l \in Of(o) : <<l, ops[o].attempt>> \in wire)

(* Idle disconnects cut no admitted read short. *)
IdleSparesReadsStep ==
    \A u \in Urls : pool'[u].closing > pool[u].closing /\ plan' = plan => Leased(u) = {}

================================================================================
