------------------------------- MODULE SendRace -------------------------------
(***************************************************************************)
(* Publishing one signed outer event: which relays are tried, in which order *)
(* and when, and what the caller is told (private-messenger/helpers/         *)
(* send-routing.js and fallback-race.js), over the health of the relays that *)
(* all sends of a messenger share (publication-relay-health.js).             *)
(*                                                                         *)
(* Sequential routing has one lane, which exhausts the primary relays of the *)
(* pending receivers before it uses a fallback.  Early fallback races two    *)
(* lanes over one set of pending receivers and one set of tried relays.      *)
(***************************************************************************)
EXTENDS Integers, FiniteSets

CONSTANTS
    Sends, Receivers,
    Targets,    \* relays
    Threshold,  \* failures in a row that open a circuit; 3
    PerReceiver,\* relays picked for a receiver at a time; 2
    Races,      \* routes, configuration and bounds of a behaviour
    NoBatch

ASSUME RaceAssumption ==
    /\ Threshold \in Nat \ {0} /\ PerReceiver \in Nat \ {0} /\ NoBatch \notin Sends
    /\ IsFiniteSet(Targets) /\ IsFiniteSet(Receivers)
    /\ Races \subseteq [primary: [Receivers -> SUBSET Targets], fallback: SUBSET Targets, mirrors: SUBSET Targets,
                        early: BOOLEAN, explicit: BOOLEAN, sends: SUBSET Sends, follows: SUBSET Sends, prepared: SUBSET BOOLEAN,
                        answers: SUBSET {"ok", "refused", "down", "native"}, resigns: {"never", "may", "may fail"},
                        interrupts: Nat, cools: Nat, open: SUBSET Targets]

VARIABLES
    race,       \* the routes of the behaviour, with what is left of its bounds
    health,     \* createPublicationRelayHealth's relays
    send        \* the sends

rvars == <<race, health, send>>

Lanes == {"primary", "fallback"}
Healthy == [fails |-> 0, circuit |-> "closed"]
NoLane == [at |-> "idle", held |-> NoBatch]
NoAsk == [r \in Targets |-> "none"]
Unsent == [state |-> "idle", flag |-> "none", recv |-> {}, whole |-> TRUE, live |-> "yes", pending |-> {}, tried |-> {},
           excluded |-> {}, blocked |-> FALSE, offline |-> FALSE, timer |-> FALSE, opening |-> TRUE, resigned |-> FALSE,
           first |-> NoBatch, todo |-> {}, of |-> NoBatch, last |-> TRUE,
           lane |-> [l \in Lanes |-> NoLane], answer |-> NoAsk, pubs |-> {}, shut |-> {}]

--------------------------------------------------------------------------------
(* Replaceable failures justify another relay; the others are the event's, or the caller's, own. *)
Replaceable == {"refused", "down"}

Fallback == race.fallback
Candidates == (UNION {race.primary[p] : p \in Receivers}) \union Fallback
Excluded(r) == health[r].circuit = "open"
Unavailable(s) == {r \in Candidates : Excluded(r)} \union send[s].excluded
RoutesOf(p) == race.primary[p] \union Fallback

(* recordFailure: a refusal, or a failed probe of a circuit that cooled down, opens the circuit; *)
(* failures in a row add up.                                                                    *)
RecordFailure(h, kind) ==
    IF kind = "refused" \/ h.circuit = "half" \/ h.fails + 1 >= Threshold
    THEN [fails |-> 0, circuit |-> "open"]
    ELSE [fails |-> h.fails + 1, circuit |-> "closed"]

Failed(q, relays) == {r \in relays \intersect Candidates : q.answer[r] \in Replaceable}
(* remember, rememberSuccess *)
Remembered(q, relays) == [q EXCEPT !.excluded = @ \union Failed(q, relays)]
Blamed(h, q, relays) == [r \in Targets |-> IF r \in Failed(q, relays) THEN RecordFailure(h[r], q.answer[r]) ELSE h[r]]
Credited(h, q, relays) == [r \in Targets |-> IF r \in relays /\ q.answer[r] = "ok" THEN Healthy ELSE h[r]]

--------------------------------------------------------------------------------
(* Routes *)

Limit == IF race.explicit THEN Cardinality(Targets) ELSE PerReceiver
(* pickRelaysForPubkeys: to each receiver its relays that most receivers share, up to a maximum. *)
Picks(who, listed, excluded, max) ==
    LET open == [p \in who |-> listed[p] \ excluded]
        shared(r) == Cardinality({p \in who : r \in open[p]})
        Best(p) == {g \in SUBSET open[p] :
                      /\ Cardinality(g) <= max
                      /\ g = open[p] \/ Cardinality(g) = max
                      /\ \A r \in g, t \in open[p] \ g : shared(r) >= shared(t)}
    IN {f \in [who -> SUBSET UNION {open[p] : p \in who}] : \A p \in who : f[p] \in Best(p)}

(* routeGroups: relays that serve the same receivers form a batch. *)
Served(route, r) == {p \in DOMAIN route : r \in route[p]}
Batches(route) ==
    LET used == UNION {route[p] : p \in DOMAIN route}
    IN {[recv |-> Served(route, r), relays |-> {t \in used : Served(route, t) = Served(route, r)}] : r \in used}

FallbackLists == [p \in Receivers |-> Fallback]
PrimaryBatches(s, max) == UNION {Batches(f) : f \in Picks(send[s].pending, race.primary, Unavailable(s) \union send[s].tried, max)}
FallbackBatches(s) == UNION {Batches(f) : f \in Picks(send[s].pending, FallbackLists, Unavailable(s) \union send[s].tried, PerReceiver)}
(* select(.., staged): a fallback only when no pending receiver has a primary relay left. *)
StagedBatches(s) == LET first == PrimaryBatches(s, Limit) IN IF first # {} THEN first ELSE FallbackBatches(s)
(* Whatever a lane tries next. *)
NextBatches(s, l) ==
    IF send[s].lane[l].held # NoBatch THEN {send[s].lane[l].held}
    ELSE IF ~race.early THEN StagedBatches(s)
    ELSE IF l = "primary" THEN PrimaryBatches(s, PerReceiver) ELSE FallbackBatches(s)

--------------------------------------------------------------------------------
(* Outcomes *)

Running(q) == q.state = "running"
Over(q) == q.state \in {"yes", "no", "thrown"}
Current(q) == q.live = "yes"
Aborted(q) == q.live = "aborted"
Stopped(q) == q.blocked \/ q.offline \/ ~Current(q)
LaneAt(q, l, at) == [q EXCEPT !.lane[l] = [at |-> at, held |-> NoBatch]]
Asking(q, p) == [q EXCEPT !.lane[p.by] = [at |-> "asking", held |-> [recv |-> p.recv, relays |-> p.relays]]]

(* finish: an interrupted send stays retryable, except when its caller aborted it. *)
Finish(q, ok) ==
    [q EXCEPT !.state = IF ok THEN "yes" ELSE "no", !.timer = FALSE,
              !.flag = IF ok \/ Aborted(q) \/ (Current(q) /\ ~q.offline) THEN "none"
                       ELSE IF q.offline \/ ~race.early THEN "online" ELSE "available"]
(* Mutant: the race is over with its primary lane. *)
CheckPrimary(q) ==
    IF ~Running(q) THEN q
    ELSE IF q.pending = {} THEN Finish(q, TRUE)
    ELSE IF q.lane["primary"].at = "over" /\ ~q.timer THEN Finish(q, FALSE)
    ELSE q

(* check *)
CheckRace(q) ==
    IF ~Running(q) THEN q
    ELSE IF q.pending = {} THEN Finish(q, TRUE)
    ELSE IF q.lane["primary"].at = "over" /\ q.lane["fallback"].at \in {"idle", "over"} /\ ~q.timer THEN Finish(q, FALSE)
    ELSE q

(* A lane that has nothing left to try.  The primary lane starts the fallback at once. *)
EndsLane(q, l, closed) ==
    LET over == [LaneAt(q, l, "over") EXCEPT !.shut = @ \union closed]
        next == IF l = "primary" /\ q.timer
                THEN IF Stopped(q) THEN [over EXCEPT !.timer = FALSE]
                     ELSE LaneAt([over EXCEPT !.timer = FALSE], "fallback", "starting")
                ELSE over
    IN CheckRace(next)

(* The sends of one publish share the exclusions of its routing. *)
Store(s, q) ==
    send' = [t \in Sends |-> IF t = s THEN q
                             ELSE IF send[t].of = q.of /\ q.of # NoBatch THEN [send[t] EXCEPT !.excluded = q.excluded]
                             ELSE send[t]]

--------------------------------------------------------------------------------
(* resolveSendRouting, and the grouping of relays by receivers (private-channel/index.js). *)

Blocked(s) == {p \in Receivers : RoutesOf(p) # {} /\ RoutesOf(p) \subseteq Unavailable(s)}

(* A new message is encrypted once for each group of receivers; a prepared publication is sent again *)
(* to all of its receivers, over the relays of any of them.                                         *)
FirstBatches(route, prepared) ==
    IF prepared THEN {[recv |-> Receivers, relays |-> UNION {route[p] : p \in Receivers}]} ELSE Batches(route)

(* The send of one outer event, over the routes of its receivers. *)
Begun(q, b) == [q EXCEPT !.state = "resolved", !.recv = b.recv, !.first = b,
                         !.whole = \A p \in b.recv : b.relays \subseteq RoutesOf(p),
                         !.lane["primary"] = [at |-> "ready", held |-> b]]

Resolve(s) ==
    /\ s \in race.sends /\ send[s].state = "idle"
    /\ IF Blocked(s) # {} THEN Store(s, [send[s] EXCEPT !.state = "refused"])
       ELSE \E f \in Picks(Receivers, race.primary, Unavailable(s), Limit) :
            LET missing == {p \in Receivers : f[p] = {}}
            IN \E g \in Picks(missing, FallbackLists, Unavailable(s), PerReceiver), prepared \in race.prepared :
               LET route == [p \in Receivers |-> IF p \in missing THEN g[p] ELSE f[p]]
                   all == FirstBatches(route, prepared)
               IN \E b \in all : Store(s, Begun([send[s] EXCEPT !.of = s, !.todo = all \ {b}], b))
    /\ UNCHANGED <<race, health>>

(* publish goes on when an event is sent, or was not: with the next event of the publication, which is *)
(* never signed again, or with the first event for the next group of receivers.                       *)
Continue(s, t) ==
    /\ send[s].state \in {"yes", "no"} /\ send[s].last
    /\ t \in race.follows /\ send[t].state = "idle"
    /\ LET q == send[s]
           next == [Unsent EXCEPT !.of = q.of, !.live = q.live, !.excluded = q.excluded]
       IN \E b \in q.todo \union {q.first} :
          send' = [send EXCEPT ![s].last = FALSE,
                               ![t] = Begun([next EXCEPT !.resigned = b = q.first, !.todo = q.todo \ {b}], b)]
    /\ UNCHANGED <<race, health>>

(* send: the routes that became unavailable since are left out of the first batch. *)
Publish(s) ==
    /\ send[s].state = "resolved"
    /\ LET q == send[s]
           first == q.lane["primary"].held.relays \ Unavailable(s)
           begun == [q EXCEPT !.state = "running", !.pending = q.recv, !.timer = race.early,
                              !.lane["primary"].held = IF first = {} THEN NoBatch ELSE [recv |-> q.recv, relays |-> first]]
       IN Store(s, IF race.early /\ ~Current(q) THEN Finish(begun, FALSE) ELSE begun)
    /\ UNCHANGED <<race, health>>

--------------------------------------------------------------------------------
(* The lanes *)

(* launch: a relay that the other lane has tried meanwhile is left out. *)
Launch(q, l, b) ==
    LET extra == IF l = "primary" /\ q.opening THEN race.mirrors \ Candidates ELSE {}
        relays == (b.relays \union extra) \ q.tried
        told == [LaneAt(q, l, "sending") EXCEPT
                   !.opening = IF l = "primary" THEN FALSE ELSE @, !.tried = @ \union relays,
                   !.answer = [r \in Targets |-> IF r \in relays THEN "asked" ELSE q.answer[r]],
                   !.pubs = @ \union {[by |-> l, recv |-> b.recv, relays |-> relays, report |-> "open"]}]
    IN IF relays = {} THEN LaneAt(q, l, "ready") ELSE told

(* Cancelled relays answer for the reason of the cancellation, which no other relay can mend. *)
Cancelled(q) == [q EXCEPT !.answer = [r \in Targets |-> IF @[r] = "asked" THEN "native" ELSE @[r]],
                          !.pubs = {IF p.report = "open" THEN [p EXCEPT !.report = "settled"] ELSE p : p \in @}]

LaneNext(s, l) ==
    /\ Running(send[s]) /\ send[s].lane[l].at = "ready"
    /\ LET q == send[s]
           next == NextBatches(s, l)
       IN IF race.early
          THEN IF Stopped(q) \/ next = {} THEN Store(s, EndsLane(q, l, Unavailable(s)))
               ELSE \E b \in next : Store(s, Launch(q, l, b))
          ELSE IF next = {} \/ (q.pubs # {} /\ ~Current(q)) THEN Store(s, Finish([q EXCEPT !.shut = Unavailable(s)], FALSE))
               ELSE IF Aborted(q) THEN Store(s, [q EXCEPT !.state = "thrown"])
               ELSE \E b \in next : Store(s, IF q.live = "paused" THEN Finish(Cancelled(Launch(q, l, b)), FALSE) ELSE Launch(q, l, b))
    /\ UNCHANGED <<race, health>>

(* The delay of early fallback runs out. *)
Timer(s) ==
    /\ Running(send[s]) /\ send[s].timer
    /\ Store(s, LaneAt([send[s] EXCEPT !.timer = FALSE], "fallback", "starting"))
    /\ UNCHANGED <<race, health>>

(* fallback: nothing is sent before the device is known to be online. *)
FallbackStarts(s) ==
    /\ Running(send[s]) /\ send[s].lane["fallback"].at = "starting"
    /\ LET q == send[s] IN
       IF Stopped(q) \/ FallbackBatches(s) = {} THEN Store(s, EndsLane(q, "fallback", Unavailable(s)))
       ELSE \E b \in FallbackBatches(s) : Store(s, [q EXCEPT !.lane["fallback"] = [at |-> "opening", held |-> b]])
    /\ UNCHANGED <<race, health>>

--------------------------------------------------------------------------------
(* Answers *)

PubOf(q, r) == CHOOSE p \in q.pubs : r \in p.relays
Heard(q, p) == \A r \in p.relays : q.answer[r] # "asked"
Accepted(q, p) == \E r \in p.relays : q.answer[r] = "ok"
Report(q, p, to) == [q EXCEPT !.pubs = (@ \ {p}) \union {[p EXCEPT !.report = to]}]

(* Mutant: an acceptance of any batch covers everybody. *)
CoverAll(q, p) == IF Running(q) THEN Finish([LaneAt(q, p.by, "ready") EXCEPT !.pending = {}], TRUE) ELSE q

(* The first acceptance of a batch covers the receivers of the batch. *)
Cover(q, p) ==
    IF ~Running(q) THEN q
    ELSE LET covered == [LaneAt(q, p.by, "ready") EXCEPT !.pending = @ \ p.recv]
         IN IF covered.pending = {} THEN Finish(covered, TRUE) ELSE covered

(* No relay of a batch accepted: with a failure of the event's own nothing else is tried. *)
Rejected(s, q, p) ==
    LET failed == Failed(q, p.relays)
        native == \E r \in p.relays : q.answer[r] \notin Replaceable
        others == [q EXCEPT !.excluded = @ \union failed]
    IN IF ~Running(q) THEN q
       ELSE IF race.early THEN IF native THEN LaneAt([q EXCEPT !.blocked = TRUE], p.by, "ready") ELSE Asking(q, p)
       ELSE IF native \/ failed = {} THEN Finish([others EXCEPT !.blocked = TRUE], FALSE)
       ELSE IF StagedBatches(s) = {} THEN Finish([others EXCEPT !.shut = Unavailable(s)], FALSE)
       ELSE Asking(others, p)

(* The report of a publication is complete: acceptances count at once, the failures beside an acceptance *)
(* after the device is known to be online.  Sequential routing counts the failures of a batch at once.    *)
Settle(s, q, p) ==
    LET late == /\ Failed(q, p.relays) # {} /\ Current(q)
                /\ Accepted(q, p) \/ (race.early /\ Over(q) /\ q.pending = {})
        told == IF Accepted(q, p) THEN q ELSE Rejected(s, q, p)
        credited == Credited(health, q, p.relays)
    IN /\ Store(s, Report(told, p, IF late THEN "probing" ELSE "settled"))
       /\ health' = IF ~race.early /\ ~Accepted(q, p) THEN Blamed(credited, q, p.relays) ELSE credited

(* A relay answers.  When all refuse for want of a fresh event, the event may be signed again, once. *)
Answer(s, r, v) ==
    /\ send[s].answer[r] = "asked"
    /\ LET p == PubOf(send[s], r)
           heard == [send[s] EXCEPT !.answer[r] = v]
           q == IF v = "ok" /\ ~Accepted(send[s], p) THEN Cover(heard, p) ELSE heard
       IN IF ~Heard(q, p) THEN Store(s, q) /\ health' = health
          ELSE \/ Settle(s, q, p)
               \/ /\ race.resigns # "never" /\ ~q.resigned /\ ~Accepted(q, p) /\ \A t \in p.relays : q.answer[t] \in {"refused", "native"}
                  /\ Store(s, Report([q EXCEPT !.resigned = TRUE], p, "signing")) /\ health' = health
    /\ UNCHANGED race

(* getRetryEvent returned a fresh event: the same relays are asked again, unless the send was cancelled. *)
Resigned(s, p) ==
    /\ p \in send[s].pubs /\ p.report = "signing"
    /\ LET q == send[s]
       IN IF q.live \in {"aborted", "paused"}
          THEN Settle(s, [q EXCEPT !.answer = [r \in Targets |-> IF r \in p.relays THEN "native" ELSE @[r]]], p)
          ELSE /\ Store(s, Report([q EXCEPT !.answer = [r \in Targets |-> IF r \in p.relays THEN "asked" ELSE @[r]]], p, "open"))
               /\ health' = health
    /\ UNCHANGED race

(* It threw: the send is rejected, and this report is never settled. *)
ResignFails(s, p) ==
    /\ p \in send[s].pubs /\ p.report = "signing"
    /\ race.resigns = "may fail"
    /\ LET q == send[s] IN Store(s, Report(IF Running(q) THEN [q EXCEPT !.state = "thrown", !.timer = FALSE] ELSE q, p, "lost"))
    /\ UNCHANGED <<race, health>>

--------------------------------------------------------------------------------
(* isOnline *)

(* One probe serves the lanes that wait for it.  A device that is offline ends them both; else the relays *)
(* that failed are replaced.                                                                            *)
Waiting(q) == {l \in Lanes : q.lane[l].at \in {"opening", "asking"}}
Probe(s, connected) ==
    /\ Running(send[s]) /\ Waiting(send[s]) # {}
    /\ LET q == send[s]
           on == connected /\ Current(q)
           asking == {l \in Waiting(q) : q.lane[l].at = "asking"}
           failed == UNION {q.lane[l].held.relays : l \in asking}
           heard == [q EXCEPT !.offline = @ \/ (Current(q) /\ ~connected),
                              !.lane = [l \in Lanes |-> IF l \in asking THEN [at |-> "ready", held |-> NoBatch]
                                                          ELSE IF l \in Waiting(q) THEN [@[l] EXCEPT !.at = "ready"] ELSE @[l]]]
           told == IF on THEN Remembered(heard, failed) ELSE heard
       IN IF race.early
          THEN /\ Store(s, IF q.lane["fallback"].at = "opening" /\ ~on THEN EndsLane(told, "fallback", {}) ELSE told)
               /\ health' = IF on THEN Blamed(health, q, failed) ELSE health
          ELSE /\ Store(s, IF on THEN heard ELSE Finish([heard EXCEPT !.offline = TRUE], FALSE))
               /\ health' = health
    /\ UNCHANGED race

(* Failures beside an acceptance inform later sends. *)
LateProbe(s, p, connected) ==
    /\ p \in send[s].pubs /\ p.report = "probing"
    /\ LET q == Report(send[s], p, "settled")
           on == connected /\ Current(q)
       IN /\ Store(s, IF on THEN Remembered(q, p.relays) ELSE q)
          /\ health' = IF on THEN Blamed(health, q, p.relays) ELSE health
    /\ UNCHANGED race

--------------------------------------------------------------------------------
(* The messenger *)

Together(s) == {t \in Sends : send[t].of = s}

(* The channel is removed: a send stops at its next step. *)
RemoveChannel(s) ==
    /\ send[s].of = s /\ Current(send[s]) /\ race.interrupts > 0
    /\ send' = [t \in Sends |-> IF t \in Together(s) THEN [send[t] EXCEPT !.live = "gone"] ELSE send[t]]
    /\ race' = [race EXCEPT !.interrupts = @ - 1]
    /\ UNCHANGED health

(* The caller aborts, or the messenger pauses: publications are cancelled, and a race ends at once. *)
Interrupt(s, how) ==
    /\ send[s].of = s /\ Current(send[s]) /\ race.interrupts > 0
    /\ LET open(t) == {p \in send[t].pubs : p.report = "open"}
           lost(t) == IF race.early THEN {} ELSE UNION {p.relays : p \in {x \in open(t) : ~Accepted(send[t], x)}}
           stopped(t) ==
               LET q == [send[t] EXCEPT !.live = how]
               IN IF Running(q) /\ (race.early \/ lost(t) # {}) THEN Finish(Cancelled(q), FALSE) ELSE Cancelled(q)
           credited == [r \in Targets |-> IF \E t \in Together(s) : \E p \in open(t) : r \in p.relays /\ send[t].answer[r] = "ok"
                                         THEN Healthy ELSE health[r]]
           waits == {t \in Together(s) : lost(t) # {}}    \* the last one at most
       IN /\ send' = [t \in Sends |-> IF t \in Together(s) THEN stopped(t) ELSE send[t]]
          /\ health' = IF waits = {} THEN credited ELSE LET t == CHOOSE t \in waits : TRUE IN Blamed(credited, send[t], lost(t))
    /\ race' = [race EXCEPT !.interrupts = @ - 1]

(* A cooldown ends: one publication may probe the relay. *)
Cool(r) ==
    /\ Excluded(r) /\ race.cools > 0
    /\ health' = [health EXCEPT ![r].circuit = "half"]
    /\ race' = [race EXCEPT !.cools = @ - 1]
    /\ UNCHANGED send

SRInit ==
    /\ race \in Races
    /\ health = [r \in Targets |-> IF r \in race.open THEN [fails |-> 0, circuit |-> "open"] ELSE Healthy]
    /\ send = [s \in Sends |-> Unsent]

SRNext ==
    \/ \E s \in Sends : Resolve(s) \/ Publish(s) \/ Timer(s) \/ FallbackStarts(s)
    \/ \E s, t \in Sends : Continue(s, t)
    \/ \E s \in Sends, l \in Lanes : LaneNext(s, l)
    \/ \E s \in Sends, r \in Targets, v \in race.answers : Answer(s, r, v)
    \/ \E s \in Sends : \E p \in send[s].pubs : Resigned(s, p) \/ ResignFails(s, p)
    \/ \E s \in Sends, connected \in BOOLEAN : Probe(s, connected)
    \/ \E s \in Sends, connected \in BOOLEAN : \E p \in send[s].pubs : LateProbe(s, p, connected)
    \/ \E s \in Sends, how \in {"aborted", "paused"} : Interrupt(s, how)
    \/ \E s \in Sends : RemoveChannel(s)
    \/ \E r \in Targets : Cool(r)

(* Relays answer or time out (sendEvent), probes and signatures end, and promises run on. *)
SRFairness == \A s \in Sends :
    /\ WF_rvars(Publish(s) \/ FallbackStarts(s) \/ \E l \in Lanes : LaneNext(s, l))
    /\ WF_rvars(\E r \in Targets, v \in race.answers : Answer(s, r, v))
    /\ WF_rvars(\E p \in send[s].pubs : Resigned(s, p) \/ ResignFails(s, p))
    /\ WF_rvars(\E connected \in BOOLEAN : Probe(s, connected))
    /\ WF_rvars(\E connected \in BOOLEAN : \E p \in send[s].pubs : LateProbe(s, p, connected))

SRSpec == SRInit /\ [][SRNext]_rvars /\ SRFairness

--------------------------------------------------------------------------------
(* Properties *)

SRTypeOK ==
    /\ \A r \in Targets : health[r].circuit \in {"closed", "open", "half"} /\ health[r].fails \in 0..Threshold
    /\ \A s \in Sends : LET q == send[s] IN
        /\ q.state \in {"idle", "refused", "resolved", "running", "yes", "no", "thrown"}
        /\ q.flag \in {"none", "available", "online"} /\ q.live \in {"yes", "aborted", "paused", "gone"}
        /\ q.pending \subseteq q.recv /\ q.recv \subseteq Receivers
        /\ q.tried \union q.shut \subseteq Targets /\ q.excluded \subseteq Candidates
        /\ \A p \in q.pubs : p.report \in {"open", "signing", "probing", "settled", "lost"} /\ p.relays \subseteq q.tried

Covered(s) ==
    \A p \in send[s].recv : \E r \in RoutesOf(p) \union race.mirrors : send[s].answer[r] = "ok"

(* A send that succeeded was accepted, for each receiver of its ciphertext, by a relay that the receiver   *)
(* reads or by a mirror of the channel (session/README.md:206-208).  A prepared publication whose first     *)
(* batch mixes the relays of several receivers is left out: private-channel/index.js:716 hands them over    *)
(* as one batch, see CoverageIsRealAlways.                                                                 *)
CoverageIsReal == SRTypeOK /\ \A s \in Sends : send[s].state = "yes" /\ send[s].whole => Covered(s)

(* The same of every send. *)
CoverageIsRealAlways == \A s \in Sends : send[s].state = "yes" => Covered(s)

(* A failure that nothing will retry is final: the event was refused for its own sake, or every route of a *)
(* receiver without an acceptance was tried, or was cooling down when it was looked for, in whatever order  *)
(* the delay, the two lanes, the answers and the probes came (session/README.md:254-255).                  *)
FailureIsFinal ==
    \A s \in Sends : LET q == send[s] IN
        q.state = "no" /\ q.flag = "none" /\ ~Aborted(q) =>
            q.blocked \/ \A p \in q.pending : RoutesOf(p) \subseteq q.tried \union q.excluded \union q.shut

(* A send ends, and its reports with it, whoever fails, is cancelled or answers after the end.  Only the    *)
(* report of an event that could not be signed again never settles (fallback-race.js:75-79).               *)
Ended == \A s \in Sends :
    ~Running(send[s]) /\ (Over(send[s]) => \A p \in send[s].pubs : p.report \in {"settled", "lost"})
(* Every report settles: the caller of a send that failed waits for it (helpers/publication.js:110). *)
ReportsSettle ==
    \A s \in Sends : send[s].state = "no" ~> \A p \in send[s].pubs : p.report = "settled"

(* A circuit that opened stays open until its cooldown ends or the relay accepts a publication. *)
CircuitHolds ==
    [][\A r \in Targets : Excluded(r) => health'[r].circuit \in {"open", "half"} \/ \E s \in Sends : send'[s].answer[r] = "ok"]_rvars
================================================================================
