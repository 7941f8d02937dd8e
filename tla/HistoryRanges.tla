----------------------------- MODULE HistoryRanges -----------------------------
(***************************************************************************)
(* How private-messenger reads one pending range of a channel's history:    *)
(* pages of each relay (private-channel/helpers/history.js), what each      *)
(* relay has covered over several passes, the retries it is allowed, the    *)
(* priority windows read first over hedged relays, and what seeders are     *)
(* asked for in place of the relays.                                        *)
(*                                                                         *)
(* The range is 1..Newest; an event is a second and a number, and the relays' *)
(* contents are fixed.  The delay of a retry and of a hedge is any delay.  A    *)
(* failure is transient, or, where the plan says lasting, permanent or unknown,  *)
(* or there is no network.                                                      *)
(***************************************************************************)
EXTENDS Integers, Sequences, FiniteSets, FiniteSetsExt

CONSTANTS
    Relays, Newest,
    PageSize, MaxPage,  \* PAGE_SIZE and MAX_PAGE_SIZE
    Budget,             \* RECOVERY_RELAY_RETRY_LIMITS, by tier
    Plans               \* a behaviour's relay contents and bounds

Span == 1..Newest

ASSUME ConstantsAssumption ==
    /\ Newest \in Nat \ {0} /\ PageSize \in Nat \ {0} /\ MaxPage \in Nat /\ MaxPage >= PageSize
    /\ \A t \in {"partial", "emptyEose", "allFailed"} : Budget[t] \in Nat /\ Budget[t] \in Budget["partial"]..Budget["allFailed"]
    /\ Budget["partial"] > 0
ASSUME PlansAssumption ==
    /\ Plans \subseteq [world: [Relays -> SUBSET (Span \X Nat)], fails: Nat, windows: Nat, aborts: Nat, restarts: Nat,
                         changes: Nat, asks: Nat, seeders: BOOLEAN, lasting: BOOLEAN]
    /\ \A p \in Plans, r \in Relays : IsFiniteSet(p.world[r])

VARIABLES
    plan,       \* the relays' contents (world) and what is left of the bounds
    urls,       \* the channel's relays
    record,     \* recoveryRanges' record of the range
    stage,      \* where the pass is: idle (due), lane, ask, main, final (blocked: after a refusal),
                \* pending (kept, no timer) or complete
    window,     \* recoveryPriority: seconds the application wants first
    wanted,     \* of these, the seconds the lane is after
    fetches,    \* fetchHistory calls under way, by role
    hedges,     \* relays the lane may still hedge to
    processed,  \* events taken in
    asked,      \* ghost: seconds seeders were asked for
    tries       \* ghost: passes that a relay of the record failed, up to allFailed's limit, and how it was given up

vars == <<plan, urls, record, stage, window, wanted, fetches, hedges, processed, asked, tries>>

--------------------------------------------------------------------------------
At(r, S) == {e \in plan.world[r] : e[1] \in S}
Seconds(iv) == iv.from..iv.to

RunOf(S, t) == {x \in S : \A y \in Min({x, t})..Max({x, t}) : y \in S}
Runs(S) == {RunOf(S, t) : t \in S}
Interval(run) == [from |-> Min(run), to |-> Max(run), limit |-> PageSize]

(* resumeIntervalsFor: the newest run is read first. *)
Intervals(S) == [i \in 1..Cardinality(Runs(S)) |->
    Interval(CHOOSE run \in Runs(S) : Cardinality({x \in Runs(S) : Min(x) <= Min(run)}) = i)]

(* recoveryRangeRecord and reconcileRecoveryRelays *)
NewRelay == [pending |-> Span, covered |-> {}, attempts |-> 0, dead |-> FALSE, eose |-> FALSE, some |-> FALSE]
Untried == [passes |-> 0, refused |-> FALSE, thrown |-> FALSE]
NewRecord == [covered |-> {}, claimed |-> {}, oldest |-> 0, anyEose |-> FALSE, anyEvents |-> FALSE,
              relays |-> [r \in {} |-> NewRelay]]
Reconciled(rec) == [rec EXCEPT !.relays = [r \in urls |-> IF r \in DOMAIN rec.relays THEN rec.relays[r] ELSE NewRelay]]

(* orderedRecoveryRelays *)
Readable(rec) == {r \in DOMAIN rec.relays : ~rec.relays[r].dead /\ ~rec.relays[r].eose /\ rec.relays[r].pending # {}}
Active(rec) == Readable(rec) # {}
Tier(rec) == IF rec.anyEvents THEN "partial" ELSE IF rec.anyEose THEN "emptyEose" ELSE "allFailed"
Older(a, S) == IF S = {} THEN a ELSE IF a = 0 THEN Min(S) ELSE Min({a} \union S)

--------------------------------------------------------------------------------
(* fetchHistory: relays one after another, intervals as a stack. *)
Roles == {"first", "second", "main"}
NoFetch == [on |-> FALSE, todo |-> {}, resume |-> [r \in {} |-> {}], relay |-> "none", stack |-> <<>>,
            covered |-> {}, some |-> FALSE, oldest |-> 0, report |-> {}, broken |-> "no", stray |-> FALSE]
Fetch(resume) == [NoFetch EXCEPT !.on = TRUE, !.todo = DOMAIN resume, !.resume = resume]

Top(f) == f.stack[Len(f.stack)]
Popped(f) == SubSeq(f.stack, 1, Len(f.stack) - 1)
Left(stack) == UNION {Seconds(stack[i]) : i \in DOMAIN stack}

(* The newest events of the interval, as many as the limit. *)
Page(r, iv) ==
    LET found == At(r, Seconds(iv))
        newer(e) == {x \in found : x[1] > e[1] \/ (x[1] = e[1] /\ x[2] > e[2])}
    IN {e \in found : Cardinality(newer(e)) < iv.limit}
SaturatedOver(r, iv) == Cardinality(Page(r, iv)) > iv.limit

Saturated(r, iv) == Cardinality(Page(r, iv)) = iv.limit

NextRelay(k) ==
    /\ fetches[k].on /\ fetches[k].relay = "none" /\ fetches[k].broken = "no"
    /\ \E r \in fetches[k].todo :
           fetches' = [fetches EXCEPT ![k] = [fetches[k] EXCEPT !.relay = r, !.todo = @ \ {r}, !.stack = Intervals(fetches[k].resume[r]),
                                                       !.covered = {}, !.some = FALSE]]
    /\ UNCHANGED <<plan, urls, record, stage, window, wanted, hedges, processed, asked, tries>>

(* One entry of the call's report. *)
Reported(f, status, refused) ==
    [f EXCEPT !.relay = "none", !.stack = <<>>,
              !.report = @ \union {[relay |-> f.relay, status |-> status, refused |-> refused, covered |-> f.covered,
                                    pending |-> Left(f.stack), some |-> f.some]}]

RelayRead(k) ==
    /\ fetches[k].relay # "none" /\ fetches[k].stack = <<>> /\ fetches[k].broken = "no"
    /\ fetches' = [fetches EXCEPT ![k] = Reported(@, "eose", FALSE)]
    /\ UNCHANGED <<plan, urls, record, stage, window, wanted, hedges, processed, asked, tries>>

Process(f, events) == [f EXCEPT !.some = @ \/ events # {}, !.oldest = Older(@, {e[1] : e \in events})]

(* A page below its limit covers its interval; a full one is read in halves, and  *)
(* a full second with a larger limit, up to a ceiling.                            *)
PageRead(k) ==
    LET f == fetches[k] iv == Top(f) mid == (iv.from + iv.to) \div 2 page == Page(f.relay, iv) IN
    /\ f.relay # "none" /\ f.stack # <<>> /\ f.broken = "no"
    /\ \/ /\ ~Saturated(f.relay, iv)
          /\ fetches' = [fetches EXCEPT ![k] = [Process(f, page) EXCEPT !.stack = Popped(f), !.covered = @ \union Seconds(iv)]]
          /\ processed' = processed \union page
       \/ /\ Saturated(f.relay, iv) /\ iv.from < iv.to
          /\ fetches' = [fetches EXCEPT ![k].stack = Popped(f) \o
                            <<[iv EXCEPT !.from = mid + 1, !.limit = PageSize], [iv EXCEPT !.to = mid, !.limit = PageSize]>>]
          /\ UNCHANGED processed
       \/ /\ Saturated(f.relay, iv) /\ iv.from = iv.to /\ iv.limit < MaxPage
          /\ fetches' = [fetches EXCEPT ![k].stack = Append(Popped(f), [iv EXCEPT !.limit = @ * 2])]
          /\ UNCHANGED processed
       \/ /\ Saturated(f.relay, iv) /\ iv.from = iv.to /\ iv.limit >= MaxPage
          /\ fetches' = [fetches EXCEPT ![k] = Reported(Process(f, page), "error", TRUE)]
          /\ processed' = processed \union page
    /\ UNCHANGED <<plan, urls, record, stage, window, wanted, hedges, asked, tries>>

(* The read fails, with or without part of its page; the relay may refuse for good. *)
PageFails(k) ==
    LET f == fetches[k] IN
    /\ f.relay # "none" /\ f.stack # <<>> /\ f.broken = "no" /\ plan.fails > 0
    /\ plan' = [plan EXCEPT !.fails = @ - 1]
    /\ \E part \in {{}, Page(f.relay, Top(f))}, refused \in {FALSE, plan.lasting} :
           /\ fetches' = [fetches EXCEPT ![k] = Reported(Process(f, part), "error", refused)]
           /\ processed' = processed \union part
    /\ UNCHANGED <<urls, record, stage, window, wanted, hedges, asked, tries>>

(* Taking in a page, of a read that failed or not, throws midway: an event that is not *)
(* valid, or a store that fails.  The whole call throws, and its report is lost.        *)
Before(page, e) == {x \in page : x[1] < e[1] \/ (x[1] = e[1] /\ x[2] < e[2])}
ProcessFails(k) ==
    LET f == fetches[k] page == Page(f.relay, Top(f)) IN
    /\ f.relay # "none" /\ f.stack # <<>> /\ f.broken = "no" /\ plan.fails > 0
    /\ plan' = [plan EXCEPT !.fails = @ - 1]
    /\ \E e \in page, broken \in {"failed"} \union (IF plan.lasting THEN {"invalid"} ELSE {}) :
           /\ fetches' = [fetches EXCEPT ![k].broken = broken]
           /\ processed' = processed \union Before(page, e)
    /\ UNCHANGED <<urls, record, stage, window, wanted, hedges, asked, tries>>

ReadOut(f) == f.on /\ f.relay = "none" /\ f.todo = {} /\ f.broken = "no"
Threw(f) == f.on /\ f.broken # "no"

--------------------------------------------------------------------------------
UpdatedByProbe(rec, f, main) ==
    LET covered == rec.covered \union UNION {x.covered : x \in f.report}
        entry(r) == CHOOSE x \in f.report : x.relay = r
        after(r, x) ==
            LET s == rec.relays[r]
                done == x.status = "eose" /\ x.pending = {}
            IN [s EXCEPT !.covered = @ \union x.covered, !.eose = done,
                         !.pending = IF done THEN {} ELSE Span \ (s.covered \union x.covered \union rec.claimed),
                         !.some = @ \/ x.some, !.attempts = IF done THEN 0 ELSE @]
        relays == [r \in DOMAIN rec.relays |-> IF \E x \in f.report : x.relay = r THEN after(r, entry(r)) ELSE rec.relays[r]]
        ends == {x.relay : x \in {y \in f.report : y.status = "eose"}} \intersect DOMAIN relays
    IN [rec EXCEPT !.covered = covered, !.relays = relays,
                   !.oldest = IF f.oldest = 0 THEN @ ELSE Older(@, {f.oldest}),
                   !.anyEose = @ \/ ends # {}, !.anyEvents = @ \/ \E r \in ends : relays[r].some]

(* updateRecoveryRecord, from a main pass or from a priority probe. *)
Updated(rec, f, main) ==
    LET covered == rec.covered \union UNION {x.covered : x \in f.report}
        entry(r) == CHOOSE x \in f.report : x.relay = r
        after(r, x) ==
            LET s == rec.relays[r]
                done == main /\ x.status = "eose" /\ x.pending = {}
            IN [s EXCEPT !.covered = @ \union x.covered, !.eose = done,
                         !.pending = IF done THEN {} ELSE Span \ (s.covered \union x.covered \union rec.claimed),
                         !.some = @ \/ x.some, !.attempts = IF done THEN 0 ELSE @]
        relays == [r \in DOMAIN rec.relays |-> IF \E x \in f.report : x.relay = r THEN after(r, entry(r)) ELSE rec.relays[r]]
        ends == {x.relay : x \in {y \in f.report : y.status = "eose"}} \intersect DOMAIN relays
    IN [rec EXCEPT !.covered = covered, !.relays = relays,
                   !.oldest = IF f.oldest = 0 THEN @ ELSE Older(@, {f.oldest}),
                   !.anyEose = @ \/ ends # {}, !.anyEvents = @ \/ \E r \in ends : relays[r].some]

(* applyRecoveryRetryBudget *)
Budgeted(rec, f) ==
    [rec EXCEPT !.relays = [r \in DOMAIN @ |->
        IF r \notin Readable(rec) THEN @[r]
        ELSE LET n == @[r].attempts + 1 IN
             [@[r] EXCEPT !.attempts = n,
                          !.dead = n >= Budget[Tier(rec)] \/ \E x \in f.report : x.relay = r /\ x.refused]]]

(* applyRecoveryCoverage *)
Claimed(rec, S) ==
    LET claim(x) == IF x.eose THEN x ELSE [x EXCEPT !.pending = Span \ (x.covered \union rec.claimed \union S)]
    IN [rec EXCEPT !.claimed = @ \union S, !.covered = @ \union S, !.relays = [r \in DOMAIN @ |-> claim(@[r])]]

--------------------------------------------------------------------------------
(* A pass begins: the record follows the channel's relays, and the lane is after *)
(* what the priority windows still miss.                                         *)
PassStarts ==
    /\ stage = "idle"
    /\ LET rec == Reconciled(record)
           want == window \ rec.covered
           useful == {r \in Readable(rec) : rec.relays[r].pending \intersect want # {}} IN
       /\ record' = rec
       /\ IF want = {}
          THEN stage' = "main" /\ UNCHANGED <<wanted, fetches, hedges>>
          ELSE IF useful = {}
          THEN stage' = "ask" /\ wanted' = want /\ UNCHANGED <<fetches, hedges>>
          ELSE \E r \in useful : \E q \in {<<>>} \union {<<x>> : x \in useful \ {r}} :
               /\ Cardinality(useful) > 1 => q # <<>>
               /\ stage' = "lane" /\ wanted' = want /\ hedges' = q
               /\ fetches' = [fetches EXCEPT !["first"] = IF fetches["first"].on THEN @ ELSE
                                [Fetch([x \in {r} |-> rec.relays[r].pending \intersect want]) EXCEPT !.stray = FALSE]]
    /\ UNCHANGED <<plan, urls, window, processed, asked, tries>>

(* The hedge's timer, or the first relay's read throwing before it. *)
Hedge ==
    /\ stage = "lane" /\ hedges # <<>> /\ ~fetches["second"].on
    /\ hedges' = <<>>
    /\ fetches' = [fetches EXCEPT !["second"] = Fetch([x \in {Head(hedges)} |-> record.relays[x].pending \intersect wanted]),
                                  !["first"] = IF Threw(@) THEN NoFetch ELSE @]
    /\ UNCHANGED <<plan, urls, record, stage, window, wanted, processed, asked, tries>>

(* The first answer wins, whatever it read, and the other relay is aborted. *)
LaneWon(k) ==
    /\ stage = "lane" /\ k # "main" /\ ReadOut(fetches[k]) /\ ~fetches[k].stray
    /\ record' = Updated(record, fetches[k], FALSE)
    /\ fetches' = [fetches EXCEPT !["first"] = NoFetch, !["second"] = NoFetch]
    /\ hedges' = <<>>
    /\ stage' = "ask"
    /\ UNCHANGED <<plan, urls, window, wanted, processed, asked, tries>>

(* The hedge threw: nobody waits for the first relay any more, and it goes on. *)
LaneLost ==
    /\ stage = "lane" /\ hedges = <<>>
    /\ \/ Threw(fetches["second"])
       \/ Threw(fetches["first"]) /\ ~fetches["second"].on
    /\ fetches' = [fetches EXCEPT !["second"] = NoFetch,
                                  !["first"] = IF Threw(@) THEN NoFetch ELSE [@ EXCEPT !.stray = fetches["first"].on]]
    /\ stage' = "ask"
    /\ UNCHANGED <<plan, urls, record, window, wanted, hedges, processed, asked, tries>>

FirstThrew ==
    /\ stage = "lane" /\ fetches["second"].on /\ Threw(fetches["first"])
    /\ fetches' = [fetches EXCEPT !["first"] = NoFetch]
    /\ UNCHANGED <<plan, urls, record, stage, window, wanted, hedges, processed, asked, tries>>

StrayEnds ==
    /\ fetches["first"].stray /\ (ReadOut(fetches["first"]) \/ Threw(fetches["first"]))
    /\ fetches' = [fetches EXCEPT !["first"] = NoFetch]
    /\ UNCHANGED <<plan, urls, record, stage, window, wanted, hedges, processed, asked, tries>>

(* askPrioritySeeders: what the lane still misses, of seeders lately seen; an ask *)
(* that was published counts.                                                     *)
LaneAsks ==
    /\ stage = "ask"
    /\ stage' = "main" /\ wanted' = {}
    /\ LET missing == wanted \ record.covered IN
       \E claim \in {{}} \union (IF plan.seeders THEN SUBSET Runs(missing) ELSE {}) :
           /\ record' = Claimed(record, UNION claim)
           /\ asked' = asked \union UNION claim
           /\ window' = IF window \subseteq record'.covered THEN {} ELSE window
    /\ UNCHANGED <<plan, urls, fetches, hedges, processed, tries>>

--------------------------------------------------------------------------------
(* The main pass reads what each relay still owes. *)
MainStarts ==
    /\ stage = "main" /\ ~fetches["main"].on
    /\ IF Active(record)
       THEN stage' = "main" /\ fetches' = [fetches EXCEPT !["main"] = Fetch([r \in Readable(record) |-> record.relays[r].pending])]
       ELSE stage' = "final" /\ UNCHANGED fetches
    /\ UNCHANGED <<plan, urls, record, window, wanted, hedges, processed, asked, tries>>

MainEnds ==
    /\ stage = "main" /\ ReadOut(fetches["main"])
    /\ LET rec == Updated(record, fetches["main"], TRUE) IN
       /\ record' = Budgeted(rec, fetches["main"])
       /\ tries' = [r \in Relays |-> IF r \in Readable(rec)
                                     THEN [tries[r] EXCEPT !.passes = Min({@ + 1, Budget["allFailed"]}),
                                                                 !.refused = @ \/ \E x \in fetches["main"].report : x.relay = r /\ x.refused]
                                     ELSE tries[r]]
    /\ fetches' = [fetches EXCEPT !["main"] = NoFetch]
    /\ stage' = IF Active(record') THEN "idle" ELSE IF \E x \in fetches["main"].report : x.refused THEN "blocked" ELSE "final"
    /\ UNCHANGED <<plan, urls, window, wanted, hedges, processed, asked>>

(* The read threw: an abort or a passing failure leaves the record as it was, and the  *)
(* pass is tried again; a permanent one gives up every relay, and no timer follows.    *)
MainThrew ==
    /\ stage = "main" /\ Threw(fetches["main"])
    /\ fetches' = [fetches EXCEPT !["main"] = NoFetch]
    /\ \/ /\ fetches["main"].broken # "invalid"
          /\ stage' = "idle" /\ UNCHANGED <<record, tries>>
       \/ /\ fetches["main"].broken = "invalid"
          /\ stage' = "pending"
          /\ record' = [record EXCEPT !.relays = [r \in DOMAIN @ |-> [@[r] EXCEPT !.dead = TRUE]]]
          /\ tries' = [r \in Relays |-> [tries[r] EXCEPT !.thrown = @ \/ r \in DOMAIN record.relays]]
    /\ UNCHANGED <<plan, urls, window, wanted, hedges, processed, asked>>

(* finalizeRecoveryRange: every seeder is asked for what no relay covered, and for *)
(* all that is not newer than the oldest event.  An ask that fails, or no network,  *)
(* keeps the range: a timer follows only after transient failures and no refusal.   *)
LeftEdge == IF record.oldest = 0 THEN Span ELSE IF record.oldest > 1 THEN 1..record.oldest ELSE {}
Finalize ==
    /\ stage \in {"final", "blocked"}
    /\ \/ /\ asked' = asked \union (Span \ record.covered) \union LeftEdge
          /\ stage' = "complete" /\ UNCHANGED plan
       \/ /\ plan.asks > 0 /\ plan' = [plan EXCEPT !.asks = @ - 1]
          /\ \E some \in SUBSET Runs((Span \ record.covered) \union LeftEdge) : asked' = asked \union UNION some
          /\ stage' \in (IF stage = "final" THEN {"idle"} ELSE {"pending"}) \union (IF plan.lasting THEN {"pending"} ELSE {})
    /\ UNCHANGED <<urls, record, window, wanted, fetches, hedges, processed, tries>>

(* A pass without network leaves the range; a timer follows if a relay is still to be read. *)
PassOffline ==
    /\ stage = "idle" /\ plan.asks > 0 /\ plan.lasting
    /\ plan' = [plan EXCEPT !.asks = @ - 1]
    /\ stage' = IF Active(record) THEN "idle" ELSE "pending"
    /\ UNCHANGED <<urls, record, window, wanted, fetches, hedges, processed, asked, tries>>

(* A watch, a resume or an interruption that ended schedules a pass. *)
Triggered ==
    /\ stage = "pending" /\ stage' = "idle"
    /\ UNCHANGED <<plan, urls, record, window, wanted, fetches, hedges, processed, asked, tries>>

--------------------------------------------------------------------------------
(* prioritizeRange *)
Prioritize ==
    /\ plan.windows > 0 /\ stage # "complete"
    /\ plan' = [plan EXCEPT !.windows = @ - 1]
    /\ \E from \in Span : \E to \in from..Newest : window' = window \union (from..to)
    /\ UNCHANGED <<urls, record, stage, wanted, fetches, hedges, processed, asked, tries>>

(* A live subscription was interrupted: reads under way are aborted, the pass goes on. *)
Interrupted ==
    /\ plan.aborts > 0 /\ \E k \in Roles : fetches[k].on
    /\ plan' = [plan EXCEPT !.aborts = @ - 1]
    /\ fetches' = [k \in Roles |-> IF fetches[k].on /\ fetches[k].broken = "no" THEN [fetches[k] EXCEPT !.broken = "aborted"] ELSE fetches[k]]
    /\ UNCHANGED <<urls, record, stage, window, wanted, hedges, processed, asked, tries>>

(* A pause ends the pass. *)
Paused ==
    /\ plan.aborts > 0 /\ stage \notin {"idle", "pending", "complete"}
    /\ plan' = [plan EXCEPT !.aborts = @ - 1]
    /\ fetches' = [k \in Roles |-> NoFetch]
    /\ hedges' = <<>> /\ wanted' = {}
    /\ stage' = "idle"
    /\ UNCHANGED <<urls, record, window, processed, asked, tries>>

(* The process restarts, or the range is extended and becomes another. *)
Forgotten ==
    /\ plan.restarts > 0 /\ stage \in {"idle", "pending"} /\ stage' = "idle"
    /\ plan' = [plan EXCEPT !.restarts = @ - 1]
    /\ record' = NewRecord /\ window' = {}
    /\ fetches' = [k \in Roles |-> NoFetch]
    /\ tries' = [r \in Relays |-> Untried]
    /\ UNCHANGED <<urls, wanted, hedges, processed, asked>>

(* The channel's relays change: a relay that left is read anew when it returns. *)
RelaysChange ==
    /\ plan.changes > 0 /\ stage \in {"idle", "pending"}
    /\ plan' = [plan EXCEPT !.changes = @ - 1]
    /\ \E S \in SUBSET Relays \ {{}} : S # urls /\ urls' = S /\ tries' = [r \in Relays |-> IF r \in S /\ r \in urls THEN tries[r] ELSE Untried]
    /\ record' = [record EXCEPT !.relays = [r \in DOMAIN @ \intersect urls' |-> @[r]]]
    /\ UNCHANGED <<stage, window, wanted, fetches, hedges, processed, asked>>

--------------------------------------------------------------------------------
Init ==
    /\ plan \in Plans
    /\ urls = Relays
    /\ record = NewRecord /\ stage = "idle"
    /\ window = {} /\ wanted = {}
    /\ fetches = [k \in Roles |-> NoFetch] /\ hedges = <<>>
    /\ processed = {} /\ asked = {} /\ tries = [r \in Relays |-> Untried]

Reading == \E k \in Roles : NextRelay(k) \/ RelayRead(k) \/ PageRead(k)
Lane == Hedge \/ (\E k \in Roles : LaneWon(k)) \/ LaneLost \/ FirstThrew \/ StrayEnds \/ LaneAsks
Main == PassStarts \/ MainStarts \/ MainEnds \/ MainThrew \/ Finalize

Next == Reading \/ Lane \/ Main \/ (\E k \in Roles : PageFails(k) \/ ProcessFails(k)) \/ PassOffline \/ Triggered
        \/ Prioritize \/ Interrupted \/ Paused \/ Forgotten \/ RelaysChange

Spec == Init /\ [][Next]_vars /\ WF_vars(Reading) /\ WF_vars(Lane) /\ WF_vars(Main)

--------------------------------------------------------------------------------
TypeOK ==
    /\ stage \in {"idle", "lane", "ask", "main", "final", "blocked", "pending", "complete"}
    /\ urls \subseteq Relays /\ DOMAIN record.relays \subseteq Relays
    /\ record.claimed \subseteq record.covered /\ record.covered \subseteq Span
    /\ window \subseteq Span /\ wanted \subseteq Span /\ asked \subseteq Span

(* What a relay is said to have covered was taken in, event by event; and what the *)
(* range is said to have covered, some relay covered or a seeder was asked for.     *)
CoveredIsRead ==
    /\ TypeOK
    /\ \A r \in DOMAIN record.relays : At(r, record.relays[r].covered) \subseteq processed
    /\ \A k \in Roles : fetches[k].relay # "none" => At(fetches[k].relay, fetches[k].covered) \subseteq processed
    /\ record.claimed \subseteq asked

Complete == stage = "complete"

(* A range completes only when every event its relays hold was taken in, was asked *)
(* of the seeders, or is on a relay that was given up.                             *)
CompleteIsAccounted ==
    Complete =>
        /\ \A r \in DOMAIN record.relays : ~record.relays[r].dead => \A e \in plan.world[r] : e \in processed \/ e[1] \in asked
        /\ \A s \in Span : (\A e \in processed : e[1] > s) => s \in asked

(* A relay is given up only after a refusal, as many failed passes as the least tier *)
(* allows, or a pass that a permanent failure ended, which gives up every relay        *)
(* (index.js:3616-3618); never for priority probes or passes cut short.                *)
GivenUpInTime ==
    \A r \in DOMAIN record.relays :
        record.relays[r].dead => tries[r].refused \/ tries[r].thrown \/ tries[r].passes >= Budget["partial"]

(* A range that completes leaves nothing unaccounted for, and nobody given up early. *)
RangeIsAccounted == CompleteIsAccounted /\ GivenUpInTime

(* A failure that is permanent or unknown, no network, or a second too dense for any page. *)
Hard == plan.lasting \/ \E r \in Relays, s \in Span : Cardinality(At(r, {s})) >= MaxPage

(* A range completes, or waits with no timer for the next trigger; with failures that pass it     *)
(* completes (README.md:1451-1453, index.js:1800-1838).                                           *)
RangeOver == Complete \/ (stage = "pending" /\ Hard)

(* That a refusal or a dense second keeps the interval pending (README.md:759-763, 1451-1453) is *)
(* not so: once every relay is read or given up the same pass asks the seeders and completes.     *)
RefusedStaysPending == Complete => \A r \in DOMAIN record.relays : ~tries[r].refused

================================================================================
