-------------------------------- MODULE MCLive --------------------------------
(* The live side for TLC: one reader over its relays (LiveReader), the watches of a    *)
(* session over its readers (WatchSession) and the connectivity monitor both wait for  *)
(* (Connectivity).  Each sees the others from outside, and one run explores them side  *)
(* by side.                                                                         *)
EXTENDS LiveReader

VARIABLES
    part,   \* the component that a behaviour is of
    watchPlan, watchNow, watchSeq, watchRequests, watchCalls, watchWatches, watchAt, watchGap, watchOwed, watchAttached,
    watchRecorded, watchForsaken,
    netPlan, netLink, netMonitor, netEntries, netProbe, netReader, netJob

watchVars == <<watchPlan, watchNow, watchSeq, watchRequests, watchCalls, watchWatches, watchAt, watchGap, watchOwed, watchAttached,
    watchRecorded, watchForsaken>>
netVars == <<netPlan, netLink, netMonitor, netEntries, netProbe, netReader, netJob>>

(* One relay with two faults; one with a fault beside a stop, progress markers or a span *)
(* offline; two relays with a fault.                                                  *)
Plan(urls, events, faults, stops, offline, markers, end, slow) ==
    [urls |-> urls, events |-> events, faults |-> faults, stops |-> stops, offline |-> offline,
     markers |-> markers, clock |-> end, slow |-> slow]

MCPlans == {
    Plan({"a"}, 2, 2, {}, FALSE, 0, 1, FALSE),
    Plan({"a"}, 2, 1, {}, FALSE, 1, 2, FALSE),
    Plan({"a"}, 3, 1, {}, FALSE, 0, 0, TRUE),
    Plan({"a"}, 2, 1, {"abort", "drain"}, FALSE, 0, 0, TRUE),
    Plan({"a"}, 1, 1, {"until"}, TRUE, 1, 1, FALSE),
    Plan({"a", "b"}, 1, 1, {}, FALSE, 0, 0, FALSE) }

(* Two channels on one relay: two failures and a refusal, two events and a dropped  *)
(* connection, or one failure over more calls about the channels.                  *)
Watched(events, failures, refusals, changes, drops) ==
    [events |-> events, failures |-> failures, refusals |-> refusals, changes |-> changes, drops |-> drops]
WatchPlans == {Watched(1, 2, 1, 2, 0), Watched(2, 1, 0, 2, 1), Watched(0, 1, 0, 3, 0)}

(* Two readers, a pause recovery, an urgent session and an application, two or three   *)
(* of them at a time, over a network that changes once or twice.                      *)
Net(l, app, jobs, reads, links, slow, sends, focus, fails, stops) ==
    [link |-> l, app |-> app, jobs |-> jobs, reads |-> reads, links |-> links, slow |-> slow,
     sends |-> sends, focus |-> focus, fails |-> fails, stops |-> stops]
NetworkPlans == {
    Net("up", FALSE, 0, 3, 2, 1, 0, 0, 0, 1), Net("off", TRUE, 1, 0, 1, 0, 1, 0, 1, 0),
    Net("captive", TRUE, 0, 1, 1, 1, 1, 1, 0, 0), Net("captive", FALSE, 2, 0, 2, 0, 0, 0, 1, 1),
    Net("up", FALSE, 1, 1, 1, 0, 1, 0, 0, 1)}

Watch == INSTANCE WatchSession WITH
    plan <- watchPlan, now <- watchNow, seq <- watchSeq, requests <- watchRequests, calls <- watchCalls, watches <- watchWatches, at <- watchAt,
    gap <- watchGap, owed <- watchOwed, attached <- watchAttached, recorded <- watchRecorded,
    forsaken <- watchForsaken, Channels <- {"c", "d"}, Relays <- {"r"}, Plans <- WatchPlans
Network == INSTANCE Connectivity WITH
    plan <- netPlan, link <- netLink, monitor <- netMonitor, entries <- netEntries,
    probe <- netProbe, reader <- netReader, job <- netJob, Readers <- {"r1", "r2"}, Steps <- 2,
    Plans <- NetworkPlans

--------------------------------------------------------------------------------
(* One component runs; the others rest in an initial state. *)
PartsInit ==
    /\ part \in {"reader", "watches", "network"}
    /\ Init
    /\ part # "reader" => plan = CHOOSE p \in MCPlans : TRUE
    /\ Watch!Init
    /\ part # "watches" => watchPlan = CHOOSE p \in WatchPlans : TRUE
    /\ Network!Init
    /\ part # "network" => netPlan = CHOOSE p \in NetworkPlans : TRUE

PartsNext ==
    \/ part = "reader" /\ Next /\ UNCHANGED <<part, watchVars, netVars>>
    \/ part = "watches" /\ Watch!Next /\ UNCHANGED <<part, vars, netVars>>
    \/ part = "network" /\ Network!Next /\ UNCHANGED <<part, vars, watchVars>>

(* The fairness of each component, where it runs. *)
ReaderFairness ==
    /\ WF_vars(part = "reader" /\ GoOnline) /\ WF_vars(part = "reader" /\ UntilPasses)
    /\ WF_vars(part = "reader" /\ Consume) /\ WF_vars(part = "reader" /\ End)
    /\ WF_vars(part = "reader" /\ \E u \in Urls : RelayStep(u))
    /\ WF_vars(part = "reader" /\ \E u \in Urls : \E n \in 1..LastOf(u) : AttemptStep(u, n))
WatchFairness ==
    /\ WF_watchVars(part = "watches" /\ Watch!Handle("r"))
    /\ WF_watchVars(part = "watches" /\ \E n \in DOMAIN watchAt["r"].subs : Watch!GoesLive("r", n) \/ Watch!Reconnects("r", n))
NetworkFairness ==
    /\ WF_netVars(part = "network" /\ \E v \in BOOLEAN : Network!JobChecked(v))
    /\ WF_netVars(part = "network" /\ \E v \in BOOLEAN : Network!PoolAnswers(v))
    /\ WF_netVars(part = "network" /\ \E v \in BOOLEAN : Network!Probed(v))
    /\ WF_netVars(part = "network" /\ Network!JobTimer) /\ WF_netVars(part = "network" /\ Network!JobEnds)
    /\ WF_netVars(part = "network" /\ Network!MonitorWakes) /\ WF_netVars(part = "network" /\ Network!MonitorTimer)
    /\ WF_netVars(part = "network" /\ Network!UrgencyEnds)
    /\ \A r \in {"r1", "r2"} : WF_netVars(part = "network" /\ Network!ReaderDelayed(r))
PartsFairness == ReaderFairness /\ WatchFairness /\ NetworkFairness

allVars == <<part, vars, watchVars, netVars>>
PartsSpec == PartsInit /\ [][PartsNext]_allVars /\ PartsFairness

--------------------------------------------------------------------------------
(* Properties, of all the components at once: each is the component's own.      *)

(* LiveReader: no published event is missed for good, events come once and in order, slots come back. *)
StreamIsWhole == part = "reader" => TypeOK /\ NothingMissed /\ InOrder /\ LeasesReturn

(* WatchSession: an event of a channel that was live on a relay lies, at worst, in a gap the channel *)
(* knows of, or was lost with a subscription that was replaced.                                      *)
NoSilentGap == part = "watches" => Watch!NoSilentGap

(* Once relays and network stop failing, and for good: every relay of a stream that goes on is back *)
(* with its gap recovered (LiveReader), no relay of a session is in recovery (WatchSession), and      *)
(* all who wait for the network go on (Connectivity).                                             *)
AllResume ==
    <>[](/\ part = "reader" => Back
         /\ part = "watches" => Watch!NoRecovery
         /\ part = "network" => Network!Resumed)

(* WatchSession: subscriptions follow the watches. *)
SubscribedAsWatched == part = "watches" => Watch!SubscribedAsWatched

(* Connectivity: the probe loop runs exactly while somebody needs it. *)
LoopAlive == part = "network" => Network!LoopAlive

(* WatchSession: a relay is opened again only after its channels saved their gaps.  Connectivity: *)
(* nobody is told that it is offline because somebody else ended.                                *)
SavedBeforeRestart ==
    [][/\ part = "watches" => Watch!SavedBeforeRestartStep
       /\ part = "network" => Network!OthersUndisturbedStep]_allVars
================================================================================
