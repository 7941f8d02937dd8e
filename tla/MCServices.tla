------------------------------ MODULE MCServices ------------------------------
(* The services of a messenger for TLC: the reading of one stored range (HistoryRanges), *)
(* the packets that wait for a key (PendingPackets), the registry of the storage sets    *)
(* (StorageRegistry) and the publication of one event (SendRace).  They share no state,  *)
(* and one run explores them side by side.                                             *)
EXTENDS HistoryRanges, PendingPackets, SendRace, StorageRegistry

CONSTANTS a, b

VARIABLE part   \* the component that a behaviour is of

(* Two relays: ranges with few or many or no events, failing pages, new windows, aborts, restarts, *)
(* changes of the relays.                                                                        *)
Two == {<<1, 1>>, <<3, 1>>}
Dense == {<<2, 1>>, <<2, 2>>, <<3, 1>>}
Plan(wa, wb, f, w, ab, re, ch, as, lasting) ==
    [world |-> (a :> wa @@ b :> wb), fails |-> f, windows |-> w, aborts |-> ab, restarts |-> re, changes |-> ch, asks |-> as, seeders |-> w > 0,
     lasting |-> lasting]
MCPlans == {Plan(Two, Dense, 2, 0, 0, 0, 0, 1, TRUE), Plan(Two, Dense, 1, 1, 0, 0, 0, 0, FALSE), Plan(Dense, {}, 1, 1, 1, 0, 0, 0, FALSE),
            Plan(Two, Two, 1, 0, 1, 0, 1, 1, TRUE),
            Plan({}, {}, 2, 0, 0, 1, 0, 1, FALSE), Plan(Two, {}, 2, 1, 0, 0, 0, 0, TRUE), Plan(Two, Two, 1, 1, 0, 1, 0, 0, TRUE)}
MCBudget == [partial |-> 1, emptyEose |-> 2, allFailed |-> 2]

(* Two messengers and two packets, which miss a key or have an invalid MAC or may do either: *)
(* an eviction and a forced pass, a crash, a failing pass; overlapping saves of the two and a *)
(* crash, a cleared channel and one that is added again.                                    *)
Deferring(codes, ready, starts, receptions, asking, failures, pauses, holds, crashes, keys, clears) ==
    [codes |-> [p \in {"p", "q"} |-> codes], ready |-> ready, locks |-> TRUE, late |-> FALSE, starts |-> starts,
     receptions |-> receptions, requests |-> asking, failures |-> failures, pauses |-> pauses, holds |-> holds,
     crashes |-> crashes, keys |-> keys, clears |-> clears]
PendingBudgets == {
    Deferring({"mac"}, TRUE, 2, 1, 1, 0, 0, 0, 0, 0, 0), Deferring({"key"}, TRUE, 1, 2, 1, 0, 0, 1, 0, 1, 0),
    Deferring({"key", "mac"}, TRUE, 2, 1, 1, 0, 0, 0, 0, 0, 0), Deferring({"key", "mac"}, TRUE, 2, 1, 0, 0, 0, 0, 0, 1, 0),
    Deferring({"key", "mac"}, TRUE, 1, 2, 0, 0, 0, 0, 0, 1, 0), Deferring({"mac"}, FALSE, 2, 1, 0, 0, 1, 0, 1, 1, 0),
    Deferring({"mac"}, TRUE, 1, 1, 1, 1, 0, 0, 0, 1, 0),
    Deferring({"key"}, TRUE, 2, 2, 0, 0, 0, 0, 1, 0, 0), Deferring({"mac"}, TRUE, 1, 3, 0, 0, 0, 0, 1, 0, 0),
    Deferring({"mac"}, TRUE, 2, 2, 0, 0, 0, 0, 0, 0, 1), Deferring({"mac"}, TRUE, 3, 1, 0, 0, 0, 0, 0, 1, 1)}

(* Two messengers: a policy update, more channels over a heartbeat, closes and a failing deletion, *)
(* a crash.                                                                                      *)
Pol(s, k) == [stale |-> s, keep |-> k, rev |-> 0]
Upd(cs, policy, named) == [channels |-> cs, policy |-> policy, named |-> named]
Sets(time, policies, updates, broadcast, fails, cares, closes, crashes) ==
    [time |-> time, policies |-> policies, channels |-> {"c"}, updates |-> updates, broadcast |-> broadcast, locks |-> TRUE,
     failures |-> fails, cares |-> cares, closes |-> closes, crashes |-> crashes]
RegistryPlans == {
    Sets(0, <<Pol(1, 1), Pol(1, 0)>>, {Upd({}, Pol(2, None), {"stale"})}, TRUE, 0, 1, 0, 0),
    Sets(1, <<Pol(1, 1), Pol(1, 0)>>, {Upd({"c", "d"}, None, {})}, FALSE, 0, 0, 0, 0),
    Sets(1, <<Pol(1, 1), Pol(1, 0)>>, {}, FALSE, 1, 0, 2, 0),
    Sets(2, <<Pol(1, 0), Pol(1, 0)>>, {}, FALSE, 0, 0, 0, 1)}

(* One or two receivers and sends, primary relays x and y, fallback f, mirror m, either routing, with *)
(* an interruption, an event to sign again, a circuit that cools down.                              *)
Routed(a1, b1, fallback, mirrors, early, sends, answers) ==
    [primary |-> [p \in {"A", "B"} |-> IF p = "A" THEN a1 ELSE b1], fallback |-> fallback, mirrors |-> mirrors,
     early |-> early, explicit |-> FALSE, sends |-> sends, follows |-> {}, prepared |-> {FALSE}, answers |-> answers,
     resigns |-> "never", interrupts |-> 0, cools |-> 0, open |-> {}]
RacePlans == {
    [Routed({"x"}, {"x", "y"}, {"f"}, {"m"}, TRUE, {"s1"}, {"ok", "down", "native"}) EXCEPT !.interrupts = 1],
    [Routed({"x"}, {"x", "y"}, {"f"}, {"m"}, FALSE, {"s1"}, {"ok", "down", "native"}) EXCEPT !.interrupts = 1],
    [Routed({"x", "y"}, {}, {"y", "f"}, {}, TRUE, {"s1"}, {"ok", "refused", "native"}) EXCEPT !.interrupts = 1, !.resigns = "may fail"],
    Routed({"x"}, {}, {"f"}, {}, TRUE, {"s1", "s2"}, {"ok", "down"}),
    [Routed({"x", "y"}, {}, {"f"}, {}, FALSE, {"s1", "s2"}, {"ok", "refused", "down"}) EXCEPT !.cools = 1, !.open = {"x"}],
    [Routed({"x", "y"}, {"x", "y"}, {"f"}, {}, FALSE, {"s1"}, {"ok", "down", "native"}) EXCEPT !.explicit = TRUE, !.interrupts = 1],
    [Routed({"x"}, {"x", "y"}, {"f"}, {}, TRUE, {"s1"}, {"ok", "down"}) EXCEPT !.prepared = {TRUE}],
    [Routed({"x"}, {"y"}, {"f"}, {}, FALSE, {"s1"}, {"ok", "down"}) EXCEPT !.follows = {"s2"}, !.interrupts = 1],
    [Routed({"x"}, {}, {"f"}, {}, TRUE, {"s1"}, {"ok", "down"}) EXCEPT !.follows = {"s2"}, !.resigns = "may fail", !.answers = {"ok", "refused"}]}

--------------------------------------------------------------------------------
(* One component runs; the others rest in an initial state. *)
PartsInit ==
    /\ part \in {"range", "pending", "registry", "race"}
    /\ Init
    /\ part # "range" => plan = CHOOSE p \in MCPlans : TRUE
    /\ PInit
    /\ part # "pending" => budget = CHOOSE p \in PendingBudgets : TRUE
    /\ RegInit
    /\ part # "registry" => life = CHOOSE p \in RegistryPlans : TRUE
    /\ SRInit
    /\ part # "race" => race = CHOOSE p \in Races : TRUE

PartsNext ==
    \/ part = "range" /\ Next /\ UNCHANGED <<part, pvars, regVars, rvars>>
    \/ part = "pending" /\ PNext /\ UNCHANGED <<part, vars, regVars, rvars>>
    \/ part = "registry" /\ RegNext /\ UNCHANGED <<part, vars, pvars, rvars>>
    \/ part = "race" /\ SRNext /\ UNCHANGED <<part, vars, pvars, regVars>>

(* The fairness of each component, where it runs. *)
RangeFairness ==
    /\ WF_vars(part = "range" /\ Reading) /\ WF_vars(part = "range" /\ Lane) /\ WF_vars(part = "range" /\ Main)
PendingFairness == \A n \in {"m1", "m2"} :
    WF_pvars(part = "pending" /\ Works(n)) /\ WF_pvars(part = "pending" /\ SetReady(n, TRUE))
RegistryFairness ==
    /\ WF_regVars(part = "registry" /\ AnyRequest) /\ WF_regVars(part = "registry" /\ Tick)
    /\ \A i \in {1, 2} : WF_regVars(part = "registry" /\ Goes(i)) /\ WF_regVars(part = "registry" /\ Heartbeat(i))
RaceFairness == \A s \in {"s1", "s2"} :
    /\ WF_rvars(part = "race" /\ (Publish(s) \/ FallbackStarts(s) \/ \E l \in Lanes : LaneNext(s, l)))
    /\ WF_rvars(part = "race" /\ \E r \in {"x", "y", "f", "m"}, v \in race.answers : Answer(s, r, v))
    /\ WF_rvars(part = "race" /\ \E p \in send[s].pubs : Resigned(s, p) \/ ResignFails(s, p))
    /\ WF_rvars(part = "race" /\ \E connected \in BOOLEAN : Probe(s, connected))
    /\ WF_rvars(part = "race" /\ \E connected \in BOOLEAN : \E p \in send[s].pubs : LateProbe(s, p, connected))
PartsFairness == RangeFairness /\ PendingFairness /\ RegistryFairness /\ RaceFairness

allVars == <<part, vars, pvars, regVars, rvars>>
PartsSpec == PartsInit /\ [][PartsNext]_allVars /\ PartsFairness

--------------------------------------------------------------------------------
(* Properties, of all the components at once: each is the component's own.      *)
(* CoveredIsRead and RangeIsAccounted are HistoryRanges' own definitions,          *)
(* DeferredIsKept and ThreeAttempts those of PendingPackets, CoverageIsReal and   *)
(* FailureIsFinal those of SendRace, Named and InUseKept those of StorageRegistry. *)

(* What was begun ends, and for good: a range completes, or, only after failures that are not transient *)
(* or at a second too dense for any page, stays pending without a timer (HistoryRanges); who asked for  *)
(* a pass has what can be decrypted delivered (PendingPackets; not of a request that comes between the    *)
(* end of a pass and its promise's, which the plans leave out: late is FALSE); a deletion is done or the set used again, and every      *)
(* instance holds the last policy (StorageRegistry); a send is over with its reports (SendRace).          *)
AllEnd ==
    <>[](/\ part = "range" => RangeOver
         /\ part = "pending" => NothingOwed
         /\ part = "registry" => Deleted /\ Reached
         /\ part = "race" => Ended)
================================================================================
