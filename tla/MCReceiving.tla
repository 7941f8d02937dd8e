----------------------------- MODULE MCReceiving -----------------------------
(* What a messenger receives and keeps, for TLC: the chunks of messages             *)
(* (ReceivedChunks), the stored recovery state of the channels (ChannelStates) and    *)
(* the admission of pending decryptions (DecryptionScheduler).  They share no state,  *)
(* and one run explores them side by side.                                           *)
EXTENDS MCReceivedChunks

CONSTANTS NoTime

VARIABLES
    part,   \* the component that a behaviour is of
    statesPlan, statesNow, statesStore, statesNames, statesInst, statesPromised, statesHurt,
    schedLeft, schedClock, schedChan, schedTimer, schedRunning, schedGate, schedTurn, schedLate

statesVars == <<statesPlan, statesNow, statesStore, statesNames, statesInst, statesPromised, statesHurt>>
schedVars == <<schedLeft, schedClock, schedChan, schedTimer, schedRunning, schedGate, schedTurn, schedLate>>

(* Two messengers: a handover and a recovery; a gap and a cleanup; a gap, a recovery and a  *)
(* failing write; a failing write and a crash over channels that have no row.               *)
Known(known, starts, adopts, drops, beats, gaps, recoveries, failures, crashes, cleans, time) ==
    [rows |-> [c \in {"c", "d"} |-> IF c \in known THEN [watched |-> 0, gaps |-> {}] ELSE None],
     free |-> {"c", "d"}, starts |-> starts, adopts |-> adopts, drops |-> drops, beats |-> beats, gaps |-> gaps,
     recoveries |-> recoveries, failures |-> failures, crashes |-> crashes, cleans |-> cleans, time |-> time, serial |-> 1]
StatesPlans == {
    Known({"c"}, 2, 2, 1, 1, 0, 1, 0, 0, 0, 2),
    Known({"c"}, 2, 1, 0, 0, 1, 0, 0, 0, 1, 3),
    Known({"c"}, 1, 2, 0, 0, 1, 1, 1, 0, 0, 2),
    Known({}, 2, 2, 0, 0, 0, 0, 1, 1, 0, 1)}

(* Two channels: a batch against a waiting channel, foreground and abort, priority and the end. *)
Bound(ready, acts, fronts, picks, holds, jobs, aborts, removes, closes, time) ==
    [ready |-> ready, acts |-> acts, fronts |-> fronts, picks |-> picks, holds |-> holds, jobs |-> jobs,
     aborts |-> aborts, removes |-> removes, closes |-> closes, time |-> time]
SchedulerBounds == {
    Bound(TRUE, 1, 0, 1, 0, 4, 0, 0, 0, 3),
    Bound(FALSE, 1, 1, 0, 0, 2, 1, 0, 0, 2),
    Bound(FALSE, 1, 0, 0, 1, 2, 0, 1, 1, 2)}

States == INSTANCE ChannelStates WITH
    plan <- statesPlan, now <- statesNow, store <- statesStore, names <- statesNames,
    inst <- statesInst, promised <- statesPromised, hurt <- statesHurt, Insts <- {"i1", "i2"},
    Channels <- {"c", "d"}, Stale <- 1, Plans <- StatesPlans
Scheduler == INSTANCE DecryptionScheduler WITH
    left <- schedLeft, clock <- schedClock, chan <- schedChan, timer <- schedTimer,
    running <- schedRunning, gate <- schedGate, turn <- schedTurn, late <- schedLate,
    Chans <- {"c", "d"}, Quiet <- 1, Wait <- 2, InARow <- 2, Bounds <- SchedulerBounds

--------------------------------------------------------------------------------
(* One component runs; the others rest in an initial state. *)
PartsInit ==
    /\ part \in {"chunks", "states", "scheduler"}
    /\ Init
    /\ part # "chunks" => plan = CHOOSE p \in SafetyPlans : TRUE
    /\ States!Init
    /\ part # "states" => statesPlan = CHOOSE p \in StatesPlans : TRUE
    /\ Scheduler!SInit
    /\ part # "scheduler" => schedLeft = CHOOSE p \in SchedulerBounds : TRUE

PartsNext ==
    \/ part = "chunks" /\ Next /\ UNCHANGED <<part, statesVars, schedVars>>
    \/ part = "states" /\ States!Next /\ UNCHANGED <<part, vars, schedVars>>
    \/ part = "scheduler" /\ Scheduler!SNext /\ UNCHANGED <<part, vars, statesVars>>

allVars == <<part, vars, statesVars, schedVars>>
PartsSpec == PartsInit /\ [][PartsNext]_allVars

--------------------------------------------------------------------------------
(* Properties, of all the components at once: each is the component's own, and   *)
(* StoreExact is that of ReceivedChunks itself.                                 *)

(* ReceivedChunks: whole scans list every recipient, no chunk is left unread, and a reader that stops *)
(* at its row gets each of its messages, once.                                                    *)
BundlesDelivered ==
    part = "chunks" => WholeListAtEnd /\ NothingLeftUndrained /\ NothingDropped /\ OncePerProcessor

(* ChannelStates: a gap that a flush has promised to be stored stays stored until it is recovered. *)
PromisedIsKept == part = "states" => States!PromisedIsKept

(* DecryptionScheduler: the timer is armed for whatever is due first, and no job past its deadline is *)
(* overtaken by more than one of each other channel.                                               *)
NotOvertaken == part = "scheduler" => Scheduler!Armed /\ Scheduler!NotOvertaken

(* No drain undoes another (ReceivedChunks), no messenger writes the rows of another (ChannelStates). *)
NothingUndone ==
    [][/\ part = "chunks" => DrainsForwardStep
       /\ part = "states" => States!OthersRowsKeptStep]_allVars
================================================================================
