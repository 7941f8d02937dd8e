------------------------- MODULE MCQueueReservations -------------------------
(* QueueReservations for TLC: two tabs that share a key, and, as a component of  *)
(* its own, one consumer of two keys that hands out one message at a time, the  *)
(* way private-messenger/index.js uses its inbox, with a third version of each. *)
(* The second version of a message is the larger.                             *)
EXTENDS QueueReservations, TLC

VARIABLES
    part,   \* the component that a behaviour is of
    oneClock, oneRecords, oneHead, oneTail, oneUsedBytes, oneHandles, oneNextToken, oneOutcome,
    oneNextId

oneVars == <<oneClock, oneRecords, oneHead, oneTail, oneUsedBytes, oneHandles, oneNextToken, oneOutcome,
    oneNextId>>

SizeOf(v) == IF v = 2 THEN 2 ELSE 1
MCByteSize == [v \in Versions |-> SizeOf(v)]
OneByteSize == [v \in 1..3 |-> SizeOf(v)]
SessionSymmetry == Permutations(Sessions)

One == INSTANCE QueueReservations WITH
    clock <- oneClock, records <- oneRecords, head <- oneHead, tail <- oneTail,
    usedBytes <- oneUsedBytes, handles <- oneHandles, nextToken <- oneNextToken,
    outcome <- oneOutcome, nextId <- oneNextId, Sessions <- {"reader"},
    Keys <- {"presence", "first"}, KeepOldest <- {"first"}, MaxVersion <- 3,
    ByteSize <- OneByteSize, MaxBytes <- 4, MaxDelay <- 0, MaxHeld <- 1

--------------------------------------------------------------------------------
(* One component runs; the others rest in an initial state. *)
PartsInit ==
    /\ part \in {"tabs", "consumer"}
    /\ Init
    /\ One!Init

PartsNext ==
    \/ part = "tabs" /\ Next /\ UNCHANGED <<part, oneVars>>
    \/ part = "consumer" /\ One!Next /\ UNCHANGED <<part, vars>>

allVars == <<part, vars, oneVars>>
PartsSpec == PartsInit /\ [][PartsNext]_allVars

--------------------------------------------------------------------------------
(* Coalescing drops what it should and nothing else: a key that had a message    *)
(* keeps one; and, where one delivery is open at a time, the newest of a key      *)
(* survives and `oldest` keeps the pending message.                            *)
CoalescingKeeps ==
    [][/\ part = "tabs" => KeyKeepsAMessageStep
       /\ part = "consumer" => /\ One!KeyKeepsAMessageStep
                              /\ One!NewestOfKeySurvivesStep
                              /\ One!OldestPendingKeptStep]_allVars
================================================================================
