------------------------------- MODULE MCRelays -------------------------------
(* The relay side for TLC: who may subscribe (ReadAdmission), one-shot reads and  *)
(* publications over the pool's connections (RelayReads), and publications over   *)
(* one connection (RelayConnection).  They share no state, and one run explores   *)
(* them side by side.                                                          *)
EXTENDS ReadAdmission, FiniteSetsExt

CONSTANTS f1, f2, l1, h1, h2, n1, None

VARIABLES
    part,   \* the component that a behaviour is of
    readsPlan, readsObjects, readsPool, readsLegs, readsOps, readsWire,
    connClock, connOffer, connConn, connFaults

readsVars == <<readsPlan, readsObjects, readsPool, readsLegs, readsOps, readsWire>>
connVars == <<connClock, connOffer, connConn, connFaults>>

NoLimit == -1

(* Feeds, which want both slots, a live read, history reads, and a call that asks for none. *)
MCWants == [r \in {f1, f2, l1, h1, h2, n1} |->
              CASE r \in {f1, f2} -> Kinds
                [] r = l1 -> {"live"}
                [] r = n1 -> {}
                [] OTHER -> {"history"}]

(* Two relays: two reads beside a live reader, a count over both relays, a publication   *)
(* with a fresh event to fall back on, each with faults.                               *)
Op(kind, urls, retries, fresh) == [kind |-> kind, urls |-> urls, retries |-> retries, fresh |-> fresh]
LiveOp == Op("live", {"a"}, 0, FALSE)
ReadsPlans == {
    [ops |-> ("x" :> Op("get", {"a", "b"}, 1, FALSE)), faults |-> 2],
    [ops |-> ("x" :> Op("get", {"a"}, 0, FALSE)) @@ ("y" :> Op("get", {"a"}, 0, FALSE)) @@ ("z" :> LiveOp), faults |-> 1],
    [ops |-> ("x" :> Op("get", {"a"}, 0, FALSE)) @@ ("y" :> LiveOp) @@ ("z" :> LiveOp), faults |-> 1],
    [ops |-> ("x" :> Op("count", {"a", "b"}, 1, FALSE)), faults |-> 2],
    [ops |-> ("x" :> Op("send", {"a", "b"}, 0, TRUE)), faults |-> 3],
    [ops |-> ("x" :> Op("send", {"a"}, 0, FALSE)) @@ ("z" :> LiveOp), faults |-> 2]}

(* Two or three calls: interactive and bulk ones of the same event, of two events, with  *)
(* and without retries, deadlines (0: none) and limits of waiting.                      *)
Call(event, bulk, retries, maxWait, deadline) ==
    [event |-> event, bulk |-> bulk, retries |-> retries, maxWait |-> maxWait, deadline |-> deadline]
Two(first, second) == [terms |-> <<first, second>>, asks |-> {}, faults |-> 2]
Three(first, second, third) == [terms |-> <<first, second, third>>, asks |-> {}, faults |-> 1]
ConnOffers == {
    Two(Call("e1", TRUE, 1, NoLimit, 5), Call("e1", FALSE, 1, 2, NoLimit)),
    Two(Call("e1", FALSE, 1, NoLimit, 4), Call("e1", FALSE, 2, 2, NoLimit)),
    Two(Call("e1", TRUE, 1, NoLimit, 4), Call("e2", TRUE, 1, NoLimit, NoLimit)),
    Three(Call("e1", TRUE, 1, 2, NoLimit), Call("e2", TRUE, 0, NoLimit, NoLimit), Call("e2", FALSE, 0, NoLimit, NoLimit)),
    [terms |-> <<Call("e1", FALSE, 0, NoLimit, NoLimit)>>, asks |-> {"req", "count"}, faults |-> 2]}

Reads == INSTANCE RelayReads WITH
    plan <- readsPlan, objects <- readsObjects, pool <- readsPool, legs <- readsLegs,
    ops <- readsOps, wire <- readsWire, Urls <- {"a", "b"}, Ops <- {"x", "y", "z"},
    MaxObjects <- 3, Plans <- ReadsPlans
Conn == INSTANCE RelayConnection WITH
    clock <- connClock, offer <- connOffer, conn <- connConn, faults <- connFaults,
    Calls <- {1, 2, 3}, Asks <- {"req", "count"}, None <- None, Pacing <- 2, Timeout <- 4,
    Advice <- {1, 3, None}, MaxClock <- 6, Offers <- ConnOffers

--------------------------------------------------------------------------------
(* One component runs; the others rest in an initial state. *)
PartsInit ==
    /\ part \in {"admission", "reads", "connection"}
    /\ Init
    /\ Reads!Init
    /\ part # "reads" => readsPlan = CHOOSE p \in ReadsPlans : TRUE
    /\ Conn!Init
    /\ part # "connection" => connOffer = CHOOSE p \in ConnOffers : TRUE

PartsNext ==
    \/ part = "admission" /\ Next /\ UNCHANGED <<part, readsVars, connVars>>
    \/ part = "reads" /\ Reads!Next /\ UNCHANGED <<part, vars, connVars>>
    \/ part = "connection" /\ Conn!Next /\ UNCHANGED <<part, vars, readsVars>>

allVars == <<part, vars, readsVars, connVars>>
PartsSpec == PartsInit /\ [][PartsNext]_allVars

--------------------------------------------------------------------------------
(* Properties, of all the components at once: each is the component's own.      *)

(* RelayReads: a pooled connection stays while it is held and goes by itself when it *)
(* is not, an operation that ended holds nothing, and success means an acceptance. *)
ConnectionsKeptAsHeld ==
    part = "reads" =>
        Reads!TypeOK /\ Reads!ConnectionsKeptAsHeld /\ Reads!NothingOutlivesItsOperation /\ Reads!SuccessIsReal

(* RelayReads: a fresh event is sent only if no relay has the first one. *)
OneEventAccepted == part = "reads" => Reads!OneEventAccepted

(* Nobody waits for nothing.  RelayConnection: waiting calls and jobs agree, the bulk *)
(* scheduler never stalls, interactive calls do not queue, retries come in time and    *)
(* asks are told once.  ReadAdmission: readers wait only for slots that are taken.     *)
QueueNeverStalls ==
    /\ part = "connection" => /\ Conn!TypeOK /\ Conn!QueueNeverStalls /\ Conn!WaitersAndJobsAgree
                              /\ Conn!InteractiveNotQueued /\ Conn!RetriesInTime /\ Conn!ToldOnce
    /\ part = "admission" => TypeOK /\ WithinCapacity /\ NoIdleCapacity

(* What no step does: grant a slot out of turn or during a disconnect (ReadAdmission), cut *)
(* an admitted read short for idleness (RelayReads), leave a call waiting for an accepted *)
(* event, or send before a pacing or cooldown ends (RelayConnection).                    *)
ServedInOrder ==
    [][/\ part = "admission" => InTurnStep /\ DisconnectAdmitsNobodyStep
       /\ part = "reads" => Reads!IdleSparesReadsStep
       /\ part = "connection" => Conn!PacedAndCoolStep /\ Conn!AcceptSettlesAllStep]_allVars
================================================================================
