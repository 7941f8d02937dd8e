----------------------------- MODULE ChannelStates -----------------------------
(***************************************************************************)
(* The recovery state of the channels of one identity: the rows of           *)
(* private-messenger/services/channel-state.js, the copy each messenger of    *)
(* that identity keeps in memory, the tail its writes go through, and the     *)
(* cleanup of the channels nobody administers.                                *)
(*                                                                         *)
(* Of a row the model keeps when the channel was last watched and the gaps it *)
(* holds: the intervals that are yet to be recovered.                          *)
(***************************************************************************)
EXTENDS Integers, Sequences, FiniteSets

CONSTANTS
    Insts,      \* the messengers
    Channels,
    Stale,      \* staleChannelSeconds
    Plans,      \* the bounds of a behaviour
    None

VARIABLES
    plan,       \* what is left of the bounds
    now,
    store,      \* the rows, or None
    names,      \* the channels in the lease of each messenger
    inst,       \* the messengers: channels, memory, tail of writes, update, recovery and cleanup that are under way
    promised,   \* the gaps, of what channel, a flush has promised to be stored
    hurt        \* channels of which a memory is out of step with the store

vars == <<plan, now, store, names, inst, promised, hurt>>

Row(c, rows) == IF rows[c] = None THEN [watched |-> 0, gaps |-> {}] ELSE rows[c]
NoRows == [c \in Channels |-> None]
NoClean == [at |-> "none", named |-> {}, rows |-> NoRows]
NoUpdate == [at |-> "none", channel |-> None]
Absent == [on |-> FALSE, channels |-> {}, rows |-> NoRows, tail |-> <<>>, error |-> FALSE,
           update |-> NoUpdate, reads |-> {}, cut |-> FALSE, clean |-> NoClean]
(* A write of the tail, or a flush, and what awaits it. *)
Write(op, cs, rows, for) == [op |-> op, channels |-> cs, rows |-> rows, found |-> NoRows, own |-> NoRows, for |-> for]

--------------------------------------------------------------------------------
(* writeState queues the rows that differ from those in memory. *)
AllRows(old, new) == {c \in Channels : new[c] # None}
Changed(old, new) == {c \in Channels : new[c] # None /\ new[c] # old[c]}
Wrote(s, rows) ==
    LET cs == Changed(s.rows, rows) IN
    [s EXCEPT !.rows = rows, !.tail = IF cs = {} THEN @ ELSE Append(@, Write("put", cs, rows, "nobody"))]

(* stampChannelActivity *)
Stamped(s, cs, for) ==
    LET known == {c \in cs : s.rows[c] # None}
        rows == [c \in Channels |-> IF c \in known THEN [s.rows[c] EXCEPT !.watched = now] ELSE s.rows[c]]
    IN  IF known = {} THEN s ELSE [s EXCEPT !.rows = rows, !.tail = Append(@, Write("touch", known, rows, for))]

(* flushStateWrites: who asks for it has these gaps in memory. *)
Gaps(cs, rows) == UNION {{<<c, g>> : g \in Row(c, rows).gaps} : c \in cs}
Flushes(s, for) == [s EXCEPT !.tail = Append(@, Write("flush", s.channels, s.rows, for))]

(* desiredChannels: an update that drops a channel stops watching it first. *)
Desired(s) == s.channels \ (IF s.update.at \in {"unnamed", "stopped"} THEN {s.update.channel} ELSE {})

Becomes(i, s) ==
    /\ inst' = [inst EXCEPT ![i] = s]
    /\ UNCHANGED <<now, store>>

--------------------------------------------------------------------------------
(* The messengers *)

(* init loads the rows. *)
Start(i) ==
    /\ ~inst[i].on /\ plan.starts > 0 /\ plan' = [plan EXCEPT !.starts = @ - 1]
    /\ Becomes(i, [Absent EXCEPT !.on = TRUE, !.rows = store])
    /\ UNCHANGED <<names, promised, hurt>>

(* recordRecoveryWindow and recordInterruption: a new gap joins those of the channel. *)
Widened(c, rows) == [rows EXCEPT ![c] = [Row(c, rows) EXCEPT !.gaps = @ \union {plan.serial}]]

(* Updates run one after another.  One that adds a channel names it in the lease, then   *)
(* records its recovery window, over the row in memory, and awaits a flush.              *)
Update(s, at, c) == [s EXCEPT !.update = [at |-> at, channel |-> c]]
AdoptNames(i, c) ==
    /\ inst[i].on /\ inst[i].update = NoUpdate /\ c \in plan.free /\ c \notin inst[i].channels /\ plan.adopts > 0
    /\ plan' = [plan EXCEPT !.adopts = @ - 1, !.free = @ \ {c}]
    /\ names' = [names EXCEPT ![i] = @ \union {c}]
    /\ Becomes(i, Update(inst[i], "named", c))
    /\ UNCHANGED <<promised, hurt>>
AdoptRecords(i) ==
    /\ inst[i].update.at = "named" /\ plan' = [plan EXCEPT !.serial = @ + 1]
    /\ LET c == inst[i].update.channel
           s == [inst[i] EXCEPT !.channels = @ \union {c}] IN
       /\ Becomes(i, Flushes(Wrote(Update(s, "flushes", c), Widened(c, s.rows)), "update"))
       /\ hurt' = IF s.rows[c] = store[c] THEN hurt ELSE hurt \union {c}
    /\ UNCHANGED <<names, promised>>

(* One that drops a channel stamps its row and awaits that, leaves it out of the lease,   *)
(* stops its watch, which aborts a recovery and records an interruption, and forgets it.   *)
DropStamps(i, c) ==
    /\ c \in inst[i].channels /\ inst[i].update = NoUpdate
    /\ plan.drops > 0 /\ plan' = [plan EXCEPT !.drops = @ - 1]
    /\ LET known == inst[i].rows[c] # None
       IN Becomes(i, Stamped(Update(inst[i], IF known THEN "stamps" ELSE "stamped", c), {c}, "update"))
    /\ UNCHANGED <<names, promised, hurt>>
DropUnnames(i) ==
    /\ inst[i].update.at = "stamped"
    /\ LET c == inst[i].update.channel
           s == Update(inst[i], "unnamed", c) IN
       /\ names' = [names EXCEPT ![i] = @ \ {c}]
       /\ plan' = [plan EXCEPT !.serial = @ + 1]
       /\ Becomes(i, Flushes(Wrote([s EXCEPT !.cut = @ \/ Gaps({c}, s.rows) \intersect s.reads # {}], Widened(c, s.rows)), "update"))
    /\ UNCHANGED <<promised, hurt>>
DropEnds(i) ==
    /\ inst[i].update.at = "stopped"
    /\ LET c == inst[i].update.channel
           s == Update(inst[i], "flushes", c) IN
       /\ plan' = [plan EXCEPT !.free = @ \union {c}]
       /\ Becomes(i, Flushes([s EXCEPT !.channels = @ \ {c}], "update"))
    /\ UNCHANGED <<names, promised, hurt>>

(* The heartbeat, and the watch of a channel. *)
Heartbeat(i) ==
    /\ inst[i].on /\ plan.beats > 0 /\ plan' = [plan EXCEPT !.beats = @ - 1]
    /\ Becomes(i, Stamped(inst[i], inst[i].channels, "nobody"))
    /\ UNCHANGED <<names, promised, hurt>>
Watch(i, c) ==
    /\ c \in Desired(inst[i]) /\ Row(c, inst[i].rows).watched < now /\ UNCHANGED plan
    /\ Becomes(i, Wrote(inst[i], [inst[i].rows EXCEPT ![c] = [Row(c, inst[i].rows) EXCEPT !.watched = now]]))
    /\ UNCHANGED <<names, promised, hurt>>

(* recordInterruption, and the flush its callers await. *)
Interrupt(i, c) ==
    /\ c \in Desired(inst[i]) /\ plan.gaps > 0 /\ plan' = [plan EXCEPT !.gaps = @ - 1, !.serial = @ + 1]
    /\ Becomes(i, Flushes(Wrote(inst[i], Widened(c, inst[i].rows)), "caller"))
    /\ UNCHANGED <<names, promised, hurt>>

(* A recovery reads the gaps of a channel; of those, all or some are recovered when it     *)
(* ends, and the gaps recorded meanwhile stay.  It writes its copy of the row also when    *)
(* the channel was dropped meanwhile, and may have been handed over.                      *)
RecoveryReads(i, c) ==
    /\ c \in Desired(inst[i]) /\ inst[i].reads = {} /\ Row(c, inst[i].rows).gaps # {}
    /\ plan.recoveries > 0 /\ plan' = [plan EXCEPT !.recoveries = @ - 1]
    /\ Becomes(i, [inst[i] EXCEPT !.reads = Gaps({c}, inst[i].rows)])
    /\ UNCHANGED <<names, promised, hurt>>
RecoveryEnds(i) ==
    /\ inst[i].on /\ inst[i].reads # {}
    /\ \E recovered \in IF inst[i].cut THEN {{}} ELSE SUBSET inst[i].reads, c \in {p[1] : p \in inst[i].reads} :
        LET s == [inst[i] EXCEPT !.reads = {}, !.cut = FALSE]
            fresh == Row(c, s.rows)
            remaining == {p[2] : p \in inst[i].reads \ recovered}
            row == [fresh EXCEPT !.gaps = {g \in @ : <<c, g>> \notin inst[i].reads} \union remaining]
        IN /\ Becomes(i, Flushes(Wrote(s, [s.rows EXCEPT ![c] = row]), "caller"))
           /\ promised' = promised \ recovered
           /\ hurt' = IF c \in Desired(s) THEN hurt ELSE hurt \union {c}
    /\ UNCHANGED <<plan, names>>

(* A page dies; its lease runs out in time. *)
Crash(i) ==
    /\ inst[i].on /\ plan.crashes > 0
    /\ plan' = [plan EXCEPT !.crashes = @ - 1, !.free = @ \union inst[i].channels]
    /\ Becomes(i, Absent)
    /\ UNCHANGED <<names, promised, hurt>>
LeaseEnds(i) ==
    /\ ~inst[i].on /\ names[i] # {} /\ names' = [names EXCEPT ![i] = {}]
    /\ UNCHANGED <<plan, now, store, inst, promised, hurt>>

--------------------------------------------------------------------------------
(* The tail: one transaction after another. *)

Head1(i) == Head(inst[i].tail)
Next1(i) == inst[i].tail # <<>> /\ inst[i].on
Rest(s) == [s EXCEPT !.tail = Tail(@)]

Stored(w) ==
    [c \in Channels |->
        IF c \notin w.channels THEN store[c]
        ELSE CASE w.op = "put"   -> w.rows[c]
               [] w.op = "touch" -> [Row(c, store) EXCEPT !.watched = w.rows[c].watched]
               [] w.op = "del"   -> None]
(* What awaited a write or a flush goes on. *)
Told(s, w) ==
    CASE w.for = "update" -> (CASE w.op = "touch"             -> [s EXCEPT !.update.at = "stamped"]
                               [] s.update.at = "unnamed"      -> [s EXCEPT !.update.at = "stopped"]
                               [] OTHER                        -> [s EXCEPT !.update = NoUpdate])
      [] w.for = "clean"  -> [s EXCEPT !.clean.at = "flushed"]
      [] OTHER            -> s
Failed(s, w) ==
    CASE w.for = "update" -> [s EXCEPT !.update = NoUpdate]
      [] w.for = "clean"  -> [s EXCEPT !.clean = NoClean]
      [] OTHER            -> s

WriteDone(i) ==
    /\ Next1(i) /\ Head1(i).op \in {"put", "touch", "del"}
    /\ store' = Stored(Head1(i))
    /\ inst' = [inst EXCEPT ![i] = Told(Rest(@), Head1(i))]
    /\ promised' = IF Head1(i).op = "del" THEN promised \ (Head1(i).channels \X Nat) ELSE promised
    /\ hurt' = IF Head1(i).op = "del" THEN hurt \union {c \in Head1(i).channels : \E j \in Insts : c \in names[j]} ELSE hurt
    /\ UNCHANGED <<plan, now, names>>
WriteFails(i) ==
    /\ Next1(i) /\ Head1(i).op # "flush"
    /\ plan.failures > 0 /\ plan' = [plan EXCEPT !.failures = @ - 1]
    /\ inst' = [inst EXCEPT ![i] = [Failed(Rest(@), Head1(i)) EXCEPT !.error = TRUE]]
    /\ UNCHANGED <<now, store, names, promised, hurt>>

(* A flush is done when the writes before it are; after an error it repairs, at the end *)
(* of the tail: the rows that are stored are read, and those in memory written instead.  *)
Promise(i, w) ==
    IF w.for = "clean" THEN promised ELSE promised \union (Gaps(w.channels, w.rows) \intersect Gaps(w.channels, inst[i].rows))
FlushForgets(i) ==
    /\ Next1(i) /\ Head1(i).op = "flush"
    /\ inst' = [inst EXCEPT ![i] = [Told(Rest(@), Head1(i)) EXCEPT !.error = FALSE]] /\ promised' = Promise(i, Head1(i))
    /\ UNCHANGED <<plan, now, store, names, hurt>>
FlushDone(i) ==
    /\ Next1(i) /\ Head1(i).op = "flush"
    /\ IF inst[i].error
       THEN /\ inst' = [inst EXCEPT ![i] = [Rest(@) EXCEPT !.tail = Append(@, [Head1(i) EXCEPT !.op = "repair"])]]
            /\ UNCHANGED promised
       ELSE inst' = [inst EXCEPT ![i] = Told(Rest(@), Head1(i))] /\ promised' = Promise(i, Head1(i))
    /\ UNCHANGED <<plan, now, store, names, hurt>>
RepairReads(i) ==
    /\ Next1(i) /\ Head1(i).op = "repair"
    /\ inst' = [inst EXCEPT ![i].tail[1] = [@ EXCEPT !.op = "rewrite", !.found = store, !.own = inst[i].rows]]
    /\ UNCHANGED <<plan, now, store, names, promised, hurt>>
Rewritten(w) == [c \in Channels |-> IF w.own[c] # None THEN w.own[c] ELSE IF w.found[c] # None THEN None ELSE store[c]]
RepairWrites(i) ==
    /\ Next1(i) /\ Head1(i).op = "rewrite"
    /\ store' = Rewritten(Head1(i))
    /\ inst' = [inst EXCEPT ![i] = [Told(Rest(@), Head1(i)) EXCEPT !.error = FALSE]]
    /\ promised' = Promise(i, Head1(i))
    /\ hurt' = hurt \union {c \in Channels \ inst[i].channels : store'[c] # store[c]}
    /\ UNCHANGED <<plan, now, names>>

--------------------------------------------------------------------------------
(* cleanupStaleChannels: it reads the registry, waits for its turn, flushes, loads the *)
(* rows, removes what belongs to those that are stale, and then takes what it loaded    *)
(* for its memory.                                                                      *)

Cleaning(i, step) == inst[i].on /\ inst[i].clean.at = step
CleanReads(i) ==
    /\ Cleaning(i, "none") /\ plan.cleans > 0 /\ plan' = [plan EXCEPT !.cleans = @ - 1]
    /\ Becomes(i, [inst[i] EXCEPT !.clean = [NoClean EXCEPT !.at = "queued", !.named = UNION {names[j] : j \in Insts}]])
    /\ UNCHANGED <<names, promised, hurt>>
CleanFlushes(i) ==
    /\ Cleaning(i, "queued") /\ UNCHANGED plan
    /\ Becomes(i, Flushes([inst[i] EXCEPT !.clean.at = "flushing"], "clean"))
    /\ UNCHANGED <<names, promised, hurt>>
CleanLoads(i) ==
    /\ Cleaning(i, "flushed") /\ UNCHANGED plan
    /\ Becomes(i, [inst[i] EXCEPT !.clean.at = "loaded", !.clean.rows = store])
    /\ UNCHANGED <<names, promised, hurt>>
StaleIn(s) == {c \in Channels \ s.clean.named : s.clean.rows[c] # None /\ s.clean.rows[c].watched < now - Stale}
CleanSets(i) ==
    LET s == inst[i]
        gone == StaleIn(s)
        rows == [c \in Channels |-> IF c \in gone THEN None ELSE s.clean.rows[c]] IN
    /\ Cleaning(i, "loaded") /\ UNCHANGED plan
    /\ Becomes(i, [s EXCEPT !.rows = rows, !.clean = NoClean,
                            !.tail = IF gone = {} THEN @ ELSE Append(@, Write("del", gone, NoRows, "nobody"))])
    /\ hurt' = hurt \union {c \in s.channels : rows[c] # s.rows[c]}
    /\ UNCHANGED <<names, promised>>

Tick ==
    /\ now < plan.time /\ now' = now + 1
    /\ UNCHANGED <<plan, store, names, inst, promised, hurt>>

--------------------------------------------------------------------------------
Init ==
    /\ plan \in Plans
    /\ now = Stale + 1
    /\ store = plan.rows
    /\ names = [i \in Insts |-> {}]
    /\ inst = [i \in Insts |-> Absent]
    /\ promised = {} /\ hurt = {}

Next ==
    \/ Tick
    \/ \E i \in Insts :
        \/ Start(i) \/ Heartbeat(i) \/ Crash(i) \/ LeaseEnds(i)
        \/ WriteDone(i) \/ WriteFails(i) \/ FlushDone(i) \/ RepairReads(i) \/ RepairWrites(i)
        \/ CleanReads(i) \/ CleanFlushes(i) \/ CleanLoads(i) \/ CleanSets(i)
        \/ AdoptRecords(i) \/ DropUnnames(i) \/ DropEnds(i) \/ RecoveryEnds(i)
        \/ \E c \in Channels : AdoptNames(i, c) \/ DropStamps(i, c) \/ Watch(i, c) \/ Interrupt(i, c) \/ RecoveryReads(i, c)

Spec == Init /\ [][Next]_vars

--------------------------------------------------------------------------------
Rows == [Channels -> {None} \union [watched : Nat, gaps : SUBSET Nat]]
TypeOK ==
    /\ store \in Rows /\ names \in [Insts -> SUBSET Channels]
    /\ \A i \in Insts : inst[i].rows \in Rows /\ inst[i].channels \subseteq Channels
    /\ promised \subseteq Channels \X Nat /\ hurt \subseteq Channels

(* A gap that a flush has promised stays stored until it is recovered or its channel,    *)
(* administered by nobody, is cleaned up: over failing writes, repairs, handovers between *)
(* messengers and crashes (index.js:1057-1068, README.md:1449-1450); except in a channel  *)
(* of which a memory is out of step.  And the state keeps its type.                        *)
GapStored(p) == store[p[1]] # None /\ p[2] \in store[p[1]].gaps
PromisedIsKept == TypeOK /\ \A p \in promised : p[1] \in hurt \/ GapStored(p)

(* The same of every channel. *)
PromisedIsKeptAlways == \A p \in promised : GapStored(p)

(* The writes of a messenger leave alone the rows of a channel that only another one      *)
(* administers (channel-state.js:19-21).                                                   *)
OnlyOf(j) == {c \in inst[j].channels : \A i \in Insts \ {j} : c \notin inst[i].channels}
OthersRowsKeptStep ==
    \A j \in Insts : inst'[j] = inst[j] =>
        \A c \in OnlyOf(j) \ hurt' : store'[c] # None => store'[c] = store[c]
================================================================================
