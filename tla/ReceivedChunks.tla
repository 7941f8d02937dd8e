---------------------------- MODULE ReceivedChunks ----------------------------
(***************************************************************************)
(* private-channel: reassembling a chunked message.  Several processors      *)
(* (createProcessor, one per relay subscription of a session) receive the    *)
(* outer events of the same bundles from their relays and share one store    *)
(* (services/received-chunks.js).  A processor handles its outers one after  *)
(* another: it puts the chunk, claims the group's drain lease, hands every   *)
(* complete line to its reader, and delivers what it found.                  *)
(*                                                                         *)
(* An IndexedDB transaction is one action, and so is what a handler does     *)
(* between two awaits.  A chunk counts one unit of the byte budget.  Every   *)
(* row a sender writes ends with a newline, so after the last chunk nothing  *)
(* is carried; what is carried before follows from nextIndex, with which it  *)
(* is always written.  A router key belongs to one message, so the outers of *)
(* a group agree on its descriptor and its total.                            *)
(***************************************************************************)
EXTENDS Integers, FiniteSets, FiniteSetsExt, Sequences

CONSTANTS
    Processors,
    Groups,      \* group keys
    MaxBytes,    \* the budget the groups share
    Plans,       \* what a behaviour may be given, see below
    None,
    Free,        \* no drain token
    Orphan       \* the token of a drain that died with its page

(* bundle: the message of each group, or None; readers: the processors whose  *)
(* relays have them; faults: the kinds that may strike, `left` times in all.   *)
(* Of a bundle, rows[k] is the chunk in which row k - 1 ends (row 0 is the     *)
(* payload), mine the row of the reader, or 0, and scan how much of it the     *)
(* reader needs: up to its row, all of it (its own message), or all of it to   *)
(* seed; a "nym" bundle is read whole once it is complete.                     *)
FaultKinds == {"crash", "expire", "lapse", "quota", "reject", "deferred", "invalid"}
Bundles == [total : Nat \ {0}, rows : Seq(Nat), mine : Nat, scan : {"row", "own", "seed", "nym"}]
Metas == [received : SUBSET Nat, nextIndex : Nat, rowIndex : Nat, payload : BOOLEAN,
          receivers : SUBSET Nat, token : Processors \cup {Free, Orphan},
          leased : BOOLEAN, expired : BOOLEAN]

(* The rows of a bundle follow one another through its chunks. *)
InOrder(b) ==
    /\ \A j, k \in 1..Len(b.rows) : j <= k => b.rows[j] <= b.rows[k]
    /\ \A k \in 1..Len(b.rows) : b.rows[k] < b.total

ASSUME PlansAssumption ==
    \A p \in Plans :
        /\ p = [bundle |-> p.bundle, readers |-> p.readers, faults |-> p.faults, left |-> p.left]
        /\ p.bundle \in [Groups -> Bundles \cup {None}]
        /\ \A g \in Groups : p.bundle[g] # None => InOrder(p.bundle[g])
        /\ p.readers \subseteq Processors
        /\ p.faults \subseteq FaultKinds
        /\ p.left \in Nat
ASSUME TokensAssumption == Processors \cap {Free, Orphan} = {} /\ Free # Orphan
ASSUME NoneAssumption == None \notin Metas /\ None \notin Groups
ASSUME BudgetAssumption == MaxBytes \in Nat \ {0} /\ IsFiniteSet(Groups)

VARIABLES
    plan,
    groups,    \* the groups store: the meta record of a group, or None
    order,     \* by updatedAt: <<g, h>> when g was updated before h
    usedBytes, \* the usage record
    inbox,     \* the chunks each processor's relay still has for it
    ignored,   \* ignoredGroups of each processor
    calls,     \* the outer each processor is handling
    delivered  \* <<processor, group>>: the event reached the application, or the
               \* store of pending decryptions

vars == <<plan, groups, order, usedBytes, inbox, ignored, calls, delivered>>

--------------------------------------------------------------------------------
Bundle(g) == plan.bundle[g]
Chunks(g) == 0..(Bundle(g).total - 1)
Offered == {g \in Groups : Bundle(g) # None}
Outers == UNION {{g} \X Chunks(g) : g \in Offered}
WholeScan(g) == Bundle(g).scan \in {"own", "seed"}

(* The first row that does not end before chunk n. *)
FirstRow(g, n) == Cardinality({k \in 1..Len(Bundle(g).rows) : Bundle(g).rows[k] < n})

Fresh == [received |-> {}, nextIndex |-> 0, rowIndex |-> 0, payload |-> FALSE,
          receivers |-> {}, token |-> Free, leased |-> FALSE, expired |-> FALSE]

Idle == [pc |-> "idle", group |-> None, index |-> 0, meta |-> Fresh, row |-> 0,
         found |-> "nothing", result |-> "partial", ignore |-> FALSE]

ByteSize(meta) == Cardinality(meta.received)
Held(gs) == MapThenSumSet(LAMBDA g : ByteSize(groups[g]), gs)
Stored == {g \in Groups : groups[g] # None}
Expired == {g \in Stored : groups[g].expired}

(* Mutant of Freed: what expired is deleted without being taken off the usage. *)
FreedLive(gs) == LET left == usedBytes - Held((gs \cap Stored) \ Expired)
                 IN  IF left > 0 THEN left ELSE 0

(* deleteGroupInTransaction for each of gs, and what readUsage then leaves. *)
Without(gs) == [g \in Groups |-> IF g \in gs THEN None ELSE groups[g]]
Freed(gs) == LET left == usedBytes - Held(gs \cap Stored) IN IF left > 0 THEN left ELSE 0

(* The order left when some groups have gone; one whose updatedAt becomes the newest. *)
Remaining(gone) == {o \in order : o[1] \notin gone /\ o[2] \notin gone}
Touched(g, gone) == Remaining(gone \cup {g}) \cup ((Stored \ (gone \cup {g})) \X {g})

Drop(gs) ==
    /\ groups' = Without(gs)
    /\ usedBytes' = Freed(gs)
    /\ order' = Remaining(gs)

At(p, pc) == calls[p].pc = pc
Key(p) == calls[p].group
Goto(p, pc) == calls' = [calls EXCEPT ![p].pc = pc]
Return(p) == calls' = [calls EXCEPT ![p] = Idle]
Throw(p, ignore) == calls' = [calls EXCEPT ![p].pc = "failed", ![p].ignore = ignore]

Strikes(kind) ==
    /\ kind \in plan.faults
    /\ plan.left > 0
    /\ plan' = [plan EXCEPT !.left = @ - 1]

--------------------------------------------------------------------------------
(* The relay of p delivers an outer of a group p does not ignore. *)
Receive(p) == \E o \in inbox[p] :
    /\ At(p, "idle")
    /\ inbox' = [inbox EXCEPT ![p] = @ \ {o}]
    /\ IF o[1] \in ignored[p] THEN UNCHANGED calls
       ELSE calls' = [calls EXCEPT ![p] = [Idle EXCEPT !.pc = "put", !.group = o[1], !.index = o[2]]]
    /\ UNCHANGED <<plan, groups, order, usedBytes, ignored, delivered>>

(* A router whose content key is not proved by its sender: the group is ignored. *)
ReceiveUnproved(p) == \E o \in inbox[p] :
    /\ At(p, "idle")
    /\ o[1] \notin ignored[p] /\ Bundle(o[1]).scan # "nym"
    /\ Strikes("invalid")
    /\ inbox' = [inbox EXCEPT ![p] = @ \ {o}]
    /\ calls' = [calls EXCEPT ![p] = [Idle EXCEPT !.pc = "failed", !.group = o[1], !.ignore = TRUE]]
    /\ UNCHANGED <<groups, order, usedBytes, ignored, delivered>>

(* The group p's chunk joins: an expired one is deleted first. *)
Joined(g) == IF g \in Stored \ Expired THEN groups[g] ELSE Fresh

(* The live groups that putOnce may evict for one of g; the oldest of some groups. *)
Candidates(g) == (Stored \ Expired) \ {g}
AreOldest(old, gs) == \A h \in old, k \in gs \ old : <<h, k>> \in order

(* What putOnce deletes for a new chunk of g: what expired, then the oldest    *)
(* until the chunk fits.                                                       *)
Fits(gone) == Freed(gone) + 1 <= MaxBytes
Evicted(g) ==
    Expired \cup (CHOOSE old \in SUBSET Candidates(g) :
        /\ AreOldest(old, Candidates(g))
        /\ Fits(Expired \cup old) \/ old = Candidates(g)
        /\ \A few \in SUBSET old : few # old /\ AreOldest(few, Candidates(g)) => ~Fits(Expired \cup few))

TooLarge(g) == ByteSize(Joined(g)) + 1 > MaxBytes

(* putOnce in one transaction.  A chunk that is already there only makes the    *)
(* group recent.                                                               *)
Put(p) ==
    LET g == Key(p)
        i == calls[p].index
        new == i \notin Joined(g).received
        gone == (IF new THEN Evicted(g) ELSE Expired \cap {g})
        meta == [Joined(g) EXCEPT !.received = @ \cup {i}, !.expired = FALSE]
    IN  /\ At(p, "put")
        /\ new => ~TooLarge(g) /\ Fits(gone)
        /\ groups' = [Without(gone) EXCEPT ![g] = meta]
        /\ usedBytes' = Freed(gone) + (IF new THEN 1 ELSE 0)
        /\ order' = Touched(g, gone)
        /\ IF Bundle(g).scan # "nym" THEN Goto(p, "claim")
           ELSE IF meta.received = Chunks(g) THEN Goto(p, "gather") ELSE Return(p)
        /\ UNCHANGED <<plan, inbox, ignored, delivered>>

(* A group that cannot fit is deleted, unrelated groups are kept; or it finds no *)
(* room after all evictions (which RoomIsMade excludes).                        *)
PutTooLarge(p) ==
    LET g == Key(p)
    IN  /\ At(p, "put")
        /\ calls[p].index \notin Joined(g).received
        /\ \/ TooLarge(g) /\ Drop({g})
           \/ ~TooLarge(g) /\ ~Fits(Evicted(g)) /\ Drop(Evicted(g) \cup {g})
        /\ Throw(p, TRUE)
        /\ UNCHANGED <<plan, inbox, ignored, delivered>>

(* The browser's quota aborts putOnce: the oldest other group goes, in a        *)
(* transaction of its own, and put tries again; with no other group it throws. *)
PutOverQuota(p) ==
    LET others == Stored \ {Key(p)}
    IN  /\ At(p, "put")
        /\ Strikes("quota")
        /\ \/ \E h \in others : AreOldest({h}, others) /\ Drop({h}) /\ UNCHANGED calls
           \/ others = {} /\ Throw(p, FALSE) /\ UNCHANGED <<groups, usedBytes, order>>
        /\ UNCHANGED <<inbox, ignored, delivered>>

(* The carriers of a complete nym group; another processor may have removed     *)
(* them, or begun the group anew, since the put.                               *)
Gather(p) ==
    /\ At(p, "gather")
    /\ IF Key(p) \in Stored /\ groups[Key(p)].received = Chunks(Key(p))
       THEN Goto(p, "deliver")
       ELSE Throw(p, FALSE)
    /\ UNCHANGED <<plan, groups, order, usedBytes, inbox, ignored, delivered>>

--------------------------------------------------------------------------------
(* claimDrain: it waits while another drain's lease runs. *)
Claim(p) ==
    LET g == Key(p)
        meta == [groups[g] EXCEPT !.token = p, !.leased = TRUE, !.expired = FALSE]
    IN  /\ At(p, "claim")
        /\ g \in Stored
        /\ groups[g].token = Free \/ ~groups[g].leased
        /\ groups' = [groups EXCEPT ![g] = meta]
        /\ order' = Touched(g, {})
        /\ calls' = [calls EXCEPT ![p].pc = "read", ![p].meta = meta]
        /\ UNCHANGED <<plan, usedBytes, inbox, ignored, delivered>>

ClaimGone(p) ==
    /\ At(p, "claim")
    /\ Key(p) \notin Stored
    /\ Return(p)
    /\ UNCHANGED <<plan, groups, order, usedBytes, inbox, ignored, delivered>>

Owns(p) == Key(p) \in Stored /\ groups[Key(p)].token = p

(* readDrainChunk: the next chunk and the group's record, if p still drains it  *)
(* and the chunk is there.                                                     *)
Read(p) ==
    LET g == Key(p)
        next == groups[g].nextIndex
        ready == Owns(p) /\ next \in groups[g].received
    IN  /\ At(p, "read")
        /\ calls[p].meta.nextIndex < Bundle(g).total
        /\ calls' = IF ready
                    THEN [calls EXCEPT ![p].pc = "lines", ![p].meta = groups[g],
                                       ![p].row = FirstRow(g, next)]
                    ELSE [calls EXCEPT ![p].pc = "release"]
        /\ UNCHANGED <<plan, groups, order, usedBytes, inbox, ignored, delivered>>

(* The row whose newline is the next one in the text being split. *)
HasLine(p) ==
    LET rows == Bundle(Key(p)).rows
    IN  calls[p].row < Len(rows) /\ rows[calls[p].row + 1] = calls[p].meta.nextIndex

(* onLine goes by the stored row index: row 0 must parse as the payload, any    *)
(* other as a recipient's envelope, with a payload before it.                  *)
Parses(p) ==
    LET c == calls[p]
    IN  IF c.meta.rowIndex = 0 THEN c.row = 0 ELSE c.meta.payload /\ c.row # 0

(* The record after a line was handed over. *)
NextLine(p) ==
    LET c == calls[p]
    IN  [c EXCEPT !.row = @ + 1, !.meta.rowIndex = @ + 1,
                  !.meta.payload = @ \/ c.meta.rowIndex = 0,
                  !.meta.receivers = IF c.row = 0 THEN @ ELSE @ \cup {c.row}]

IsMine(p) == calls[p].row # 0 /\ calls[p].row = Bundle(Key(p)).mine /\ calls[p].found = "nothing"

HandOver(p) ==
    /\ At(p, "lines") /\ HasLine(p) /\ Parses(p) /\ ~IsMine(p)
    /\ calls' = [calls EXCEPT ![p] = NextLine(p)]
    /\ UNCHANGED <<plan, groups, order, usedBytes, inbox, ignored, delivered>>

HandOverWrongRow(p) ==
    /\ At(p, "lines") /\ HasLine(p) /\ ~Parses(p)
    /\ calls' = [calls EXCEPT ![p].pc = "release", ![p].result = "thrown", ![p].ignore = TRUE]
    /\ UNCHANGED <<plan, groups, order, usedBytes, inbox, ignored, delivered>>

(* The reader's own row is decrypted while the lease runs.  It stops a reader   *)
(* that needs no more rows.                                                    *)
Found(p, what) ==
    calls' = [calls EXCEPT ![p] = [NextLine(p) EXCEPT
                 !.found = what, !.pc = IF WholeScan(Key(p)) THEN "lines" ELSE "stop"]]

Decrypt(p) ==
    /\ At(p, "lines") /\ HasLine(p) /\ Parses(p) /\ IsMine(p)
    /\ \/ /\ Found(p, "event")
          /\ UNCHANGED <<plan, delivered>>
       \/ /\ Strikes("deferred")
          /\ Found(p, "deferred")
          /\ delivered' = delivered \cup {<<p, Key(p)>>}
       \/ /\ Strikes("invalid")
          /\ \E ignore \in BOOLEAN : \* whether the error is one of shouldIgnoreGroupError
                calls' = [calls EXCEPT ![p].pc = "release", ![p].result = "thrown", ![p].ignore = ignore]
          /\ UNCHANGED delivered
    /\ UNCHANGED <<groups, order, usedBytes, inbox, ignored>>

(* Mutant of Committed: the receivers read so far stay in memory. *)
CommittedProgress(p, meta) ==
    [groups[Key(p)] EXCEPT
        !.nextIndex = meta.nextIndex, !.rowIndex = meta.rowIndex, !.payload = meta.payload,
        !.leased = TRUE, !.expired = FALSE]

(* commitDrainMeta: what the drain read and handed over, if the token is still  *)
(* p's; the lease starts over.                                                 *)
Committed(p, meta) ==
    [groups[Key(p)] EXCEPT
        !.nextIndex = meta.nextIndex, !.rowIndex = meta.rowIndex, !.payload = meta.payload,
        !.receivers = meta.receivers, !.leased = TRUE, !.expired = FALSE]

Commit(p, meta, then, otherwise) ==
    IF Owns(p)
    THEN /\ groups' = [groups EXCEPT ![Key(p)] = Committed(p, meta)]
         /\ order' = Touched(Key(p), {})
         /\ calls' = [calls EXCEPT ![p] = [then EXCEPT !.meta = Committed(p, meta)]]
    ELSE calls' = [calls EXCEPT ![p] = otherwise] /\ UNCHANGED <<groups, order>>

CommitChunk(p) ==
    LET c == calls[p]
    IN  /\ At(p, "lines") /\ ~HasLine(p)
        /\ Commit(p, [c.meta EXCEPT !.nextIndex = @ + 1],
                  [c EXCEPT !.pc = "read"], [c EXCEPT !.pc = "release"])
        /\ UNCHANGED <<plan, usedBytes, inbox, ignored, delivered>>

CommitStop(p) ==
    LET c == calls[p]
        stopped == [c EXCEPT !.pc = "release", !.result = "stopped"]
    IN  /\ At(p, "stop")
        /\ Commit(p, c.meta, stopped, stopped)
        /\ UNCHANGED <<plan, usedBytes, inbox, ignored, delivered>>

CommitEnd(p) ==
    LET c == calls[p]
    IN  /\ At(p, "read")
        /\ c.meta.nextIndex >= Bundle(Key(p)).total
        /\ Commit(p, c.meta, [c EXCEPT !.pc = "release", !.result = "complete"],
                  [c EXCEPT !.pc = "release"])
        /\ UNCHANGED <<plan, usedBytes, inbox, ignored, delivered>>

(* Where the handler goes on once the drain has ended. *)
AfterDrain(p) ==
    LET c == calls[p]
    IN  CASE c.result = "thrown" -> "failed"
          [] c.found = "event" /\ ~WholeScan(c.group) -> "deliver"
          [] c.found = "deferred" /\ ~WholeScan(c.group) -> "finish"
          [] c.result = "complete" /\ Bundle(c.group).scan = "seed" -> "seed"
          [] c.result = "complete" /\ c.found = "event" -> "deliver"
          [] c.result = "complete" -> "finish"
          [] OTHER -> "idle"

(* releaseDrain, and the handler goes on. *)
Release(p) ==
    /\ At(p, "release")
    /\ groups' = IF Owns(p) THEN [groups EXCEPT ![Key(p)].token = Free, ![Key(p)].leased = FALSE]
                 ELSE groups
    /\ IF AfterDrain(p) = "idle" THEN Return(p) ELSE Goto(p, AfterDrain(p))
    /\ UNCHANGED <<plan, order, usedBytes, inbox, ignored, delivered>>

(* readEnvelopeBundleContent and onSeedEvent.  A group that has gone reads as   *)
(* empty; one that another processor has begun anew throws.                    *)
Seed(p) ==
    /\ At(p, "seed")
    /\ IF Key(p) \in Stored /\ groups[Key(p)].received # Chunks(Key(p))
       THEN Throw(p, FALSE)
       ELSE Goto(p, IF calls[p].found = "event" THEN "deliver" ELSE "finish")
    /\ UNCHANGED <<plan, groups, order, usedBytes, inbox, ignored, delivered>>

(* onEvent or onNymEvent. *)
Deliver(p) ==
    /\ At(p, "deliver")
    /\ delivered' = delivered \cup {<<p, Key(p)>>}
    /\ Goto(p, "finish")
    /\ UNCHANGED <<plan, groups, order, usedBytes, inbox, ignored>>

DeliveryRejected(p) ==
    /\ At(p, "deliver")
    /\ Strikes("reject")
    /\ Throw(p, FALSE)
    /\ UNCHANGED <<groups, order, usedBytes, inbox, ignored, delivered>>

(* The group is removed; one whose row was found is ignored from now on. *)
Finish(p) ==
    /\ At(p, "finish")
    /\ ignored' = IF Bundle(Key(p)).scan = "row" /\ calls[p].found # "nothing"
                  THEN [ignored EXCEPT ![p] = @ \cup {Key(p)}] ELSE ignored
    /\ Drop({Key(p)})
    /\ Return(p)
    /\ UNCHANGED <<plan, inbox, delivered>>

(* The catch of processReadyOuterEvent. *)
Fail(p) ==
    /\ At(p, "failed")
    /\ ignored' = IF calls[p].ignore THEN [ignored EXCEPT ![p] = @ \cup {Key(p)}] ELSE ignored
    /\ Drop({Key(p)})
    /\ Return(p)
    /\ UNCHANGED <<plan, inbox, delivered>>

--------------------------------------------------------------------------------
(* expiresAt passes. *)
Expire(g) ==
    /\ g \in Stored \ Expired
    /\ Strikes("expire")
    /\ groups' = [groups EXCEPT ![g].expired = TRUE]
    /\ UNCHANGED <<order, usedBytes, inbox, ignored, calls, delivered>>

(* drainUntil passes: sooner or later for a drain that died, during a slow       *)
(* line handler for one that lives.                                            *)
Lapse(g) ==
    /\ g \in Stored
    /\ groups[g].leased
    /\ IF groups[g].token = Orphan THEN UNCHANGED plan ELSE Strikes("lapse")
    /\ groups' = [groups EXCEPT ![g].leased = FALSE]
    /\ UNCHANGED <<order, usedBytes, inbox, ignored, calls, delivered>>

(* Another store over the same database becomes ready: cleanupStaleRaw. *)
CleanupStale ==
    /\ Expired # {}
    /\ Drop(Expired)
    /\ UNCHANGED <<plan, inbox, ignored, calls, delivered>>

Died(meta) == IF meta.token \in Processors THEN [meta EXCEPT !.token = Orphan] ELSE meta

(* The page dies.  The next one has processors of the same scope, cleans up      *)
(* before they start, and reads its relays again.                              *)
Crash ==
    /\ Strikes("crash")
    /\ groups' = [g \in Groups |-> IF g \in Stored \ Expired THEN Died(groups[g]) ELSE None]
    /\ usedBytes' = Freed(Expired)
    /\ order' = Remaining(Expired)
    /\ inbox' = [p \in Processors |-> IF p \in plan.readers THEN Outers ELSE {}]
    /\ ignored' = [p \in Processors |-> {}]
    /\ calls' = [p \in Processors |-> Idle]
    /\ UNCHANGED delivered

(* Nothing is left to receive. *)
Quiet == \A p \in Processors : At(p, "idle") /\ inbox[p] = {}
Rest == Quiet /\ UNCHANGED vars

Init ==
    /\ plan \in Plans
    /\ groups = [g \in Groups |-> None]
    /\ order = {}
    /\ usedBytes = 0
    /\ inbox = [p \in Processors |-> IF p \in plan.readers THEN Outers ELSE {}]
    /\ ignored = [p \in Processors |-> {}]
    /\ calls = [p \in Processors |-> Idle]
    /\ delivered = {}

Step(p) ==
    \/ Receive(p) \/ ReceiveUnproved(p) \/ Put(p) \/ PutTooLarge(p) \/ PutOverQuota(p) \/ Gather(p)
    \/ Claim(p) \/ ClaimGone(p) \/ Read(p)
    \/ HandOver(p) \/ HandOverWrongRow(p) \/ Decrypt(p)
    \/ CommitChunk(p) \/ CommitStop(p) \/ CommitEnd(p) \/ Release(p)
    \/ Seed(p) \/ Deliver(p) \/ DeliveryRejected(p) \/ Finish(p) \/ Fail(p)

Next ==
    \/ \E p \in Processors : Step(p)
    \/ \E g \in Groups : Expire(g) \/ Lapse(g)
    \/ CleanupStale \/ Crash \/ Rest

Spec == Init /\ [][Next]_vars

--------------------------------------------------------------------------------
TypeOK ==
    /\ plan.left \in Nat
    /\ Stored \subseteq Offered
    /\ \A g \in Stored : groups[g] \in Metas /\ groups[g].received \subseteq Chunks(g)
    /\ order \subseteq Stored \X Stored
    /\ \A g, h \in Stored : <<g, h>> \in order <=> g # h /\ <<h, g>> \notin order
    /\ usedBytes \in Nat
    /\ inbox \in [Processors -> SUBSET Outers]
    /\ ignored \in [Processors -> SUBSET Groups]
    /\ delivered \subseteq Processors \X Groups
    /\ \A p \in Processors :
          /\ ~At(p, "idle") => Key(p) \in Offered
          /\ calls[p].meta \in Metas
          /\ calls[p].result \in {"partial", "stopped", "complete", "thrown"}
          /\ calls[p].found \in {"nothing", "event", "deferred"}

(* The usage record, kept by increments through puts, expiries, evictions,      *)
(* removals and crashes, is the size of the stored groups, and within budget   *)
(* (README: they "share a 16 MiB logical budget").                             *)
UsageExact == usedBytes = Held(Stored) /\ usedBytes <= MaxBytes

(* A chunk is refused only when its own group outgrows the budget: evicting the  *)
(* others always makes room for one that does not (received-chunks.js:328-343). *)
RoomIsMade == \A g \in Groups : ~TooLarge(g) => Fits(Evicted(g))

(* A group is drained in order: what its record says was read is there, and     *)
(* when the whole bundle is read, the rows counted, the payload and the         *)
(* receivers are those of exactly the chunks drained, whichever processors      *)
(* drained them, however their leases lapsed and the page died.                *)
DrainedPrefix == \A g \in Stored :
    LET m == groups[g]
    IN  /\ 0..(m.nextIndex - 1) \subseteq m.received
        /\ WholeScan(g) =>
              /\ m.rowIndex = FirstRow(g, m.nextIndex)
              /\ m.payload = (m.rowIndex > 0)
              /\ m.receivers = 1..(m.rowIndex - 1)

(* The store keeps its type, its accounts, its promise of room and its progress. *)
StoreExact == TypeOK /\ UsageExact /\ RoomIsMade /\ DrainedPrefix

(* "Recovery seeders and own-sent messages need the full recipient list": what  *)
(* a drain that completes reports lists every recipient, though several        *)
(* processors may each have read a part.                                       *)
WholeListAtEnd == \A p \in Processors :
    calls[p].result = "complete" /\ WholeScan(Key(p)) =>
        calls[p].meta.receivers = 1..(Len(Bundle(Key(p)).rows) - 1)

(* No chunk is put without being read: once no processor works, no group is     *)
(* left whose next chunk is there, whatever chunk came while which other was   *)
(* being drained.  (A page that died leaves its group to the next outer.)      *)
NothingLeftUndrained ==
    (\A p \in Processors : At(p, "idle")) /\ "crash" \notin plan.faults =>
        \A g \in Stored : groups[g].received # Chunks(g)
            /\ (Bundle(g).scan # "nym" => groups[g].nextIndex \notin groups[g].received)

(* The event of a group is delivered, or a processor has it in hand. *)
Safe(g) ==
    \/ Bundle(g).mine = 0
    \/ \E p \in Processors :
          <<p, g>> \in delivered \/ (Key(p) = g /\ calls[p].found = "event")

(* A reader that stops at its row loses no message: it removes a group after    *)
(* its event was delivered or deferred, and a line that does not parse, in a   *)
(* drain that starts over where another processor stopped, only costs a copy.  *)
NothingDropped == \A p \in Processors :
    /\ At(p, "finish") /\ Bundle(Key(p)).scan = "row" => Safe(Key(p))
    /\ At(p, "failed") /\ calls[p].result = "thrown" /\ Bundle(Key(p)).scan = "row" =>
          plan.faults \cap {"crash", "reject", "invalid"} # {} \/ Safe(Key(p))

(* ignoredGroups: a processor delivers a message once, however its remaining    *)
(* chunks arrive afterwards.                                                   *)
OncePerProcessor == \A p \in Processors :
    At(p, "deliver") /\ Bundle(Key(p)).scan = "row" /\ "crash" \notin plan.faults =>
        <<p, Key(p)>> \notin delivered

(* A drain never undoes what another drain of the group committed. *)
DrainsForwardStep == \A g \in Stored \ Expired :
    groups'[g] # None => groups'[g].nextIndex >= groups[g].nextIndex

(* A message the reader is a recipient of reaches the application, also when    *)
(* the reader scans the whole bundle (tests/private-channel.test.js:1692       *)
(* expects the event of a watchtower beside its seed).                         *)
WholeScanDelivers == \A p \in Processors :
    At(p, "finish") /\ WholeScan(Key(p)) => Safe(Key(p))

================================================================================
