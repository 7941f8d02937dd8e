---------------------------- MODULE WebStorageQueue ----------------------------
(***************************************************************************)
(* web-storage-queue/index.js: a deque kept in localStorage, one key per    *)
(* row, one key for {head, tail} and one for the journal of a positional    *)
(* move.  localStorage has no transactions, so an operation is a script of  *)
(* single writes; a page that dies, or a write that throws, leaves any      *)
(* prefix of it.  Every operation first runs readState, which repairs what  *)
(* it finds, and those repairs are writes of the same script.               *)
(*                                                                         *)
(* The queue is modelled with no maxBytes, its default: nothing is evicted  *)
(* and usedBytes, which readState rebuilds, decides nothing.                *)
(***************************************************************************)
EXTENDS Integers, FiniteSets, Sequences, SequencesExt

CONSTANTS
    Uses,          \* sets of public methods that an application may call
    NoOperation,   \* the operation key is absent
    NoState,       \* the state key is absent
    MaxItems,      \* bound: items ever enqueued
    MaxInterrupts  \* bound: crashes and failing writes

Items == 1..MaxItems
Positions == -(MaxItems + 1)..(MaxItems + 1)

ASSUME BoundsAssumption == MaxItems \in Nat /\ MaxInterrupts \in Nat

VARIABLES
    storage,    \* what localStorage holds
    contents,   \* what storedItems would yield now: Contents(storage)
    script,     \* the writes the running operation has still to make
    allowed,    \* contents a reader may still find while that operation runs
    promised,   \* contents a reader must find once it has ended
    nextItem,   \* items are numbered in the order they are offered
    interrupts, \* interruptions so far
    use         \* the methods this application calls

vars == <<storage, contents, script, allowed, promised, nextItem, interrupts, use>>

--------------------------------------------------------------------------------
(* localStorage and its writes. *)

Put(position, item) == [kind |-> "put", position |-> position, item |-> item]
Delete(position) == [kind |-> "delete", position |-> position]
SetState(state) == [kind |-> "state", state |-> state]
SetOperation(operation) == [kind |-> "operation", operation |-> operation]

Bounds(head, tail) == [head |-> head, tail |-> tail]

(* writeState: an empty range is stored only when keepEmpty asks for it. *)
WriteState(head, tail) == SetState(IF head >= tail THEN NoState ELSE Bounds(head, tail))
WriteStateKeepEmpty(head, tail) == SetState(Bounds(head, tail))

Apply(stored, write) ==
    CASE write.kind = "put" ->
           [stored EXCEPT !.rows = [p \in DOMAIN stored.rows \cup {write.position} |->
                IF p = write.position THEN write.item ELSE stored.rows[p]]]
      [] write.kind = "delete" ->
           [stored EXCEPT !.rows = [p \in DOMAIN stored.rows \ {write.position} |-> stored.rows[p]]]
      [] write.kind = "state" -> [stored EXCEPT !.state = write.state]
      [] write.kind = "operation" -> [stored EXCEPT !.operation = write.operation]

Run(stored, writes) == FoldLeft(Apply, stored, writes)

Filled(stored, position) == position \in DOMAIN stored.rows
Upto(first, last) == [i \in 1..(last - first + 1) |-> first + i - 1]

(* Mutant of MoveItem: the source goes before its copy is there. *)
MoveItemDeletesFirst(stored, from, to) ==
    IF Filled(stored, from) THEN <<Delete(from), Put(to, stored.rows[from])>> ELSE <<>>

(* moveItem copies a row and then deletes it; a missing source is left alone. *)
MoveItem(stored, from, to) ==
    IF Filled(stored, from) THEN <<Put(to, stored.rows[from]), Delete(from)>> ELSE <<>>

--------------------------------------------------------------------------------
(* The journal of a positional move, and its completion from any cursor. *)

InsertOperation(head, tail, slot, item) ==
    [type |-> "insert", head |-> head, tail |-> tail, slot |-> slot,
     cursor |-> tail - 1, item |-> item]
RemoveOperation(head, tail, slot) ==
    [type |-> "remove", head |-> head, tail |-> tail, slot |-> slot, cursor |-> slot]

(* Mutant of FinishInsert: the new row is written before room is made for it. *)
FinishInsertItemFirst(stored, op) ==
    LET placed == Apply(stored, Put(op.slot, op.item))
        moves == [i \in 1..(op.cursor - op.slot) |->
                    LET cursor == op.cursor - i + 1
                    IN  Append(MoveItem(placed, cursor - 1, cursor),
                               SetOperation([op EXCEPT !.cursor = cursor - 1]))]
    IN  <<WriteState(op.head, op.tail), Put(op.slot, op.item)>> \o FlattenSeq(moves) \o
        <<SetOperation(NoOperation), WriteState(op.head, op.tail)>>

(* Rows move up from the tail; the cursor is stored after each. *)
FinishInsert(stored, op) ==
    LET moves == [i \in 1..(op.cursor - op.slot) |->
                    LET cursor == op.cursor - i + 1
                    IN  Append(MoveItem(stored, cursor - 1, cursor),
                               SetOperation([op EXCEPT !.cursor = cursor - 1]))]
    IN  <<WriteState(op.head, op.tail)>> \o FlattenSeq(moves) \o
        <<Put(op.slot, op.item), WriteStateKeepEmpty(op.head, op.tail),
          SetOperation(NoOperation), WriteState(op.head, op.tail)>>

(* Rows move down over the removed slot; the last one leaves its copy behind. *)
FinishRemove(stored, op) ==
    LET moves == [i \in 1..(op.tail - op.cursor) |->
                    LET cursor == op.cursor + i - 1
                    IN  Append(MoveItem(stored, cursor + 1, cursor),
                               SetOperation([op EXCEPT !.cursor = cursor + 1]))]
    IN  <<WriteStateKeepEmpty(op.head, op.tail)>> \o FlattenSeq(moves) \o
        <<Delete(op.tail), SetOperation(NoOperation), WriteState(op.head, op.tail)>>

--------------------------------------------------------------------------------
(* readState. *)

StoredBounds(stored) == IF stored.state = NoState THEN Bounds(0, 0) ELSE stored.state

(* An unfinished journal is completed first and gives the bounds. *)
OperationRepair(stored) ==
    IF stored.operation = NoOperation THEN <<>>
    ELSE IF stored.operation.type = "insert" THEN FinishInsert(stored, stored.operation)
    ELSE FinishRemove(stored, stored.operation)
OperationBounds(stored) ==
    IF stored.operation = NoOperation THEN StoredBounds(stored)
    ELSE Bounds(stored.operation.head, stored.operation.tail)

(* recoverHead: rows left in front of the head come back, then the head passes *)
(* the holes.                                                                  *)
RecoverHead(stored, state) ==
    LET lowest == CHOOSE h \in Positions :
                    /\ h <= state.head
                    /\ \A p \in h..(state.head - 1) : Filled(stored, p)
                    /\ ~Filled(stored, h - 1)
        first == CHOOSE h \in Positions :
                    /\ h >= lowest
                    /\ \A p \in lowest..(h - 1) : p < state.tail /\ ~Filled(stored, p)
                    /\ h >= state.tail \/ Filled(stored, h)
    IN  Bounds(first, state.tail)

(* recoverTail: the same at the other end. *)
RecoverTail(stored, state) ==
    LET highest == CHOOSE t \in Positions :
                    /\ t >= state.tail
                    /\ \A p \in state.tail..(t - 1) : Filled(stored, p)
                    /\ ~Filled(stored, t)
        last == CHOOSE t \in Positions :
                    /\ t <= highest
                    /\ \A p \in t..(highest - 1) : p >= state.head /\ ~Filled(stored, p)
                    /\ t <= state.head \/ Filled(stored, t - 1)
    IN  Bounds(state.head, last)

RepairWrite(before, after) ==
    IF before = after THEN <<>> ELSE <<WriteState(after.head, after.tail)>>

ReadState(stored) ==
    LET journal == OperationRepair(stored)
        finished == Run(stored, journal)
        state == OperationBounds(stored)
        headed == RecoverHead(finished, state)
        tailed == RecoverTail(finished, headed)
    IN  [writes |-> journal \o RepairWrite(state, headed) \o RepairWrite(headed, tailed),
         state |-> tailed]

(* What storedItems yields to a reader that opens the queue now. *)
Contents(stored) ==
    LET read == ReadState(stored)
        rows == Run(stored, read.writes).rows
        listed == SelectSeq(Upto(read.state.head, read.state.tail - 1),
                            LAMBDA p : p \in DOMAIN rows)
    IN  [i \in DOMAIN listed |-> rows[listed[i]]]

--------------------------------------------------------------------------------
(* The operations: the writes each makes after readState, and the contents a  *)
(* reader must find once it is done.  Positions run head..tail-1, holes        *)
(* included.                                                                  *)

RowsInOrder(rows, positions) ==
    LET listed == SelectSeq(Upto(-(MaxItems + 1), MaxItems + 1), LAMBDA p : p \in positions)
    IN  [i \in DOMAIN listed |-> rows[listed[i]]]

PushWrites(state, item) ==
    <<WriteState(state.head, state.tail + 1), Put(state.tail, item),
      WriteStateKeepEmpty(state.head, state.tail + 1)>>

UnshiftWrites(state, item) ==
    <<WriteState(state.head - 1, state.tail), Put(state.head - 1, item),
      WriteStateKeepEmpty(state.head - 1, state.tail)>>

(* The bound advances before the row goes: a crash in between restores it. *)
ShiftWrites(state) ==
    <<WriteStateKeepEmpty(state.head + 1, state.tail), Delete(state.head),
      WriteState(state.head + 1, state.tail)>>

PopWrites(state) ==
    <<WriteStateKeepEmpty(state.head, state.tail - 1), Delete(state.tail - 1),
      WriteState(state.head, state.tail - 1)>>

SetAtWrites(state, position, item) ==
    <<Put(position, item), WriteStateKeepEmpty(state.head, state.tail)>>

InsertAtWrites(stored, state, slot, item) ==
    LET op == InsertOperation(state.head, state.tail + 1, slot, item)
    IN  <<WriteState(op.head, op.tail), SetOperation(op)>> \o FinishInsert(stored, op)

RemoveAtWrites(stored, state, slot) ==
    LET op == RemoveOperation(state.head, state.tail - 1, slot)
    IN  <<WriteStateKeepEmpty(op.head, op.tail), SetOperation(op)>> \o FinishRemove(stored, op)

DeleteEach(positions) ==
    LET listed == SelectSeq(Upto(-(MaxItems + 1), MaxItems + 1), LAMBDA p : p \in positions)
    IN  [i \in DOMAIN listed |-> Delete(listed[i])]

RemoveWhereWrites(state, positions) ==
    Append(DeleteEach(positions), WriteState(state.head, state.tail))

ClearWrites(state, positions) ==
    DeleteEach(positions) \o <<SetState(NoState), SetOperation(NoOperation)>>

--------------------------------------------------------------------------------
(* An operation starts when the page calls it: it reads, then owes its writes. *)

Begin(read, writes, steps, outcome) ==
    /\ script' = read.writes \o writes
    /\ allowed' = {contents, outcome} \cup steps
    /\ promised' = outcome
    /\ UNCHANGED <<storage, contents, interrupts, use>>

Idle == script = <<>>

(* Bulk deletions may stop after any of their rows, in position order. *)
PartialDeletions(rows, positions) ==
    {RowsInOrder(rows, DOMAIN rows \ {p \in positions : p < limit}) : limit \in Positions}

AddItem(operation) ==
    LET read == ReadState(storage)
        item == nextItem
        state == read.state
        done == Run(storage, read.writes)
    IN  /\ Idle
        /\ operation \in use
        /\ nextItem <= MaxItems
        /\ nextItem' = nextItem + 1
        /\ \/ /\ operation = "push"
              /\ Begin(read, PushWrites(state, item), {}, Append(contents, item))
           \/ /\ operation = "unshift"
              /\ Begin(read, UnshiftWrites(state, item), {}, <<item>> \o contents)
           \/ /\ operation = "setAt"
              /\ \E position \in state.head..(state.tail - 1) :
                    Begin(read, SetAtWrites(state, position, item), {},
                          RowsInOrder([p \in DOMAIN done.rows \cup {position} |->
                                          IF p = position THEN item ELSE done.rows[p]],
                                      DOMAIN done.rows \cup {position}))
           \/ /\ operation = "insertAt"
              /\ \E slot \in state.head..state.tail :
                    Begin(read, InsertAtWrites(done, state, slot, item), {},
                          RowsInOrder(done.rows, {p \in DOMAIN done.rows : p < slot})
                            \o <<item>> \o
                          RowsInOrder(done.rows, {p \in DOMAIN done.rows : p >= slot}))

DropItems(operation) ==
    LET read == ReadState(storage)
        state == read.state
        done == Run(storage, read.writes)
    IN  /\ Idle
        /\ operation \in use
        /\ contents # <<>>
        /\ UNCHANGED nextItem
        /\ \/ /\ operation = "shift"
              /\ Begin(read, ShiftWrites(state), {}, Tail(contents))
           \/ /\ operation = "pop"
              /\ Begin(read, PopWrites(state), {}, Front(contents))
           \/ /\ operation = "removeAt"
              /\ \E slot \in state.head..(state.tail - 1) :
                    Begin(read, RemoveAtWrites(done, state, slot), {},
                          RowsInOrder(done.rows, DOMAIN done.rows \ {slot}))
           \/ /\ operation = "removeWhere"
              /\ \E positions \in SUBSET DOMAIN done.rows :
                    Begin(read, RemoveWhereWrites(state, positions),
                          PartialDeletions(done.rows, positions),
                          RowsInOrder(done.rows, DOMAIN done.rows \ positions))
           \/ /\ operation = "clear"
              /\ Begin(read, ClearWrites(state, DOMAIN done.rows),
                       PartialDeletions(done.rows, DOMAIN done.rows), <<>>)

(* One write reaches localStorage. *)
Write ==
    /\ script # <<>>
    /\ storage' = Apply(storage, Head(script))
    /\ contents' = Contents(storage')
    /\ script' = Tail(script)
    /\ allowed' = IF contents' = contents THEN allowed ELSE allowed \ {contents}
    /\ UNCHANGED <<promised, nextItem, interrupts, use>>

(* The page dies, or the next write throws out of the operation. *)
Interrupt ==
    /\ script # <<>>
    /\ interrupts < MaxInterrupts
    /\ interrupts' = interrupts + 1
    /\ script' = <<>>
    /\ allowed' = {contents}
    /\ promised' = contents
    /\ UNCHANGED <<storage, contents, nextItem, use>>

Init ==
    /\ storage = [rows |-> [p \in {} |-> 0], state |-> NoState, operation |-> NoOperation]
    /\ contents = <<>>
    /\ script = <<>>
    /\ allowed = {<<>>}
    /\ promised = <<>>
    /\ nextItem = 1
    /\ interrupts = 0
    /\ use \in Uses

Next ==
    \/ \E operation \in use : AddItem(operation) \/ DropItems(operation)
    \/ Write
    \/ Interrupt

Spec == Init /\ [][Next]_vars

--------------------------------------------------------------------------------
(* Properties. *)

(* The stored keys have the shape web-storage-queue/index.js writes. *)
TypeOK ==
    /\ DOMAIN storage.rows \subseteq Positions
    /\ storage.rows \in [DOMAIN storage.rows -> Items]
    /\ storage.state = NoState \/ storage.state \in [head: Positions, tail: Positions]
    /\ storage.operation # NoOperation =>
          /\ storage.operation.head <= storage.operation.slot
          /\ storage.operation.cursor \in storage.operation.slot..storage.operation.tail
          /\ storage.operation.type = "insert" =>
                /\ storage.operation.cursor < storage.operation.tail
                /\ storage.operation.item \in Items
    /\ nextItem \in 1..(MaxItems + 1)
    /\ interrupts \in 0..MaxInterrupts
    /\ use \in Uses

(* Whatever prefix of an operation's writes survived, readState finds either   *)
(* the contents before it or the contents it promised (a bulk deletion may     *)
(* have stopped on the way), and never again contents already left:           *)
(* "localStorage has no transactions, so repair durable invariants before use" *)
(* (web-storage-queue/index.js).                                              *)
CrashAtomic == contents \in allowed

(* An operation that ran to its end left exactly what it says: each row it     *)
(* returned or removed is gone, each row it added is in its place.             *)
CompletedInFull == Idle => contents = promised

(* No row is left where no reader looks: such a row could reappear once the    *)
(* bounds come back to its position.                                           *)
NoStrayRow ==
    LET read == ReadState(storage)
    IN  DOMAIN Run(storage, read.writes).rows \subseteq read.state.head..(read.state.tail - 1)

(* Every reload finds a queue: all of the above at every instant. *)
Durable == TypeOK /\ CrashAtomic /\ CompletedInFull /\ NoStrayRow

(* The queue implements the atomic deque. *)
Abstract == INSTANCE Deque WITH content <- contents
ImplementsDeque == Abstract!Spec
================================================================================
