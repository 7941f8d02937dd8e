--------------------------- MODULE QueueReservations ---------------------------
(***************************************************************************)
(* Leased delivery from one IndexedDB queue shared by several sessions      *)
(* (browser tabs or processes): idb-queue/index.js push, coalesceBy,        *)
(* removeBy and reserve with its ack, nack and renew, under the 'reject'    *)
(* eviction policy, the way private-messenger/index.js drives its inbox.    *)
(*                                                                         *)
(* Every public operation is one IndexedDB readwrite transaction, so it is  *)
(* one action.  The caller reads Date.now() before the transaction is       *)
(* scheduled: an action carries a time that may lie up to MaxDelay behind   *)
(* the clock.  A crashed session forgets its handles; the database stays.   *)
(***************************************************************************)
EXTENDS Integers, FiniteSets, FiniteSetsExt

CONSTANTS
    Sessions,    \* queue handles opened on the same database
    Keys,        \* coalescing keys (values of the byCoalescingKey index)
    NoKey,       \* the key of a message that does not coalesce
    KeepOldest,  \* the keys whose messages are coalesced with keep: 'oldest'
    MaxVersion,  \* versions of a message: its coalescingOrder, and its event
    ByteSize,    \* stored size of a message of each version
    MaxBytes,    \* the queue's maxBytes
    Lease,       \* leaseMs, in ticks
    MaxDelay,    \* bound: ticks between a call and its transaction
    MaxTime,     \* bound: ticks of the clock
    MaxItems,    \* bound: messages accepted
    MaxTokens,   \* bound: reservations taken
    MaxHeld      \* usage: messages leased at one time

Versions == 1..MaxVersion

ASSUME KeysAssumption == NoKey \notin Keys /\ KeepOldest \subseteq Keys
ASSUME BoundsAssumption ==
    /\ MaxVersion \in Nat /\ MaxDelay \in Nat /\ MaxTime \in Nat
    /\ MaxItems \in Nat /\ MaxTokens \in Nat /\ MaxHeld \in Nat /\ MaxBytes \in Nat
ASSUME LeaseAssumption == Lease \in Nat \ {0}
ASSUME SizeAssumption == ByteSize \in [Versions -> Nat \ {0}]

VARIABLES
    clock,      \* Date.now()
    records,    \* the items store: position -> stored record
    head, tail, \* the persisted queue state: positions head..tail-1 ...
    usedBytes,  \* ... and the byte estimate of what they hold
    handles,    \* token -> what the session that reserved it holds
    nextToken,  \* crypto.randomUUID(): tokens never repeat
    outcome,    \* what the callers were told became of each message
    nextId      \* messages accepted so far, plus one

store == <<records, head, tail, usedBytes>>
ghosts == <<outcome, nextId>>
vars == <<clock, records, head, tail, usedBytes, handles, nextToken, outcome, nextId>>

--------------------------------------------------------------------------------
(* The data.  `id` names one accepted call of push or coalesceBy, so that two  *)
(* messages of equal content stay distinct.  NoToken marks a record that has   *)
(* no reservation.                                                            *)

NoToken == 0
Tokens == 1..MaxTokens
Ids == 1..MaxItems
Times == 0..MaxTime
Outcomes == {"none", "stored", "acked", "superseded", "removed"}

Item == [id: Ids, key: Keys \cup {NoKey}, version: Versions]
Record == [item: Item, token: {NoToken} \cup Tokens, until: Nat]
Handle == [session: Sessions, position: Nat, id: Ids, until: Nat, promised: Nat]

Fresh(item) == [item |-> item, token |-> NoToken, until |-> 0]
Bytes(record) == ByteSize[record.item.version]

(* Mutant of Active: the lease is taken to end one tick early. *)
ActiveEndsEarly(record, now) == record.token # NoToken /\ record.until > now + 1

(* A reservation still holds its record at a caller's time. *)
Active(record, now) == record.token # NoToken /\ record.until > now

(* Mutant of LeaseHeld: any running lease on the position will do. *)
LeaseHeldByAnyone(position, token, at) ==
    position \in DOMAIN records /\ records[position].until > at

(* update() accepts a handle only while its own token still leases the record. *)
LeaseHeld(position, token, at) ==
    /\ position \in DOMAIN records
    /\ records[position].token = token
    /\ records[position].until > at

Without(positions) == [p \in DOMAIN records \ positions |-> records[p]]
With(position, record) ==
    [p \in DOMAIN records \cup {position} |->
        IF p = position THEN record ELSE records[p]]

TotalBytes(stored) == MapThenSumSet(LAMBDA p : Bytes(stored[p]), DOMAIN stored)
(* Mutant of ReleasedBytes: deleted records are counted, not measured. *)
ReleasedRows(positions) == Cardinality(positions)

ReleasedBytes(positions) == MapThenSumSet(LAMBDA p : Bytes(records[p]), positions)
AtLeastZero(n) == IF n < 0 THEN 0 ELSE n

(* trimBounds: head and tail hug the stored endpoints, an empty queue is 0..0. *)
TrimBounds(stored) ==
    /\ head' = IF DOMAIN stored = {} THEN 0 ELSE Min(DOMAIN stored)
    /\ tail' = IF DOMAIN stored = {} THEN 0 ELSE Max(DOMAIN stored) + 1

(* Deleting records by index or by acknowledgement. *)
DeleteRecords(positions) ==
    /\ records' = Without(positions)
    /\ usedBytes' = IF DOMAIN records = positions THEN 0
                    ELSE AtLeastZero(usedBytes - ReleasedBytes(positions))
    /\ TrimBounds(Without(positions))

Told(ids, what) == [i \in Ids |-> IF i \in ids THEN what ELSE outcome[i]]
IdsAt(positions) == {records[p].item.id : p \in positions}

(* A call reads its clock before its transaction runs. *)
CallTimes == {t \in Times : t <= clock /\ clock <= t + MaxDelay}

--------------------------------------------------------------------------------
(* Producers. *)

(* The inbox declares a unique index on the message's event. *)
EventStored(key, version) ==
    \E p \in DOMAIN records :
        records[p].item.key = key /\ records[p].item.version = version

Fits(size) == size <= MaxBytes /\ usedBytes + size <= MaxBytes

(* pushInTransaction under 'reject': a write over the limit throws instead. *)
Append(item) ==
    /\ Fits(ByteSize[item.version])
    /\ records' = With(tail, Fresh(item))
    /\ head' = IF head >= tail THEN tail ELSE head
    /\ tail' = tail + 1
    /\ usedBytes' = usedBytes + ByteSize[item.version]

NewItem(key, version) == [id |-> nextId, key |-> key, version |-> version]

Push(version) ==
    /\ nextId <= MaxItems
    /\ ~EventStored(NoKey, version)
    /\ Append(NewItem(NoKey, version))
    /\ outcome' = Told({nextId}, "stored")
    /\ nextId' = nextId + 1
    /\ UNCHANGED <<clock, handles, nextToken>>

Matching(key) == {p \in DOMAIN records : records[p].item.key = key}
Pending(key, now) == {p \in Matching(key) : ~Active(records[p], now)}

(* The comparator ignores what is not newer than every stored match. *)
NewerThanMatches(key, version) ==
    \A p \in Matching(key) : version > records[p].item.version

(* No match is pending: the new message is appended, behind any active one. *)
CoalesceAppend(key, version, now) ==
    /\ nextId <= MaxItems
    /\ NewerThanMatches(key, version)
    /\ Pending(key, now) = {}
    /\ Append(NewItem(key, version))
    /\ outcome' = Told({nextId}, "stored")
    /\ nextId' = nextId + 1
    /\ UNCHANGED <<clock, handles, nextToken>>

(* keep: 'oldest' ignores a new message while one is pending. *)
MayReplace(key) == key \notin KeepOldest

(* The oldest pending match keeps its place and takes the new value, the other *)
(* pending matches go.  The new record carries no reservation.                 *)
CoalesceReplace(key, version, now) ==
    LET pending == Pending(key, now)
        target == Min(pending)
        others == pending \ {target}
        left == AtLeastZero(usedBytes - ReleasedBytes(others))
        delta == ByteSize[version] - Bytes(records[target])
        replaced == [p \in DOMAIN records \ others |->
                        IF p = target THEN Fresh(NewItem(key, version)) ELSE records[p]]
    IN  /\ nextId <= MaxItems
        /\ NewerThanMatches(key, version)
        /\ MayReplace(key)
        /\ pending # {}
        /\ ByteSize[version] <= MaxBytes
        /\ delta > 0 => left + delta <= MaxBytes
        /\ records' = replaced
        /\ usedBytes' = AtLeastZero(left + delta)
        /\ TrimBounds(replaced)
        /\ outcome' = [Told(IdsAt(pending), "superseded") EXCEPT ![nextId] = "stored"]
        /\ nextId' = nextId + 1
        /\ UNCHANGED <<clock, handles, nextToken>>

(* removeBy, e.g. clearChannel: every match goes, reserved or not. *)
RemoveBy(key) ==
    /\ Matching(key) # {}
    /\ DeleteRecords(Matching(key))
    /\ outcome' = Told(IdsAt(Matching(key)), "removed")
    /\ UNCHANGED <<clock, handles, nextToken, nextId>>

--------------------------------------------------------------------------------
(* Consumers. *)

Available(now) == {p \in DOMAIN records : ~Active(records[p], now)}

(* reserve: the first record in position order that nobody leases. *)
Reserve(session, now) ==
    LET position == Min(Available(now))
    IN  /\ nextToken <= MaxTokens
        /\ Cardinality({p \in DOMAIN records : Active(records[p], clock)}) < MaxHeld
        /\ Available(now) # {}
        /\ records' = [records EXCEPT ![position].token = nextToken,
                                      ![position].until = now + Lease]
        /\ handles' = [t \in DOMAIN handles \cup {nextToken} |->
                         IF t = nextToken
                         THEN [session |-> session, position |-> position,
                               id |-> records[position].item.id,
                               until |-> now + Lease, promised |-> now + Lease]
                         ELSE handles[t]]
        /\ nextToken' = nextToken + 1
        /\ UNCHANGED <<clock, head, tail, usedBytes, ghosts>>

(* The updates of one handle are serialized by its `tail` promise.  A settled  *)
(* handle only repeats its first answer, so it is forgotten here.              *)
Settle(token) == handles' = [t \in DOMAIN handles \ {token} |-> handles[t]]

Ack(token, at) ==
    /\ LeaseHeld(handles[token].position, token, at)
    /\ DeleteRecords({handles[token].position})
    /\ outcome' = Told({handles[token].id}, "acked")
    /\ Settle(token)
    /\ UNCHANGED <<clock, nextToken, nextId>>

(* Mutant of Superseded: the record is among its own matches. *)
SupersededBySelf(position) ==
    /\ records[position].item.key # NoKey
    /\ \E p \in Matching(records[position].item.key) : p >= position

(* A later record with the same coalescing key supersedes a released one. *)
Superseded(position) ==
    /\ records[position].item.key # NoKey
    /\ \E p \in Matching(records[position].item.key) : p > position

NackRequeue(token, at) ==
    LET position == handles[token].position
    IN  /\ LeaseHeld(position, token, at)
        /\ ~Superseded(position)
        /\ records' = [records EXCEPT ![position] = Fresh(records[position].item)]
        /\ Settle(token)
        /\ UNCHANGED <<clock, head, tail, usedBytes, nextToken, ghosts>>

NackSuperseded(token, at) ==
    LET position == handles[token].position
    IN  /\ LeaseHeld(position, token, at)
        /\ Superseded(position)
        /\ DeleteRecords({position})
        /\ outcome' = Told({handles[token].id}, "superseded")
        /\ Settle(token)
        /\ UNCHANGED <<clock, nextToken, nextId>>

(* renew answers true and changes the deadline of the record it read, but      *)
(* never writes that record back: the stored deadline stays.                   *)
Renew(token, at) ==
    /\ LeaseHeld(handles[token].position, token, at)
    /\ handles' = [handles EXCEPT ![token].promised = at + Lease]
    /\ UNCHANGED <<clock, store, nextToken, ghosts>>

(* ack, nack or renew of a lost lease answers false and settles the handle. *)
UpdateRefused(token, at) ==
    /\ ~LeaseHeld(handles[token].position, token, at)
    /\ Settle(token)
    /\ UNCHANGED <<clock, store, nextToken, ghosts>>

(* A tab or process ends without releasing what it holds. *)
Crash(session) ==
    /\ \E t \in DOMAIN handles : handles[t].session = session
    /\ handles' = [t \in {u \in DOMAIN handles : handles[u].session # session} |-> handles[t]]
    /\ UNCHANGED <<clock, store, nextToken, ghosts>>

Tick ==
    /\ clock < MaxTime
    /\ clock' = clock + 1
    /\ UNCHANGED <<store, handles, nextToken, ghosts>>

--------------------------------------------------------------------------------
Init ==
    /\ clock = 0
    /\ records = [p \in {} |-> {}]
    /\ head = 0 /\ tail = 0 /\ usedBytes = 0
    /\ handles = [t \in {} |-> {}]
    /\ nextToken = 1
    /\ outcome = [i \in Ids |-> "none"]
    /\ nextId = 1

Produce ==
    \/ \E version \in Versions : Push(version)
    \/ \E key \in Keys, version \in Versions, now \in CallTimes :
          CoalesceAppend(key, version, now) \/ CoalesceReplace(key, version, now)
    \/ \E key \in Keys \cup {NoKey} : RemoveBy(key)

Update(token, at) ==
    \/ Ack(token, at)
    \/ NackRequeue(token, at)
    \/ NackSuperseded(token, at)
    \/ Renew(token, at)
    \/ UpdateRefused(token, at)

Next ==
    \/ Produce
    \/ \E session \in Sessions, now \in CallTimes : Reserve(session, now)
    \/ \E token \in DOMAIN handles, at \in CallTimes : Update(token, at)
    \/ \E session \in Sessions : Crash(session)
    \/ Tick

Spec == Init /\ [][Next]_vars

--------------------------------------------------------------------------------
(* Properties. *)

(* The shape of the stored queue and of the handles sessions keep, as         *)
(* idb-queue/index.js writes them.                                           *)
ShapeOK ==
    /\ clock \in Times
    /\ DOMAIN records \subseteq Nat
    /\ records \in [DOMAIN records -> Record]
    /\ head \in Nat /\ tail \in Nat
    /\ DOMAIN handles \subseteq Tokens
    /\ handles \in [DOMAIN handles -> Handle]
    /\ nextToken \in 1..(MaxTokens + 1)
    /\ outcome \in [Ids -> Outcomes]
    /\ nextId \in 1..(MaxItems + 1)

TypeOK == ShapeOK /\ usedBytes \in Nat

(* Two live handles whose reserve-time leases both still run never carry  *)
(* the same message, whatever the crashes, replacements and reused positions   *)
(* in between (reserve and update, idb-queue/index.js).                        *)
LeaseExclusive ==
    \A t, u \in DOMAIN handles :
        /\ handles[t].until > clock /\ handles[u].until > clock
        /\ handles[t].id = handles[u].id
        => t = u

(* The same for the deadline renew() promised its caller: "renew() extends a   *)
(* still-valid lease" (README.md).                                            *)
RenewedLeaseExclusive ==
    \A t, u \in DOMAIN handles :
        /\ handles[t].promised > clock /\ handles[u].promised > clock
        /\ handles[t].id = handles[u].id
        => t = u

(* No message is lost or revived: it is in the store exactly while nobody was  *)
(* told it was acknowledged, superseded or removed.  A stale handle acting on  *)
(* a reused position would break it.                                          *)
NoLostMessage ==
    \A i \in Ids :
        outcome[i] = "stored" <=> \E p \in DOMAIN records : records[p].item.id = i

(* The persisted byte count and bounds describe the records, within the limit. *)
BookkeepingExact ==
    /\ TypeOK
    /\ usedBytes = TotalBytes(records)
    /\ usedBytes <= MaxBytes
    /\ DOMAIN records \subseteq head..(tail - 1)
    /\ DOMAIN records = {} => head = 0 /\ tail = 0
    /\ DOMAIN records # {} => head \in DOMAIN records /\ tail - 1 \in DOMAIN records

(* Supersession never empties a key: a step after which no message of the key  *)
(* is stored is an acknowledgement or an explicit removal of one.             *)
KeyKeepsAMessageStep ==
    \A key \in Keys :
        Matching(key) # {} /\ Matching(key)' = {}
        => \E i \in IdsAt(Matching(key)) : outcome'[i] \in {"acked", "removed"}

(* Coalescing keeps the newest: of the messages of a key accepted since one    *)
(* was last acknowledged or removed, the newest is never dropped in favour of  *)
(* an older one ("NACK deletes the superseded active item", README.md).        *)
NewestOfKeySurvivesStep ==
    \A p \in DOMAIN records :
        LET item == records[p].item
        IN  /\ item.key # NoKey
            /\ outcome'[item.id] = "superseded"
            => \E q \in DOMAIN records' :
                  /\ records'[q].item.key = item.key
                  /\ records'[q].item.version > item.version

(* "`oldest` keeps the existing pending match" (README.md): a message of such  *)
(* a key is superseded only out of the hands of a consumer that released it.   *)
OldestPendingKeptStep ==
    \A p \in DOMAIN records :
        /\ records[p].item.key \in KeepOldest
        /\ outcome'[records[p].item.id] = "superseded"
        => Active(records[p], clock - MaxDelay)
================================================================================
