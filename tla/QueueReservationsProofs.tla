------------------------ MODULE QueueReservationsProofs ------------------------
(***************************************************************************)
(* Proofs about QueueReservations, for every number of sessions, keys,      *)
(* messages and reservations and every lease length: the shape of the       *)
(* state, the exclusivity of a running lease, that no message is lost or    *)
(* revived, that the persisted byte count and bounds are exact, and what    *)
(* coalescing may drop.                                                     *)
(***************************************************************************)
EXTENDS QueueReservations, NaturalsLemmas

(* trimBounds leaves natural bounds with every record below the tail. *)
LEMMA TrimBoundsAbove ==
    ASSUME NEW stored, DOMAIN stored \subseteq Nat,
           NEW b \in Nat, \A p \in DOMAIN stored : p < b,
           TrimBounds(stored)
    PROVE  head' \in Nat /\ tail' \in Nat /\ \A p \in DOMAIN stored : p < tail'
<1>1. CASE DOMAIN stored = {}
  BY <1>1 DEF TrimBounds
<1>2. CASE DOMAIN stored # {}
  <2>1. Min(DOMAIN stored) \in Nat
    BY <1>2, MinOfNaturals
  <2>2. Max(DOMAIN stored) \in Nat /\ \A p \in DOMAIN stored : p <= Max(DOMAIN stored)
    BY <1>2, MaxOfNaturals
  <2> QED BY <1>2, <2>1, <2>2 DEF TrimBounds
<1> QED BY <1>1, <1>2

--------------------------------------------------------------------------------
(* The inductive invariant.  NoLostMessage and LeaseExclusive are not          *)
(* inductive: they need to know that ids and tokens are never reused, that the *)
(* position past the tail is free, and that a token found in the store is its  *)
(* holder's, while an unexpired handle's message can carry no other token.     *)

FreshNames ==
    /\ \A p \in DOMAIN records : records[p].item.id < nextId
    /\ \A p \in DOMAIN records : records[p].token < nextToken
    /\ \A t \in DOMAIN handles : t < nextToken /\ handles[t].id < nextId
    /\ \A i \in Ids : i >= nextId => outcome[i] # "stored"

RecordsBelowTail == \A p \in DOMAIN records : p < tail

IdsDistinct ==
    \A p, q \in DOMAIN records : records[p].item.id = records[q].item.id => p = q

TokenMatchesHandle ==
    \A t \in DOMAIN handles, p \in DOMAIN records :
        records[p].token = t
        => records[p].item.id = handles[t].id /\ records[p].until = handles[t].until

RunningLeaseIsStored ==
    \A t \in DOMAIN handles, p \in DOMAIN records :
        handles[t].until > clock /\ records[p].item.id = handles[t].id
        => records[p].token = t

IInv ==
    /\ ShapeOK
    /\ FreshNames
    /\ RecordsBelowTail
    /\ IdsDistinct
    /\ TokenMatchesHandle
    /\ RunningLeaseIsStored
    /\ LeaseExclusive
    /\ NoLostMessage

LEMMA InitIInv == Init => IInv
<1> USE BoundsAssumption
<1> SUFFICES ASSUME Init PROVE IInv
  OBVIOUS
<1>1. DOMAIN records = {} /\ DOMAIN handles = {}
  BY DEF Init
<1>2. ShapeOK
  BY <1>1 DEF Init, ShapeOK, Times, Ids, Outcomes
<1> QED
  BY <1>1, <1>2 DEF Init, IInv, FreshNames, RecordsBelowTail, IdsDistinct,
     TokenMatchesHandle, RunningLeaseIsStored, LeaseExclusive, NoLostMessage, Ids
--------------------------------------------------------------------------------
(* Every step preserves the invariant. *)

(* Sessions only forget handles, or keep them as they were. *)
HandlesKept ==
    /\ DOMAIN handles' \subseteq DOMAIN handles
    /\ handles' \in [DOMAIN handles' -> Handle]
    /\ \A t \in DOMAIN handles' : handles'[t] = handles[t]

LEMMA RestrictedHandlesKept ==
    ASSUME ShapeOK, NEW D, D \subseteq DOMAIN handles, handles' = [t \in D |-> handles[t]]
    PROVE  HandlesKept
BY DEF ShapeOK, HandlesKept

LEMMA SameHandlesKept ==
    ASSUME ShapeOK, handles' = handles
    PROVE  HandlesKept
BY DEF ShapeOK, HandlesKept

(* What the shape says of the numbers the steps compare. *)
LEMMA Numbers ==
    ASSUME ShapeOK
    PROVE  /\ clock \in Nat /\ head \in Nat /\ tail \in Nat
           /\ nextId \in Nat \ {0} /\ nextToken \in Nat \ {0}
           /\ \A p \in DOMAIN records :
                 /\ p \in Nat /\ records[p] \in Record /\ records[p].item \in Item
                 /\ records[p].item.id \in Ids /\ records[p].item.id \in Nat
                 /\ records[p].token \in Nat /\ records[p].until \in Nat
           /\ \A t \in DOMAIN handles :
                 /\ t \in Nat \ {0} /\ handles[t].id \in Ids /\ handles[t].id \in Nat
                 /\ handles[t].until \in Nat /\ handles[t].position \in Nat
<1> USE BoundsAssumption DEF ShapeOK
<1>1. \A p \in DOMAIN records : records[p] \in Record
  OBVIOUS
<1>2. \A t \in DOMAIN handles : handles[t] \in Handle
  OBVIOUS
<1>3. \A r \in Record : r.item \in Item /\ r.item.id \in Ids /\ r.token \in Nat /\ r.until \in Nat
  BY DEF Record, Item, NoToken, Tokens
<1>4. \A h \in Handle : h.id \in Ids /\ h.until \in Nat /\ h.position \in Nat
  BY DEF Handle
<1>5. Ids \subseteq Nat /\ Tokens \subseteq Nat \ {0} /\ Times \subseteq Nat
  BY DEF Ids, Tokens, Times
<1> QED BY <1>1, <1>2, <1>3, <1>4, <1>5

(* Appending a message with a new id at the free position past the tail. *)
LEMMA AppendIInv ==
    ASSUME IInv, NEW item \in Item, item.id = nextId, nextId <= MaxItems,
           Append(item), outcome' = Told({nextId}, "stored"), nextId' = nextId + 1,
           UNCHANGED <<clock, handles, nextToken>>
    PROVE  IInv'
<1> USE BoundsAssumption DEF IInv
<1>1. /\ tail \notin DOMAIN records
      /\ DOMAIN records' = DOMAIN records \cup {tail}
      /\ records'[tail] = Fresh(item)
      /\ \A p \in DOMAIN records : records'[p] = records[p]
      /\ tail \in Nat /\ tail' = tail + 1
  BY DEF Append, With, RecordsBelowTail, ShapeOK
<1>2. Fresh(item) \in Record /\ Fresh(item).item = item /\ Fresh(item).token = 0
  BY DEF Fresh, Record, NoToken
<1>3. /\ nextId \in Ids /\ nextToken \in Nat \ {0}
      /\ outcome'[nextId] = "stored"
      /\ \A i \in Ids : i # nextId => outcome'[i] = outcome[i]
  BY DEF ShapeOK, Told, Ids
<1>4. ShapeOK'
  <2>1. DOMAIN records' \subseteq Nat /\ records' \in [DOMAIN records' -> Record]
    BY <1>1, <1>2 DEF ShapeOK, Append, With
  <2>2. head' \in Nat /\ tail' \in Nat
    BY DEF Append, ShapeOK
  <2>3. outcome' \in [Ids -> Outcomes] /\ nextId' \in 1..(MaxItems + 1)
    BY DEF ShapeOK, Told, Outcomes
  <2> QED BY <2>1, <2>2, <2>3 DEF ShapeOK
<1>5. FreshNames'
  <2>1. \A p \in DOMAIN records' : records'[p].item.id < nextId'
    BY <1>1, <1>2, Numbers DEF FreshNames
  <2>2. \A p \in DOMAIN records' : records'[p].token < nextToken'
    BY <1>1, <1>2, Numbers DEF FreshNames
  <2>3. \A t \in DOMAIN handles' : t < nextToken' /\ handles'[t].id < nextId'
    BY Numbers DEF FreshNames
  <2>4. ASSUME NEW i \in Ids, i >= nextId' PROVE outcome'[i] # "stored"
    <3>1. i > nextId
      BY <2>4, Numbers DEF Ids
    <3> QED BY <1>3, <3>1, Numbers DEF FreshNames, Ids
  <2> QED BY <2>1, <2>2, <2>3, <2>4 DEF FreshNames
<1>6. RecordsBelowTail'
  BY <1>1 DEF RecordsBelowTail, ShapeOK
<1>7. IdsDistinct'
  BY <1>1, <1>2, Numbers DEF IdsDistinct, FreshNames
<1>8. TokenMatchesHandle' /\ RunningLeaseIsStored'
  BY <1>1, <1>2, Numbers DEF TokenMatchesHandle, RunningLeaseIsStored, FreshNames
<1>9. LeaseExclusive'
  BY DEF LeaseExclusive
<1>10. NoLostMessage'
  <2> SUFFICES ASSUME NEW i \in Ids
               PROVE  outcome'[i] = "stored" <=> \E p \in DOMAIN records' : records'[p].item.id = i
    BY DEF NoLostMessage
  <2>1. CASE i = nextId
    BY <1>1, <1>2, <1>3, <2>1
  <2>2. CASE i # nextId
    <3>1. outcome'[i] = outcome[i] /\ records'[tail].item.id # i
      BY <1>1, <1>2, <1>3, <2>2
    <3> QED BY <1>1, <3>1 DEF NoLostMessage
  <2> QED BY <2>1, <2>2
<1> QED BY <1>4, <1>5, <1>6, <1>7, <1>8, <1>9, <1>10

(* Deleting records and telling that their messages left the queue. *)
LEMMA DeleteIInv ==
    ASSUME IInv, NEW positions, positions \subseteq DOMAIN records,
           NEW what \in Outcomes \ {"stored"},
           DeleteRecords(positions), outcome' = Told(IdsAt(positions), what),
           HandlesKept, UNCHANGED <<clock, nextToken, nextId>>
    PROVE  IInv'
<1> USE DEF IInv
<1>1. /\ DOMAIN records' = DOMAIN records \ positions
      /\ \A p \in DOMAIN records' : p \in DOMAIN records /\ records'[p] = records[p]
      /\ records' \in [DOMAIN records' -> Record]
  BY DEF DeleteRecords, Without, ShapeOK
<1>2. head' \in Nat /\ tail' \in Nat /\ \A p \in DOMAIN records' : p < tail'
  <2>1. TrimBounds(records')
    BY DEF DeleteRecords
  <2> QED BY <1>1, <2>1, TrimBoundsAbove DEF ShapeOK, RecordsBelowTail
<1>3. \A i \in Ids : outcome'[i] = IF i \in IdsAt(positions) THEN what ELSE outcome[i]
  BY DEF Told
<1>4. ShapeOK'
  BY <1>1, <1>2 DEF ShapeOK, HandlesKept, Told
<1>5. FreshNames'
  BY <1>1, <1>3 DEF FreshNames, HandlesKept
<1>6. RecordsBelowTail' /\ IdsDistinct'
  BY <1>1, <1>2 DEF RecordsBelowTail, IdsDistinct
<1>7. TokenMatchesHandle' /\ RunningLeaseIsStored' /\ LeaseExclusive'
  BY <1>1 DEF TokenMatchesHandle, RunningLeaseIsStored, LeaseExclusive, HandlesKept
<1>8. NoLostMessage'
  <2> SUFFICES ASSUME NEW i \in Ids
               PROVE  outcome'[i] = "stored" <=> \E p \in DOMAIN records' : records'[p].item.id = i
    BY DEF NoLostMessage
  <2>1. CASE i \in IdsAt(positions)
    BY <1>1, <1>3, <2>1 DEF IdsAt, IdsDistinct
  <2>2. CASE i \notin IdsAt(positions)
    BY <1>1, <1>3, <2>2 DEF IdsAt, NoLostMessage
  <2> QED BY <2>1, <2>2
<1> QED BY <1>4, <1>5, <1>6, <1>7, <1>8

LEMMA CoalesceReplaceIInv ==
    ASSUME IInv, NEW key \in Keys, NEW version \in Versions, NEW now \in CallTimes,
           CoalesceReplace(key, version, now)
    PROVE  IInv'
<1> USE BoundsAssumption DEF IInv
<1> DEFINE pending == Pending(key, now)
           target == Min(pending)
           others == pending \ {target}
           new == Fresh(NewItem(key, version))
<1>1. pending \subseteq DOMAIN records /\ pending # {}
  BY DEF CoalesceReplace, Pending, Matching
<1>2. target \in pending
  BY <1>1, MinOfNaturals DEF ShapeOK
<1> HIDE DEF pending, target
<1>3. /\ DOMAIN records' = DOMAIN records \ others
      /\ target \in DOMAIN records'
      /\ records'[target] = new
      /\ \A p \in DOMAIN records' : p # target => p \in DOMAIN records \ pending /\ records'[p] = records[p]
  BY <1>1, <1>2 DEF CoalesceReplace, pending, target
<1>4. /\ new \in Record /\ new.item.id = nextId /\ new.token = 0
      /\ nextId \in Ids /\ nextToken \in Nat \ {0}
  BY SMTT(40) DEF CoalesceReplace, Fresh, NewItem, Record, Item, NoToken, ShapeOK, Ids
<1>5. head' \in Nat /\ tail' \in Nat /\ \A p \in DOMAIN records' : p < tail'
  <2>1. TrimBounds(records')
    BY DEF CoalesceReplace
  <2> QED BY <1>3, <2>1, TrimBoundsAbove DEF ShapeOK, RecordsBelowTail
<1>6. /\ outcome'[nextId] = "stored"
      /\ \A i \in Ids : i # nextId =>
            outcome'[i] = IF i \in IdsAt(pending) THEN "superseded" ELSE outcome[i]
      /\ outcome' \in [Ids -> Outcomes]
  <2>1. outcome' = [Told(IdsAt(pending), "superseded") EXCEPT ![nextId] = "stored"]
    BY DEF CoalesceReplace, pending
  <2>2. Told(IdsAt(pending), "superseded") \in [Ids -> Outcomes]
    BY DEF Told, Outcomes, ShapeOK
  <2> QED BY <1>4, <2>1, <2>2 DEF Told, Outcomes
<1>7. UNCHANGED <<clock, handles, nextToken>> /\ nextId' = nextId + 1 /\ nextId <= MaxItems
  BY DEF CoalesceReplace
<1> HIDE DEF new
<1>8. ShapeOK'
  <2>1. \A p \in DOMAIN records' : records'[p] \in Record
    BY <1>3, <1>4 DEF ShapeOK
  <2>2. records' \in [DOMAIN records' -> Record]
    BY <2>1 DEF CoalesceReplace
  <2> QED BY <1>3, <1>5, <1>6, <1>7, <2>2 DEF ShapeOK
<1>9. FreshNames'
  <2>1. \A p \in DOMAIN records' : records'[p].item.id < nextId'
    BY <1>3, <1>4, <1>7, Numbers DEF FreshNames
  <2>2. \A p \in DOMAIN records' : records'[p].token < nextToken'
    BY <1>3, <1>4, <1>7, Numbers DEF FreshNames
  <2>3. \A t \in DOMAIN handles' : t < nextToken' /\ handles'[t].id < nextId'
    BY <1>7, Numbers DEF FreshNames
  <2>4. ASSUME NEW i \in Ids, i >= nextId' PROVE outcome'[i] # "stored"
    <3>1. i > nextId
      BY <1>7, <2>4, Numbers DEF Ids
    <3> QED BY <1>6, <3>1, Numbers DEF FreshNames, Ids
  <2> QED BY <2>1, <2>2, <2>3, <2>4 DEF FreshNames
<1>10. RecordsBelowTail' /\ IdsDistinct'
  BY <1>3, <1>4, <1>5, Numbers DEF RecordsBelowTail, IdsDistinct, FreshNames
<1>11. TokenMatchesHandle' /\ RunningLeaseIsStored' /\ LeaseExclusive'
  BY <1>3, <1>4, <1>7, Numbers DEF TokenMatchesHandle, RunningLeaseIsStored, LeaseExclusive,
     FreshNames
<1>12. NoLostMessage'
  <2> SUFFICES ASSUME NEW i \in Ids
               PROVE  outcome'[i] = "stored" <=> \E p \in DOMAIN records' : records'[p].item.id = i
    BY DEF NoLostMessage
  <2>1. CASE i = nextId
    BY <1>3, <1>4, <1>6, <2>1
  <2>2. CASE i # nextId /\ i \in IdsAt(pending)
    BY <1>1, <1>3, <1>4, <1>6, <2>2 DEF IdsAt, IdsDistinct
  <2>3. CASE i # nextId /\ i \notin IdsAt(pending)
    BY <1>2, <1>3, <1>4, <1>6, <2>3 DEF IdsAt, NoLostMessage
  <2> QED BY <2>1, <2>2, <2>3
<1> QED BY <1>8, <1>9, <1>10, <1>11, <1>12
LEMMA ReserveIInv ==
    ASSUME IInv, NEW session \in Sessions, NEW now \in CallTimes, Reserve(session, now)
    PROVE  IInv'
<1> USE BoundsAssumption, LeaseAssumption DEF IInv
<1> DEFINE position == Min(Available(now))
<1>1. position \in DOMAIN records /\ ~Active(records[position], now)
  <2>1. Available(now) \subseteq DOMAIN records /\ Available(now) # {}
    BY DEF Reserve, Available
  <2>2. position \in Available(now)
    BY <2>1, MinOfNaturals DEF ShapeOK
  <2> QED BY <2>2 DEF Available
<1> HIDE DEF position
<1>2. now \in Nat /\ now <= clock /\ now + Lease \in Nat
  BY DEF CallTimes, Times
<1>3. /\ DOMAIN records' = DOMAIN records
      /\ records'[position].item = records[position].item
      /\ records'[position].token = nextToken
      /\ records'[position].until = now + Lease
      /\ \A p \in DOMAIN records : p # position => records'[p] = records[p]
      /\ records' \in [DOMAIN records -> Record]
  <2>1. records' = [records EXCEPT ![position].token = nextToken, ![position].until = now + Lease]
    BY DEF Reserve, position
  <2>2. nextToken \in Tokens
    BY DEF Reserve, ShapeOK, Tokens
  <2>3. [records[position] EXCEPT !.token = nextToken, !.until = now + Lease] \in Record
    BY <1>1, <1>2, <2>2, Numbers DEF Record
  <2> QED BY <1>1, <1>2, <2>1, <2>2, <2>3, Numbers DEF ShapeOK, Record
<1>4. /\ DOMAIN handles' = DOMAIN handles \cup {nextToken}
      /\ handles'[nextToken].id = records[position].item.id
      /\ handles'[nextToken].until = now + Lease
      /\ handles'[nextToken] \in Handle
      /\ \A t \in DOMAIN handles : t # nextToken /\ handles'[t] = handles[t]
  <2>1. nextToken \notin DOMAIN handles
    BY Numbers DEF FreshNames
  <2> QED BY <1>1, <1>2, <2>1, Numbers DEF Reserve, position, Handle
<1>5. UNCHANGED <<clock, head, tail, outcome, nextId>> /\ nextToken' = nextToken + 1
  BY DEF Reserve, ghosts
<1>6. ShapeOK'
  <2>1. DOMAIN handles' \subseteq Tokens /\ nextToken' \in 1..(MaxTokens + 1)
    BY <1>4, <1>5 DEF Reserve, ShapeOK, Tokens
  <2>2. handles' \in [DOMAIN handles' -> Handle]
    BY <1>4 DEF Reserve, ShapeOK
  <2> QED BY <1>3, <1>5, <2>1, <2>2 DEF ShapeOK
<1>7. FreshNames'
  BY <1>1, <1>3, <1>4, <1>5, Numbers DEF FreshNames
<1>8. RecordsBelowTail' /\ IdsDistinct'
  BY <1>1, <1>3, <1>5 DEF RecordsBelowTail, IdsDistinct
<1>9. TokenMatchesHandle'
  BY <1>1, <1>3, <1>4, Numbers DEF TokenMatchesHandle, FreshNames
<1>10. ASSUME NEW t \in DOMAIN handles, handles[t].id = records[position].item.id
       PROVE  ~(handles[t].until > clock)
  <2> SUFFICES ASSUME handles[t].until > clock PROVE FALSE
    OBVIOUS
  <2>1. records[position].token = t /\ records[position].until = handles[t].until
    BY <1>1, <1>10 DEF RunningLeaseIsStored, TokenMatchesHandle
  <2>2. Active(records[position], now)
    BY <1>1, <1>2, <2>1, Numbers DEF Active, NoToken
  <2> QED BY <1>1, <2>2
<1>11. RunningLeaseIsStored'
  <2> SUFFICES ASSUME NEW t \in DOMAIN handles', NEW p \in DOMAIN records',
                      handles'[t].until > clock', records'[p].item.id = handles'[t].id
               PROVE  records'[p].token = t
    BY DEF RunningLeaseIsStored
  <2>1. CASE t = nextToken
    BY <1>1, <1>3, <1>4, <2>1 DEF IdsDistinct
  <2>2. CASE t # nextToken
    <3>1. t \in DOMAIN handles /\ handles'[t] = handles[t]
      BY <1>4, <2>2
    <3>2. p # position
      BY <1>3, <1>5, <1>10, <3>1
    <3> QED BY <1>3, <1>5, <3>1, <3>2 DEF RunningLeaseIsStored
  <2> QED BY <2>1, <2>2
<1>12. LeaseExclusive'
  BY <1>4, <1>5, <1>10 DEF LeaseExclusive
<1>13. NoLostMessage'
  BY <1>1, <1>3, <1>5 DEF NoLostMessage
<1> QED BY <1>6, <1>7, <1>8, <1>9, <1>11, <1>12, <1>13

(* ack and nack act on the message their handle carries. *)
LEMMA HeldMessage ==
    ASSUME IInv, NEW token \in DOMAIN handles, NEW at,
           LeaseHeld(handles[token].position, token, at)
    PROVE  /\ handles[token].position \in DOMAIN records
           /\ records[handles[token].position].token = token
           /\ IdsAt({handles[token].position}) = {handles[token].id}
BY DEF IInv, LeaseHeld, IdsAt, TokenMatchesHandle

LEMMA NackRequeueIInv ==
    ASSUME IInv, NEW token \in DOMAIN handles, NEW at \in CallTimes, NackRequeue(token, at)
    PROVE  IInv'
<1> USE DEF IInv
<1> DEFINE position == handles[token].position
<1>1. position \in DOMAIN records /\ records[position].token = token
  BY HeldMessage DEF NackRequeue
<1>2. /\ DOMAIN records' = DOMAIN records
      /\ records'[position] = Fresh(records[position].item)
      /\ \A p \in DOMAIN records : p # position => records'[p] = records[p]
  BY <1>1 DEF NackRequeue, ShapeOK
<1>3. /\ Fresh(records[position].item) \in Record
      /\ records'[position].item = records[position].item
      /\ records'[position].token = 0
  BY <1>1, <1>2, Numbers DEF Fresh, Record, NoToken
<1>4. HandlesKept /\ DOMAIN handles' = DOMAIN handles \ {token}
  BY RestrictedHandlesKept DEF NackRequeue, Settle
<1>5. UNCHANGED <<clock, head, tail, nextToken, outcome, nextId>>
  BY DEF NackRequeue, ghosts
<1> HIDE DEF position
<1>6. ShapeOK'
  <2>1. records' \in [DOMAIN records' -> Record]
    BY <1>1, <1>2, <1>3, Numbers DEF NackRequeue
  <2> QED BY <1>2, <1>4, <1>5, <2>1 DEF ShapeOK, HandlesKept
<1>7. FreshNames' /\ RecordsBelowTail' /\ IdsDistinct'
  BY <1>1, <1>2, <1>3, <1>4, <1>5, Numbers DEF FreshNames, RecordsBelowTail, IdsDistinct, HandlesKept
<1>8. TokenMatchesHandle' /\ LeaseExclusive' /\ NoLostMessage'
  BY <1>1, <1>2, <1>3, <1>4, <1>5, Numbers DEF TokenMatchesHandle, LeaseExclusive, NoLostMessage,
     HandlesKept
<1>9. RunningLeaseIsStored'
  BY <1>1, <1>2, <1>3, <1>4, <1>5 DEF RunningLeaseIsStored, HandlesKept
<1> QED BY <1>6, <1>7, <1>8, <1>9

(* A step that leaves the store alone, forgets handles or lets time pass. *)
LEMMA StoreUntouchedIInv ==
    ASSUME IInv, UNCHANGED <<records, head, tail, nextToken, outcome, nextId>>,
           clock' \in Times, clock <= clock',
           HandlesKept
    PROVE  IInv'
<1> USE DEF IInv
<1>1. ShapeOK' /\ FreshNames' /\ RecordsBelowTail' /\ IdsDistinct' /\ NoLostMessage'
  BY DEF ShapeOK, FreshNames, RecordsBelowTail, IdsDistinct, NoLostMessage, HandlesKept
<1>2. TokenMatchesHandle'
  BY DEF TokenMatchesHandle, HandlesKept
<1>3. \A t \in DOMAIN handles' : handles'[t].until > clock' => handles[t].until > clock
  BY Numbers DEF HandlesKept, Times
<1>4. RunningLeaseIsStored' /\ LeaseExclusive'
  BY <1>3 DEF RunningLeaseIsStored, LeaseExclusive, HandlesKept
<1> QED BY <1>1, <1>2, <1>4

(* renew only changes what its caller was promised. *)
LEMMA RenewIInv ==
    ASSUME IInv, NEW token \in DOMAIN handles, NEW at \in CallTimes, Renew(token, at)
    PROVE  IInv'
<1> USE LeaseAssumption DEF IInv
<1>1. /\ DOMAIN handles' = DOMAIN handles
      /\ handles' \in [DOMAIN handles -> Handle]
      /\ \A t \in DOMAIN handles : /\ handles'[t].id = handles[t].id
                                   /\ handles'[t].until = handles[t].until
  <2>1. at + Lease \in Nat
    BY DEF CallTimes, Times
  <2>2. handles' = [handles EXCEPT ![token].promised = at + Lease]
    BY DEF Renew
  <2>3. [handles[token] EXCEPT !.promised = at + Lease] \in Handle
    BY <2>1 DEF ShapeOK, Handle
  <2> QED BY <2>1, <2>2, <2>3 DEF ShapeOK, Handle
<1>2. UNCHANGED <<clock, records, head, tail, nextToken, outcome, nextId>>
  BY DEF Renew, store, ghosts
<1>3. ShapeOK' /\ FreshNames' /\ RecordsBelowTail' /\ IdsDistinct' /\ NoLostMessage'
  BY <1>1, <1>2 DEF ShapeOK, FreshNames, RecordsBelowTail, IdsDistinct, NoLostMessage
<1>4. TokenMatchesHandle' /\ RunningLeaseIsStored' /\ LeaseExclusive'
  BY <1>1, <1>2 DEF TokenMatchesHandle, RunningLeaseIsStored, LeaseExclusive
<1> QED BY <1>3, <1>4

LEMMA NextIInv == IInv /\ [Next]_vars => IInv'
<1> SUFFICES ASSUME IInv, [Next]_vars PROVE IInv'
  OBVIOUS
<1> USE BoundsAssumption
<1>0. ShapeOK
  BY DEF IInv
<1>1. ASSUME NEW version \in Versions, Push(version) PROVE IInv'
  <2>1. NewItem(NoKey, version) \in Item /\ NewItem(NoKey, version).id = nextId
    BY <1>0, <1>1 DEF NewItem, Item, Ids, ShapeOK, Push
  <2> QED BY <1>1, <2>1, AppendIInv DEF Push
<1>2. ASSUME NEW key \in Keys, NEW version \in Versions, NEW now \in CallTimes,
             CoalesceAppend(key, version, now)
      PROVE  IInv'
  <2>1. NewItem(key, version) \in Item /\ NewItem(key, version).id = nextId
    BY <1>0, <1>2 DEF NewItem, Item, Ids, ShapeOK, CoalesceAppend
  <2> QED BY <1>2, <2>1, AppendIInv DEF CoalesceAppend
<1>3. ASSUME NEW key \in Keys, NEW version \in Versions, NEW now \in CallTimes,
             CoalesceReplace(key, version, now)
      PROVE  IInv'
  BY <1>3, CoalesceReplaceIInv
<1>4. ASSUME NEW key \in Keys \cup {NoKey}, RemoveBy(key) PROVE IInv'
  <2>1. HandlesKept
    BY <1>0, <1>4, SameHandlesKept DEF RemoveBy
  <2>2. Matching(key) \subseteq DOMAIN records
    BY DEF Matching
  <2>3. "removed" \in Outcomes \ {"stored"}
    BY DEF Outcomes
  <2> QED BY <1>4, <2>1, <2>2, <2>3, DeleteIInv DEF RemoveBy
<1>5. ASSUME NEW session \in Sessions, NEW now \in CallTimes, Reserve(session, now) PROVE IInv'
  BY <1>5, ReserveIInv
<1>6. ASSUME NEW token \in DOMAIN handles, NEW at \in CallTimes,
             Ack(token, at) \/ NackSuperseded(token, at)
      PROVE  IInv'
  <2> DEFINE position == handles[token].position
  <2>1. HandlesKept
    BY <1>0, <1>6, RestrictedHandlesKept DEF Ack, NackSuperseded, Settle
  <2>2. {position} \subseteq DOMAIN records /\ IdsAt({position}) = {handles[token].id}
    BY <1>6, HeldMessage DEF Ack, NackSuperseded
  <2>3. "acked" \in Outcomes \ {"stored"} /\ "superseded" \in Outcomes \ {"stored"}
    BY DEF Outcomes
  <2>4. DeleteRecords({position}) /\ UNCHANGED <<clock, nextToken, nextId>>
    BY <1>6 DEF Ack, NackSuperseded
  <2>5. \/ outcome' = Told(IdsAt({position}), "acked")
        \/ outcome' = Told(IdsAt({position}), "superseded")
    BY <1>6, <2>2 DEF Ack, NackSuperseded
  <2> HIDE DEF position
  <2> QED BY <2>1, <2>2, <2>3, <2>4, <2>5, DeleteIInv
<1>7. ASSUME NEW token \in DOMAIN handles, NEW at \in CallTimes, NackRequeue(token, at) PROVE IInv'
  BY <1>7, NackRequeueIInv
<1>8. ASSUME NEW token \in DOMAIN handles, NEW at \in CallTimes, Renew(token, at) PROVE IInv'
  BY <1>8, RenewIInv
<1>9. ASSUME NEW token \in DOMAIN handles, NEW at \in CallTimes, UpdateRefused(token, at)
      PROVE  IInv'
  <2>1. HandlesKept
    BY <1>0, <1>9, RestrictedHandlesKept DEF UpdateRefused, Settle
  <2>2. clock' \in Times /\ clock <= clock'
    BY <1>0, <1>9 DEF UpdateRefused, ShapeOK, Times
  <2> QED BY <1>9, <2>1, <2>2, StoreUntouchedIInv DEF UpdateRefused, store, ghosts
<1>10. ASSUME NEW session \in Sessions, Crash(session) PROVE IInv'
  <2>1. HandlesKept
    BY <1>0, <1>10, RestrictedHandlesKept DEF Crash
  <2>2. clock' \in Times /\ clock <= clock'
    BY <1>0, <1>10 DEF Crash, ShapeOK, Times
  <2> QED BY <1>10, <2>1, <2>2, StoreUntouchedIInv DEF Crash, store, ghosts
<1>11. ASSUME Tick PROVE IInv'
  <2>1. HandlesKept
    BY <1>0, <1>11, SameHandlesKept DEF Tick
  <2>2. clock' \in Times /\ clock <= clock'
    BY <1>0, <1>11 DEF Tick, ShapeOK, Times
  <2> QED BY <1>11, <2>1, <2>2, StoreUntouchedIInv DEF Tick, store, ghosts
<1>12. ASSUME UNCHANGED vars PROVE IInv'
  <2>1. HandlesKept
    BY <1>0, <1>12, SameHandlesKept DEF vars
  <2>2. clock' \in Times /\ clock <= clock'
    BY <1>0, <1>12 DEF vars, ShapeOK, Times
  <2> QED BY <1>12, <2>1, <2>2, StoreUntouchedIInv DEF vars
<1> QED
  BY <1>1, <1>2, <1>3, <1>4, <1>5, <1>6, <1>7, <1>8, <1>9, <1>10, <1>11, <1>12
  DEF Next, Produce, Update

LEMMA InvariantIInv == Spec => []IInv
BY InitIInv, NextIInv, PTL DEF Spec

--------------------------------------------------------------------------------
(* The byte count and the bounds.  The count is a sum over the records; it     *)
(* follows the store because a sum splits, and the bounds stay on records.     *)

Sizes(stored) == [p \in DOMAIN stored |-> Bytes(stored[p])]

LEMMA BytesAreSums ==
    ASSUME NEW stored, NEW S, IsFiniteSet(S), S \subseteq DOMAIN stored,
           \A p \in DOMAIN stored : Bytes(stored[p]) \in Nat
    PROVE  /\ MapThenSumSet(LAMBDA p : Bytes(stored[p]), S) = SumOf(Sizes(stored), S)
           /\ SumOf(Sizes(stored), S) \in Nat
<1> DEFINE w == Sizes(stored)
           Sums(g) == g = [s \in SUBSET S |-> IF s = {} THEN 0
                                              ELSE Bytes(stored[Chosen(s)]) + g[s \ {Chosen(s)}]]
           g0 == CHOOSE g : Sums(g)
<1>1. MapThenSumSet(LAMBDA p : Bytes(stored[p]), S) = g0[S]
  BY DEF MapThenSumSet, MapThenFoldSet, Chosen
<1>2. \A p \in S : w[p] \in Nat /\ w[p] = Bytes(stored[p])
  BY DEF Sizes
<1> HIDE DEF w
<1>3. \A g : Sums(g) <=> IsSums(g, w, S)
  <2>1. \A s \in SUBSET S : s # {} => w[Chosen(s)] = Bytes(stored[Chosen(s)])
    BY <1>2, ChosenIsIn
  <2> QED BY <2>1 DEF IsSums
<1> HIDE DEF Sums
<1>4. PICK h : AreSums(h, w, S) /\ SumOf(w, S) = h[S]
  BY <1>2, SumOfIsSums
<1>5. Sums(h)
  BY <1>3, <1>4 DEF AreSums
<1>6. Sums(g0)
  BY <1>5
<1> HIDE DEF g0
<1>7. IsSums(g0, w, S) /\ IsSums(h, w, S)
  BY <1>3, <1>4, <1>6 DEF AreSums
<1>8. \A s \in SUBSET S : g0[s] = h[s]
  BY <1>7, SumsAgree
<1>9. SumOf(w, S) \in Nat
  BY <1>2, SumOfNat
<1> QED BY <1>1, <1>4, <1>8, <1>9 DEF w

(* Bytes of records are positive. *)
LEMMA BytesPositive ==
    ASSUME ShapeOK
    PROVE  \A p \in DOMAIN records : Bytes(records[p]) \in Nat \ {0}
<1>1. \A p \in DOMAIN records : records[p] \in Record
  BY DEF ShapeOK
<1>2. \A r \in Record : r.item.version \in Versions
  BY DEF Record, Item
<1> QED BY <1>1, <1>2, SizeAssumption DEF Bytes

BoundsHug(stored, h, t) ==
    /\ DOMAIN stored \subseteq h..(t - 1)
    /\ DOMAIN stored = {} => h = 0 /\ t = 0
    /\ DOMAIN stored # {} => h \in DOMAIN stored /\ t - 1 \in DOMAIN stored

LEMMA TrimBoundsHug ==
    ASSUME NEW stored, DOMAIN stored \subseteq Nat,
           NEW b \in Nat, \A p \in DOMAIN stored : p < b,
           TrimBounds(stored)
    PROVE  BoundsHug(stored, head', tail')
<1>1. CASE DOMAIN stored = {}
  BY <1>1 DEF TrimBounds, BoundsHug
<1>2. CASE DOMAIN stored # {}
  <2>1. /\ Min(DOMAIN stored) \in DOMAIN stored
        /\ \A p \in DOMAIN stored : Min(DOMAIN stored) <= p
    BY <1>2, MinOfNaturals
  <2>2. /\ Max(DOMAIN stored) \in DOMAIN stored
        /\ \A p \in DOMAIN stored : p <= Max(DOMAIN stored)
    BY <1>2, MaxOfNaturals
  <2>3. head' = Min(DOMAIN stored) /\ tail' = Max(DOMAIN stored) + 1
    BY <1>2 DEF TrimBounds
  <2> HIDE DEF TrimBounds
  <2>4. head' \in Nat /\ tail' \in Nat /\ tail' - 1 = Max(DOMAIN stored)
    BY <2>1, <2>2, <2>3
  <2>5. DOMAIN stored \subseteq head'..(tail' - 1)
    BY <2>1, <2>2, <2>3, <2>4
  <2> QED BY <1>2, <2>1, <2>2, <2>3, <2>4, <2>5 DEF BoundsHug
<1> QED BY <1>1, <1>2

CountExact ==
    /\ usedBytes \in Nat
    /\ usedBytes = TotalBytes(records)
    /\ usedBytes <= MaxBytes
    /\ BoundsHug(records, head, tail)

(* What an exact count says of the store. *)
LEMMA Counted ==
    ASSUME ShapeOK, CountExact
    PROVE  /\ IsFiniteSet(DOMAIN records)
           /\ usedBytes = SumOf(Sizes(records), DOMAIN records)
           /\ \A p \in DOMAIN records : Sizes(records)[p] \in Nat
<1>1. head \in Nat /\ tail \in Nat /\ DOMAIN records \subseteq head..(tail - 1)
  BY DEF ShapeOK, CountExact, BoundsHug
<1>2. IsFiniteSet(DOMAIN records)
  <2>1. IsFiniteSet(head..(tail - 1))
    BY <1>1, FS_Interval
  <2> QED BY <1>1, <2>1, FS_Subset
<1>3. \A p \in DOMAIN records : Bytes(records[p]) \in Nat
  BY BytesPositive
<1>4. TotalBytes(records) = SumOf(Sizes(records), DOMAIN records)
  BY <1>2, <1>3, BytesAreSums DEF TotalBytes
<1>5. \A p \in DOMAIN records : Sizes(records)[p] \in Nat
  BY <1>3 DEF Sizes
<1> QED BY <1>2, <1>4, <1>5 DEF CountExact

(* The same for the store after a step. *)
LEMMA CountedNext ==
    ASSUME ShapeOK', IsFiniteSet(DOMAIN records')
    PROVE  TotalBytes(records') = SumOf(Sizes(records'), DOMAIN records')
<1>1. \A p \in DOMAIN records' : Bytes(records'[p]) \in Nat
  <2>1. \A p \in DOMAIN records' : records'[p] \in Record
    BY DEF ShapeOK
  <2>2. \A r \in Record : r.item.version \in Versions
    BY DEF Record, Item
  <2> QED BY <2>1, <2>2, SizeAssumption DEF Bytes
<1> QED BY <1>1, BytesAreSums DEF TotalBytes

LEMMA AppendCount ==
    ASSUME IInv, CountExact, ShapeOK', NEW item \in Item, Append(item)
    PROVE  CountExact'
<1> USE BoundsAssumption
<1> DEFINE D == DOMAIN records
           w == Sizes(records)
           v == Sizes(records')
           size == ByteSize[item.version]
<1>1. /\ tail \notin D /\ DOMAIN records' = D \cup {tail}
      /\ records'[tail] = Fresh(item)
      /\ \A p \in D : records'[p] = records[p]
      /\ tail \in Nat /\ head \in Nat /\ tail' = tail + 1
  BY DEF IInv, Append, With, RecordsBelowTail, ShapeOK
<1>2. size \in Nat /\ Bytes(Fresh(item)) = size
  BY SizeAssumption DEF Item, Fresh, Bytes
<1>3. IsFiniteSet(D) /\ usedBytes = SumOf(w, D) /\ usedBytes \in Nat /\ \A p \in D : w[p] \in Nat
  BY Counted DEF IInv, CountExact
<1>4. IsFiniteSet(DOMAIN records')
  BY <1>1, <1>3, FS_AddElement
<1>5. v[tail] = size /\ \A p \in D : v[p] = w[p]
  BY <1>1, <1>2 DEF Sizes
<1> HIDE DEF v, w, size
<1>6. \A p \in DOMAIN records' : v[p] \in Nat
  BY <1>1, <1>2, <1>3, <1>5
<1>7. SumOf(v, DOMAIN records') = v[tail] + SumOf(v, DOMAIN records' \ {tail})
  BY <1>1, <1>4, <1>6, SumOfElement
<1>8. DOMAIN records' \ {tail} = D
  BY <1>1
<1>9. SumOf(w, D) = SumOf(v, D)
  BY <1>3, <1>5, SumOfSame
<1>10. TotalBytes(records') = size + usedBytes
  BY <1>3, <1>4, <1>5, <1>7, <1>8, <1>9, CountedNext DEF v
<1>11. usedBytes' = usedBytes + size /\ usedBytes + size <= MaxBytes
  BY DEF Append, Fits, size
<1>12. BoundsHug(records', head', tail')
  <2>1. head' = IF head >= tail THEN tail ELSE head
    BY DEF Append
  <2>2. CASE D = {}
    <3>1. head = 0 /\ tail = 0
      BY <2>2 DEF CountExact, BoundsHug
    <3> QED BY <1>1, <2>1, <2>2, <3>1 DEF BoundsHug
  <2>3. CASE D # {}
    <3>1. head \in D /\ D \subseteq head..(tail - 1)
      BY <2>3 DEF CountExact, BoundsHug
    <3>2. head' = head /\ head < tail
      BY <1>1, <2>1, <3>1
    <3>3. DOMAIN records' \subseteq head'..(tail' - 1)
      BY <1>1, <3>1, <3>2
    <3> QED BY <1>1, <3>1, <3>2, <3>3 DEF BoundsHug
  <2> QED BY <2>2, <2>3
<1> QED BY <1>2, <1>3, <1>10, <1>11, <1>12 DEF CountExact

LEMMA DeleteCount ==
    ASSUME IInv, CountExact, ShapeOK', NEW positions \in SUBSET DOMAIN records,
           DeleteRecords(positions)
    PROVE  CountExact'
<1> USE BoundsAssumption
<1> DEFINE D == DOMAIN records
           R == D \ positions
           w == Sizes(records)
           v == Sizes(records')
<1>1. DOMAIN records' = R /\ \A p \in R : records'[p] = records[p]
  BY DEF DeleteRecords, Without
<1>2. IsFiniteSet(D) /\ usedBytes = SumOf(w, D) /\ usedBytes \in Nat /\ \A p \in D : w[p] \in Nat
  BY Counted DEF IInv, CountExact
<1>3. IsFiniteSet(R) /\ IsFiniteSet(positions)
  BY <1>2, FS_Subset
<1>4. \A p \in R : v[p] = w[p]
  BY <1>1 DEF Sizes
<1>5. ReleasedBytes(positions) = SumOf(w, positions) /\ SumOf(w, positions) \in Nat
  <2>1. \A p \in D : Bytes(records[p]) \in Nat
    BY BytesPositive DEF IInv
  <2> QED BY <1>3, <2>1, BytesAreSums DEF ReleasedBytes
<1>6. TotalBytes(records') = SumOf(v, R)
  BY <1>1, <1>3, CountedNext
<1> HIDE DEF w, v
<1>7. SumOf(w, D) = SumOf(w, positions) + SumOf(w, R)
  BY <1>2, SumOfSplit
<1>8. SumOf(w, R) = SumOf(v, R) /\ SumOf(w, R) \in Nat
  BY <1>2, <1>3, <1>4, SumOfSame, SumOfNat
<1>9. usedBytes' = SumOf(w, R)
  <2>1. CASE D = positions
    <3>1. R = {} /\ usedBytes' = 0
      BY <2>1 DEF DeleteRecords
    <3> QED BY <3>1, SumOfEmpty
  <2>2. CASE D # positions
    <3>1. usedBytes' = AtLeastZero(usedBytes - ReleasedBytes(positions))
      BY <2>2 DEF DeleteRecords
    <3> QED BY <1>2, <1>5, <1>7, <1>8, <3>1 DEF AtLeastZero
  <2> QED BY <2>1, <2>2
<1>10. usedBytes' <= MaxBytes
  BY <1>2, <1>5, <1>7, <1>8, <1>9 DEF CountExact
<1>11. BoundsHug(records', head', tail')
  <2>1. TrimBounds(records')
    BY DEF DeleteRecords
  <2> QED BY <1>1, <2>1, TrimBoundsHug DEF IInv, ShapeOK, RecordsBelowTail
<1> QED BY <1>6, <1>8, <1>9, <1>10, <1>11 DEF CountExact

LEMMA CoalesceReplaceCount ==
    ASSUME IInv, CountExact, ShapeOK', NEW key \in Keys, NEW version \in Versions,
           NEW now \in CallTimes, CoalesceReplace(key, version, now)
    PROVE  CountExact'
<1> USE BoundsAssumption
<1> DEFINE D == DOMAIN records
           pending == Pending(key, now)
           target == Min(pending)
           others == pending \ {target}
           R == D \ others
           w == Sizes(records)
           v == Sizes(records')
           left == AtLeastZero(usedBytes - ReleasedBytes(others))
           delta == ByteSize[version] - Bytes(records[target])
<1>1. target \in pending /\ pending \subseteq D
  <2>1. pending \subseteq D /\ pending # {}
    BY DEF CoalesceReplace, Pending, Matching
  <2> QED BY <2>1, MinOfNaturals DEF IInv, ShapeOK
<1>2. /\ DOMAIN records' = R
      /\ records'[target] = Fresh(NewItem(key, version))
      /\ \A p \in R : p # target => records'[p] = records[p]
  <2> HIDE DEF pending, target
  <2> QED BY <1>1 DEF CoalesceReplace, pending, target
<1>3. /\ delta > 0 => left + delta <= MaxBytes
      /\ usedBytes' = AtLeastZero(left + delta)
      /\ TrimBounds(records')
  BY DEF CoalesceReplace
<1> HIDE DEF pending, target
<1>4. target \in R /\ others \in SUBSET D /\ R \ {target} \subseteq R
  BY <1>1
<1> HIDE DEF others
<1>5. IsFiniteSet(D) /\ usedBytes = SumOf(w, D) /\ usedBytes \in Nat /\ \A p \in D : w[p] \in Nat
  BY Counted DEF IInv, CountExact
<1>6. IsFiniteSet(R) /\ IsFiniteSet(others) /\ IsFiniteSet(R \ {target})
  BY <1>4, <1>5, FS_Subset
<1>7. /\ ByteSize[version] \in Nat
      /\ Bytes(Fresh(NewItem(key, version))) = ByteSize[version]
  BY SizeAssumption DEF Fresh, NewItem, Bytes
<1>8. v[target] = ByteSize[version] /\ \A p \in R \ {target} : v[p] = w[p]
  BY <1>2, <1>4, <1>7 DEF Sizes
<1>9. ReleasedBytes(others) = SumOf(w, others) /\ SumOf(w, others) \in Nat
  <2>1. \A p \in D : Bytes(records[p]) \in Nat
    BY BytesPositive DEF IInv
  <2> QED BY <1>4, <1>6, <2>1, BytesAreSums DEF ReleasedBytes
<1>10. TotalBytes(records') = SumOf(v, R)
  BY <1>2, <1>6, CountedNext
<1>11. w[target] = Bytes(records[target])
  BY <1>4 DEF Sizes
<1> HIDE DEF w, v
<1>12. SumOf(w, D) = SumOf(w, others) + SumOf(w, R)
  BY <1>4, <1>5, SumOfSplit
<1>13. SumOf(w, R) = w[target] + SumOf(w, R \ {target})
  BY <1>4, <1>5, <1>6, SumOfElement
<1>14. \A p \in R : v[p] \in Nat
  BY <1>4, <1>5, <1>7, <1>8
<1>15. SumOf(v, R) = v[target] + SumOf(v, R \ {target})
  BY <1>4, <1>6, <1>14, SumOfElement
<1>16. SumOf(w, R \ {target}) = SumOf(v, R \ {target}) /\ SumOf(w, R \ {target}) \in Nat
  BY <1>5, <1>6, <1>8, SumOfSame, SumOfNat
<1>17. w[target] \in Nat /\ SumOf(w, R) \in Nat
  BY <1>4, <1>5, <1>6, SumOfNat
<1>18. left = SumOf(w, R)
  BY <1>5, <1>9, <1>12, <1>17 DEF AtLeastZero
<1>19. left + delta = SumOf(v, R) /\ SumOf(v, R) \in Nat
  BY <1>7, <1>8, <1>11, <1>13, <1>15, <1>16, <1>17, <1>18
<1>20. usedBytes' = SumOf(v, R)
  BY <1>3, <1>19 DEF AtLeastZero
<1>21. usedBytes' <= MaxBytes
  <2>1. left <= MaxBytes /\ left \in Nat /\ delta \in Int
    BY <1>5, <1>7, <1>9, <1>11, <1>12, <1>17, <1>18 DEF CountExact
  <2> QED BY <1>3, <1>19, <1>20, <2>1
<1>22. BoundsHug(records', head', tail')
  BY <1>2, <1>3, TrimBoundsHug DEF IInv, ShapeOK, RecordsBelowTail
<1> QED BY <1>10, <1>19, <1>20, <1>21, <1>22 DEF CountExact

(* Leases come and go: the stored items, the count and the bounds stay. *)
LEMMA SameItemsCount ==
    ASSUME IInv, CountExact, ShapeOK',
           DOMAIN records' = DOMAIN records,
           \A p \in DOMAIN records : records'[p].item = records[p].item,
           UNCHANGED <<usedBytes, head, tail>>
    PROVE  CountExact'
<1>1. Sizes(records') = Sizes(records)
  BY DEF Sizes, Bytes
<1>2. IsFiniteSet(DOMAIN records) /\ usedBytes = SumOf(Sizes(records), DOMAIN records)
  BY Counted DEF IInv
<1>3. TotalBytes(records') = SumOf(Sizes(records'), DOMAIN records')
  BY <1>2, CountedNext
<1>4. BoundsHug(records', head', tail')
  BY DEF CountExact, BoundsHug
<1> QED BY <1>1, <1>2, <1>3, <1>4 DEF CountExact

LEMMA NextCount ==
    ASSUME IInv, CountExact, IInv', [Next]_vars
    PROVE  CountExact'
<1> USE BoundsAssumption
<1>0. ShapeOK /\ ShapeOK'
  BY DEF IInv
<1>1. ASSUME NEW version \in Versions, Push(version) PROVE CountExact'
  <2>1. NewItem(NoKey, version) \in Item
    BY <1>0, <1>1 DEF NewItem, Item, Ids, ShapeOK, Push
  <2> QED BY <1>0, <1>1, <2>1, AppendCount DEF Push
<1>2. ASSUME NEW key \in Keys, NEW version \in Versions, NEW now \in CallTimes,
             CoalesceAppend(key, version, now)
      PROVE  CountExact'
  <2>1. NewItem(key, version) \in Item
    BY <1>0, <1>2 DEF NewItem, Item, Ids, ShapeOK, CoalesceAppend
  <2> QED BY <1>0, <1>2, <2>1, AppendCount DEF CoalesceAppend
<1>3. ASSUME NEW key \in Keys, NEW version \in Versions, NEW now \in CallTimes,
             CoalesceReplace(key, version, now)
      PROVE  CountExact'
  BY <1>0, <1>3, CoalesceReplaceCount
<1>4. ASSUME NEW key \in Keys \cup {NoKey}, RemoveBy(key) PROVE CountExact'
  <2>1. Matching(key) \in SUBSET DOMAIN records
    BY DEF Matching
  <2> QED BY <1>0, <1>4, <2>1, DeleteCount DEF RemoveBy
<1>5. ASSUME NEW session \in Sessions, NEW now \in CallTimes, Reserve(session, now)
      PROVE  CountExact'
  <2>1. /\ DOMAIN records' = DOMAIN records
        /\ \A p \in DOMAIN records : records'[p].item = records[p].item
    BY <1>0, <1>5 DEF Reserve, ShapeOK, Record
  <2> QED BY <1>0, <1>5, <2>1, SameItemsCount DEF Reserve
<1>6. ASSUME NEW token \in DOMAIN handles, NEW at \in CallTimes,
             Ack(token, at) \/ NackSuperseded(token, at)
      PROVE  CountExact'
  <2>1. {handles[token].position} \in SUBSET DOMAIN records
    BY <1>6 DEF Ack, NackSuperseded, LeaseHeld
  <2> QED BY <1>0, <1>6, <2>1, DeleteCount DEF Ack, NackSuperseded
<1>7. ASSUME NEW token \in DOMAIN handles, NEW at \in CallTimes, NackRequeue(token, at)
      PROVE  CountExact'
  <2>1. /\ DOMAIN records' = DOMAIN records
        /\ \A p \in DOMAIN records : records'[p].item = records[p].item
    BY <1>0, <1>7 DEF NackRequeue, ShapeOK, Fresh
  <2> QED BY <1>0, <1>7, <2>1, SameItemsCount DEF NackRequeue
<1>8. ASSUME UNCHANGED <<records, head, tail, usedBytes>> PROVE CountExact'
  BY <1>0, <1>8, SameItemsCount
<1>9. ASSUME NEW token \in DOMAIN handles, NEW at \in CallTimes,
             Renew(token, at) \/ UpdateRefused(token, at)
      PROVE  CountExact'
  BY <1>8, <1>9 DEF Renew, UpdateRefused, store
<1>10. ASSUME (\E session \in Sessions : Crash(session)) \/ Tick \/ UNCHANGED vars
       PROVE  CountExact'
  BY <1>8, <1>10 DEF Crash, Tick, vars, store
<1> QED
  BY <1>1, <1>2, <1>3, <1>4, <1>5, <1>6, <1>7, <1>9, <1>10
  DEF Next, Produce, Update

LEMMA InitCount == Init => CountExact
<1> USE BoundsAssumption
<1> SUFFICES ASSUME Init PROVE CountExact
  OBVIOUS
<1>1. DOMAIN records = {} /\ head = 0 /\ tail = 0 /\ usedBytes = 0
  BY DEF Init
<1>2. TotalBytes(records) = 0
  <2>1. IsFiniteSet(DOMAIN records)
    BY <1>1, FS_EmptySet
  <2>2. TotalBytes(records) = SumOf(Sizes(records), DOMAIN records)
    BY <1>1, <2>1, BytesAreSums DEF TotalBytes
  <2> QED BY <1>1, <2>2, SumOfEmpty
<1> QED BY <1>1, <1>2 DEF CountExact, BoundsHug

--------------------------------------------------------------------------------
(* The state keeps its shape: records, handles, tokens and ids stay within     *)
(* what reserve, push and coalesceBy write.                                    *)
THEOREM ShapeCorrect == Spec => []ShapeOK
<1>1. IInv => ShapeOK
  BY DEF IInv
<1> QED BY <1>1, InvariantIInv, PTL

(* Two live handles never lease the same message at the same time, until their *)
(* reserve-time deadlines.                                                     *)
THEOREM LeasesAreExclusive == Spec => []LeaseExclusive
<1>1. IInv => LeaseExclusive
  BY DEF IInv
<1> QED BY <1>1, InvariantIInv, PTL

(* A message is stored exactly while nobody was told that it left the queue. *)
THEOREM NoMessageIsLost == Spec => []NoLostMessage
<1>1. IInv => NoLostMessage
  BY DEF IInv
<1> QED BY <1>1, InvariantIInv, PTL

(* The persisted byte count is the sum of the stored sizes, never over the     *)
(* limit, and the persisted bounds lie on stored records.                      *)
THEOREM CountIsExact == Spec => []BookkeepingExact
<1>1. ShapeOK /\ CountExact => BookkeepingExact
  BY DEF CountExact, BoundsHug, BookkeepingExact, TypeOK
<1>2. IInv /\ IInv' /\ CountExact /\ [Next]_vars => CountExact'
  BY NextCount
<1>3. IInv => ShapeOK
  BY DEF IInv
<1> QED BY <1>1, <1>2, <1>3, InitCount, InvariantIInv, PTL DEF Spec

--------------------------------------------------------------------------------
(* What a step drops of a key.  Every step keeps each message of a key, but    *)
(* for a replacement, which leaves a newer one, and the deletions.             *)

(* A row of the store is still a row, with the message it had. *)
RowKept(p) == p \in DOMAIN records' /\ records'[p].item = records[p].item

AllRowsKept == \A p \in DOMAIN records : RowKept(p)

(* The steps that drop no row. *)
LEMMA RowsAreKept ==
    ASSUME IInv, [Next]_vars
    PROVE  \/ AllRowsKept /\ (outcome' = outcome \/ outcome' = Told({nextId}, "stored"))
           \/ \E key \in Keys, version \in Versions, now \in CallTimes :
                 CoalesceReplace(key, version, now)
           \/ \E key \in Keys \cup {NoKey} : RemoveBy(key)
           \/ \E token \in DOMAIN handles, at \in CallTimes :
                 Ack(token, at) \/ NackSuperseded(token, at)
<1>1. ASSUME NEW item, Append(item) PROVE AllRowsKept
  BY <1>1 DEF IInv, RecordsBelowTail, Append, With, AllRowsKept, RowKept, ShapeOK
<1>2. ASSUME records' = records PROVE AllRowsKept
  BY <1>2 DEF AllRowsKept, RowKept
<1>3. ASSUME NEW session \in Sessions, NEW now \in CallTimes, Reserve(session, now)
      PROVE  AllRowsKept /\ outcome' = outcome
  <2>1. \A p \in DOMAIN records : records[p] \in Record
    BY DEF IInv, ShapeOK
  <2> QED BY <1>3, <2>1 DEF Reserve, AllRowsKept, RowKept, Record, ghosts
<1>4. ASSUME NEW token \in DOMAIN handles, NEW at \in CallTimes, NackRequeue(token, at)
      PROVE  AllRowsKept /\ outcome' = outcome
  BY <1>4 DEF NackRequeue, AllRowsKept, RowKept, Fresh, ghosts
<1>5. ASSUME NEW version \in Versions, Push(version)
      PROVE  AllRowsKept /\ outcome' = Told({nextId}, "stored")
  BY <1>1, <1>5 DEF Push
<1>6. ASSUME NEW key \in Keys, NEW version \in Versions, NEW now \in CallTimes,
             CoalesceAppend(key, version, now)
      PROVE  AllRowsKept /\ outcome' = Told({nextId}, "stored")
  BY <1>1, <1>6 DEF CoalesceAppend
<1>7. ASSUME NEW token \in DOMAIN handles, NEW at \in CallTimes,
             Renew(token, at) \/ UpdateRefused(token, at)
      PROVE  AllRowsKept /\ outcome' = outcome
  BY <1>2, <1>7 DEF Renew, UpdateRefused, store, ghosts
<1>8. ASSUME (\E session \in Sessions : Crash(session)) \/ Tick \/ UNCHANGED vars
      PROVE  AllRowsKept /\ outcome' = outcome
  BY <1>2, <1>8 DEF Crash, Tick, vars, store, ghosts
<1> QED
  BY <1>3, <1>4, <1>5, <1>6, <1>7, <1>8 DEF Next, Produce, Update

(* A replacement leaves the new message, drops none that is reserved, and says *)
(* "superseded" of the pending messages of its key alone.                      *)
LEMMA ReplaceKeeps ==
    ASSUME IInv, NEW key \in Keys, NEW version \in Versions, NEW now \in CallTimes,
           CoalesceReplace(key, version, now)
    PROVE  /\ \A p \in DOMAIN records \ Pending(key, now) :
                 p \in DOMAIN records' /\ records'[p] = records[p]
           /\ \E target \in Pending(key, now) :
                 /\ \A p \in Pending(key, now) : target <= p
                 /\ target \in DOMAIN records'
                 /\ records'[target] = Fresh(NewItem(key, version))
                 /\ \A p \in DOMAIN records' \ {target} : p \in DOMAIN records \ Pending(key, now)
           /\ \A p \in DOMAIN records :
                 outcome'[records[p].item.id] = "superseded" => p \in Pending(key, now)
<1> DEFINE pending == Pending(key, now)
           target == Min(pending)
           others == pending \ {target}
<1>1. pending \subseteq DOMAIN records /\ pending # {}
  BY DEF CoalesceReplace, Pending, Matching
<1>2. target \in pending /\ \A p \in pending : target <= p
  BY <1>1, MinOfNaturals DEF IInv, ShapeOK
<1>3. records' = [p \in DOMAIN records \ others |->
                     IF p = target THEN Fresh(NewItem(key, version)) ELSE records[p]]
  BY DEF CoalesceReplace
<1>4. outcome' = [Told(IdsAt(pending), "superseded") EXCEPT ![nextId] = "stored"]
  BY DEF CoalesceReplace
<1> HIDE DEF pending, target
<1>5. ASSUME NEW p \in DOMAIN records, outcome'[records[p].item.id] = "superseded"
      PROVE  p \in pending
  <2>1. records[p].item.id \in Ids /\ outcome[records[p].item.id] = "stored"
    BY Numbers DEF IInv, NoLostMessage
  <2>2. records[p].item.id # nextId
    BY Numbers DEF IInv, FreshNames
  <2>3. records[p].item.id \in IdsAt(pending)
    BY <1>4, <1>5, <2>1, <2>2 DEF Told
  <2> QED BY <1>1, <2>3 DEF IdsAt, IInv, IdsDistinct
<1>6. \A p \in DOMAIN records \ pending : p \in DOMAIN records' /\ records'[p] = records[p]
  BY <1>2, <1>3
<1>7. /\ target \in DOMAIN records'
      /\ records'[target] = Fresh(NewItem(key, version))
      /\ \A p \in DOMAIN records' \ {target} : p \in DOMAIN records \ pending
  BY <1>1, <1>2, <1>3
<1> QED BY <1>2, <1>5, <1>6, <1>7 DEF pending

(* A deletion drops the rows at its positions, and tells of those alone. *)
LEMMA DeleteKeeps ==
    ASSUME IInv, NEW positions \in SUBSET DOMAIN records, NEW what,
           DeleteRecords(positions), outcome' = Told(IdsAt(positions), what)
    PROVE  /\ \A p \in DOMAIN records \ positions : RowKept(p)
           /\ \A p \in positions : outcome'[records[p].item.id] = what
           /\ \A p \in DOMAIN records \ positions : outcome'[records[p].item.id] = "stored"
<1>1. \A p \in DOMAIN records \ positions : RowKept(p)
  BY DEF DeleteRecords, Without, RowKept
<1>2. \A p \in DOMAIN records :
         records[p].item.id \in Ids /\ outcome[records[p].item.id] = "stored"
  BY Numbers DEF IInv, NoLostMessage
<1>3. \A p \in positions : outcome'[records[p].item.id] = what
  BY <1>2 DEF Told, IdsAt
<1>4. ASSUME NEW p \in DOMAIN records \ positions
      PROVE  outcome'[records[p].item.id] = "stored"
  <2>1. records[p].item.id \notin IdsAt(positions)
    BY DEF IdsAt, IInv, IdsDistinct
  <2> QED BY <1>2, <2>1 DEF Told
<1> QED BY <1>1, <1>3, <1>4

(* ack and a superseding nack delete the one record that their handle leases. *)
LEMMA SettledMessage ==
    ASSUME IInv, NEW token \in DOMAIN handles, NEW at \in CallTimes,
           Ack(token, at) \/ NackSuperseded(token, at)
    PROVE  LET position == handles[token].position
               what == IF Ack(token, at) THEN "acked" ELSE "superseded"
           IN  /\ position \in DOMAIN records
               /\ records[position].token = token
               /\ LeaseHeld(position, token, at)
               /\ DeleteRecords({position})
               /\ outcome' = Told(IdsAt({position}), what)
BY HeldMessage DEF Ack, NackSuperseded

LEMMA KeyKeeps == IInv /\ [Next]_vars => KeyKeepsAMessageStep
<1> SUFFICES ASSUME IInv, [Next]_vars, NEW key \in Keys,
                    Matching(key) # {}, Matching(key)' = {}
             PROVE  \E i \in IdsAt(Matching(key)) : outcome'[i] \in {"acked", "removed"}
  BY DEF KeyKeepsAMessageStep
<1>1. \A p \in Matching(key) : p \in DOMAIN records /\ ~RowKept(p)
  BY DEF Matching, RowKept
<1>2. PICK m \in Matching(key) : TRUE
  OBVIOUS
<1>3. CASE AllRowsKept
  BY <1>1, <1>2, <1>3 DEF AllRowsKept
<1>4. ASSUME NEW k \in Keys, NEW version \in Versions, NEW now \in CallTimes,
             CoalesceReplace(k, version, now)
      PROVE  FALSE
  <2>1. CASE k = key
    <3>1. PICK target \in DOMAIN records' : records'[target] = Fresh(NewItem(key, version))
      BY <1>4, <2>1, ReplaceKeeps
    <3>2. target \in Matching(key)'
      BY <3>1 DEF Matching, Fresh, NewItem
    <3> QED BY <3>2
  <2>2. CASE k # key
    <3>1. m \in DOMAIN records \ Pending(k, now)
      BY <1>2, <2>2 DEF Pending, Matching
    <3> QED BY <1>1, <1>2, <1>4, <3>1, ReplaceKeeps DEF RowKept
  <2> QED BY <2>1, <2>2
<1>5. ASSUME NEW k \in Keys \cup {NoKey}, RemoveBy(k)
      PROVE  outcome'[records[m].item.id] = "removed"
  <2>1. Matching(k) \in SUBSET DOMAIN records
    BY DEF Matching
  <2> QED BY <1>1, <1>2, <1>5, <2>1, DeleteKeeps DEF RemoveBy
<1>6. ASSUME NEW token \in DOMAIN handles, NEW at \in CallTimes, Ack(token, at)
      PROVE  outcome'[records[m].item.id] = "acked"
  <2>1. {handles[token].position} \in SUBSET DOMAIN records
    BY <1>6, SettledMessage
  <2>2. outcome' = Told(IdsAt({handles[token].position}), "acked")
    BY <1>6, SettledMessage
  <2>3. DeleteRecords({handles[token].position})
    BY <1>6 DEF Ack
  <2> QED BY <1>1, <1>2, <2>1, <2>2, <2>3, DeleteKeeps
<1>7. ASSUME NEW token \in DOMAIN handles, NEW at \in CallTimes, NackSuperseded(token, at)
      PROVE  FALSE
  <2> DEFINE position == handles[token].position
  <2>1. position \in DOMAIN records /\ DeleteRecords({position}) /\ Superseded(position)
    BY <1>7, SettledMessage DEF NackSuperseded
  <2>2. \A p \in DOMAIN records : p # position => RowKept(p)
    BY <2>1 DEF DeleteRecords, Without, RowKept
  <2> HIDE DEF position
  <2>3. position = m
    BY <1>1, <1>2, <2>2
  <2>4. PICK p \in Matching(key) : p > position
    BY <1>2, <2>1, <2>3 DEF Superseded, Matching
  <2>5. p # position
    BY <2>1, <2>4, Numbers DEF IInv, Matching
  <2> QED BY <1>1, <2>2, <2>4, <2>5
<1>8. records[m].item.id \in IdsAt(Matching(key))
  BY <1>2 DEF IdsAt
<1> QED BY <1>3, <1>4, <1>5, <1>6, <1>7, <1>8, RowsAreKept

LEMMA OldestKept == IInv /\ [Next]_vars => OldestPendingKeptStep
<1> SUFFICES ASSUME IInv, [Next]_vars, NEW p \in DOMAIN records,
                    records[p].item.key \in KeepOldest,
                    outcome'[records[p].item.id] = "superseded"
             PROVE  Active(records[p], clock - MaxDelay)
  BY DEF OldestPendingKeptStep
<1>1. /\ records[p].item.id \in Ids
      /\ outcome[records[p].item.id] = "stored"
      /\ ~(outcome' = outcome \/ outcome' = Told({nextId}, "stored"))
  BY Numbers DEF IInv, NoLostMessage, Told
<1>2. ASSUME NEW k \in Keys, NEW version \in Versions, NEW now \in CallTimes,
             CoalesceReplace(k, version, now)
      PROVE  FALSE
  <2>1. p \in Pending(k, now)
    BY <1>2, ReplaceKeeps
  <2> QED BY <1>2, <2>1 DEF Pending, Matching, CoalesceReplace, MayReplace
<1>3. ASSUME NEW k \in Keys \cup {NoKey}, RemoveBy(k) PROVE FALSE
  <2>1. Matching(k) \in SUBSET DOMAIN records
    BY DEF Matching
  <2>2. outcome'[records[p].item.id] \in {"removed", "stored"}
    BY <1>3, <2>1, DeleteKeeps DEF RemoveBy
  <2> QED BY <2>2
<1>4. ASSUME NEW token \in DOMAIN handles, NEW at \in CallTimes,
             Ack(token, at) \/ NackSuperseded(token, at)
      PROVE  Active(records[p], clock - MaxDelay)
  <2> DEFINE position == handles[token].position
             what == IF Ack(token, at) THEN "acked" ELSE "superseded"
  <2>1. /\ position \in DOMAIN records
        /\ records[position].token = token
        /\ LeaseHeld(position, token, at)
        /\ DeleteRecords({position})
        /\ outcome' = Told(IdsAt({position}), what)
    BY <1>4, SettledMessage
  <2> HIDE DEF position, what
  <2>2. p = position
    <3>1. \A q \in DOMAIN records \ {position} : outcome'[records[q].item.id] = "stored"
      BY <2>1, DeleteKeeps
    <3> QED BY <3>1
  <2>3. records[p].token # NoToken
    BY <2>1, <2>2, Numbers DEF IInv, NoToken
  <2>4. records[p].until > at /\ clock <= at + MaxDelay /\ at \in Nat
    BY <2>1, <2>2 DEF LeaseHeld, CallTimes, Times
  <2>5. records[p].until > clock - MaxDelay
    BY <2>4, Numbers, BoundsAssumption DEF IInv
  <2> QED BY <2>3, <2>5 DEF Active
<1> QED BY <1>1, <1>2, <1>3, <1>4, RowsAreKept

--------------------------------------------------------------------------------
(* One delivery at a time, and no call that waits for its transaction: the     *)
(* leased record is then the first of the queue, so what coalesces is behind   *)
(* it, and the messages of a key lie in the order of their versions.           *)

SingleDelivery == MaxHeld <= 1 /\ MaxDelay = 0

ActiveIsFirst ==
    \A p, q \in DOMAIN records : Active(records[p], clock) => p <= q

NewerLieLater ==
    \A p, q \in DOMAIN records :
        /\ records[p].item.key = records[q].item.key /\ records[p].item.key # NoKey
        /\ p < q
        => records[p].item.version < records[q].item.version

DeliveryOrder == ActiveIsFirst /\ NewerLieLater

(* Without delay every call runs at the time of the clock. *)
LEMMA CallsAreNow ==
    ASSUME ShapeOK, SingleDelivery
    PROVE  \A now \in CallTimes : now = clock
BY Numbers DEF SingleDelivery, CallTimes, Times

LEMMA VersionsAreNumbers ==
    ASSUME ShapeOK
    PROVE  \A p \in DOMAIN records : records[p].item.version \in Nat
<1>1. \A i \in Item : i.version \in Nat
  BY BoundsAssumption DEF Item, Versions
<1> QED BY <1>1, Numbers

LEMMA InitOrder == Init => DeliveryOrder
BY DEF Init, DeliveryOrder, ActiveIsFirst, NewerLieLater

(* A message appended behind the queue is the newest of its key, or has none. *)
LEMMA AppendOrder ==
    ASSUME IInv, DeliveryOrder, NEW item \in Item, Append(item), clock' = clock,
           item.key = NoKey
           \/ \A p \in Matching(item.key) : item.version > records[p].item.version
    PROVE  DeliveryOrder'
<1>1. /\ DOMAIN records' = DOMAIN records \cup {tail}
      /\ records'[tail] = Fresh(item)
      /\ \A p \in DOMAIN records : p < tail /\ records'[p] = records[p]
  BY DEF IInv, Append, With, RecordsBelowTail, ShapeOK
<1>2. Fresh(item).item = item /\ Fresh(item).token = NoToken
  BY DEF Fresh
<1>3. item.version \in Nat /\ tail \in Nat
  BY BoundsAssumption, Numbers DEF Item, Versions, IInv
<1>4. ActiveIsFirst'
  <2> SUFFICES ASSUME NEW p \in DOMAIN records', NEW q \in DOMAIN records',
                      Active(records'[p], clock)
               PROVE  p <= q
    BY DEF ActiveIsFirst, Active
  <2>1. p \in DOMAIN records /\ Active(records[p], clock)
    BY <1>1, <1>2 DEF Active
  <2>2. CASE q = tail
    BY <1>1, <1>3, <2>1, <2>2, Numbers DEF IInv
  <2>3. CASE q # tail
    BY <1>1, <2>1, <2>3 DEF DeliveryOrder, ActiveIsFirst
  <2> QED BY <2>2, <2>3
<1>5. NewerLieLater'
  <2> SUFFICES ASSUME NEW p \in DOMAIN records', NEW q \in DOMAIN records',
                      records'[p].item.key = records'[q].item.key,
                      records'[p].item.key # NoKey, p < q
               PROVE  records'[p].item.version < records'[q].item.version
    BY DEF NewerLieLater
  <2>1. p # tail
    BY <1>1, <1>3, Numbers DEF IInv
  <2>2. p \in DOMAIN records /\ records'[p] = records[p]
    BY <1>1, <2>1
  <2>3. CASE q = tail
    <3>1. p \in Matching(item.key) /\ item.key # NoKey
      BY <1>1, <1>2, <2>2, <2>3 DEF Matching
    <3> QED BY <1>1, <1>2, <1>3, <2>2, <2>3, <3>1, VersionsAreNumbers DEF IInv
  <2>4. CASE q # tail
    BY <1>1, <2>2, <2>4 DEF DeliveryOrder, NewerLieLater
  <2> QED BY <2>3, <2>4
<1> QED BY <1>4, <1>5 DEF DeliveryOrder

LEMMA ReplaceOrder ==
    ASSUME IInv, DeliveryOrder, SingleDelivery, NEW key \in Keys, NEW version \in Versions,
           NEW now \in CallTimes, CoalesceReplace(key, version, now)
    PROVE  DeliveryOrder'
<1> DEFINE pending == Pending(key, now)
<1>1. /\ clock' = clock /\ now = clock
      /\ \A p \in Matching(key) : version > records[p].item.version
  BY CallsAreNow DEF CoalesceReplace, IInv, NewerThanMatches
<1>2. \A p \in DOMAIN records \ pending : p \in DOMAIN records' /\ records'[p] = records[p]
  BY ReplaceKeeps
<1>3. PICK target \in pending :
         /\ target \in DOMAIN records'
         /\ records'[target] = Fresh(NewItem(key, version))
         /\ \A p \in DOMAIN records' \ {target} : p \in DOMAIN records \ pending
  BY ReplaceKeeps
<1>4. target \in DOMAIN records /\ records[target].item.key = key
  BY <1>3 DEF Pending, Matching
<1>5. /\ Fresh(NewItem(key, version)).item.key = key
      /\ Fresh(NewItem(key, version)).item.version = version
      /\ Fresh(NewItem(key, version)).token = NoToken
  BY DEF Fresh, NewItem
<1>6. version \in Nat
  BY BoundsAssumption DEF Versions
(* A match that is still there is leased, so it lies before the target. *)
<1>7. ASSUME NEW p \in DOMAIN records', p # target, records'[p].item.key = key
      PROVE  /\ p \in Matching(key) /\ records'[p] = records[p]
             /\ p < target
  <2>1. p \in DOMAIN records \ pending /\ records'[p] = records[p]
    BY <1>2, <1>3, <1>7
  <2>2. p \in Matching(key) /\ Active(records[p], clock)
    BY <1>1, <1>7, <2>1 DEF Pending, Matching
  <2>3. p <= target
    BY <1>4, <2>1, <2>2 DEF DeliveryOrder, ActiveIsFirst
  <2> QED BY <1>4, <1>7, <2>1, <2>2, <2>3, Numbers DEF IInv
<1> HIDE DEF pending
<1>8. ActiveIsFirst'
  <2> SUFFICES ASSUME NEW p \in DOMAIN records', NEW q \in DOMAIN records',
                      Active(records'[p], clock)
               PROVE  p <= q
    BY <1>1 DEF ActiveIsFirst, Active
  <2>1. p # target
    BY <1>3, <1>5 DEF Active
  <2>2. p \in DOMAIN records /\ Active(records[p], clock) /\ q \in DOMAIN records
    BY <1>2, <1>3, <1>4, <2>1
  <2> QED BY <2>2 DEF DeliveryOrder, ActiveIsFirst
<1>9. NewerLieLater'
  <2> SUFFICES ASSUME NEW p \in DOMAIN records', NEW q \in DOMAIN records',
                      records'[p].item.key = records'[q].item.key,
                      records'[p].item.key # NoKey, p < q
               PROVE  records'[p].item.version < records'[q].item.version
    BY DEF NewerLieLater
  <2>1. p \in Nat /\ q \in Nat
    BY <1>3, <1>4, Numbers DEF IInv
  <2>2. CASE p = target
    BY <1>3, <1>5, <1>7, <2>1, <2>2
  <2>3. CASE q = target
    <3>1. p \in Matching(key) /\ records'[p] = records[p]
      BY <1>3, <1>5, <1>7, <2>1, <2>3
    <3>2. records[p].item.version \in Nat
      BY <3>1, VersionsAreNumbers DEF IInv, Matching
    <3> QED BY <1>1, <1>3, <1>5, <1>6, <2>3, <3>1, <3>2
  <2>4. CASE p # target /\ q # target
    <3>1. /\ p \in DOMAIN records /\ records'[p] = records[p]
          /\ q \in DOMAIN records /\ records'[q] = records[q]
      BY <1>2, <1>3, <2>4
    <3> QED BY <3>1 DEF DeliveryOrder, NewerLieLater
  <2> QED BY <2>2, <2>3, <2>4
<1> QED BY <1>8, <1>9 DEF DeliveryOrder

(* reserve leases the first record, as nobody holds another one. *)
LEMMA ReserveOrder ==
    ASSUME IInv, DeliveryOrder, SingleDelivery, NEW session \in Sessions,
           NEW now \in CallTimes, Reserve(session, now)
    PROVE  DeliveryOrder'
<1> DEFINE position == Min(Available(now))
           leased == {p \in DOMAIN records : Active(records[p], clock)}
<1>1. now = clock /\ clock' = clock
  BY CallsAreNow DEF Reserve, IInv
<1>2. leased = {}
  <2>1. DOMAIN records \subseteq 0..(tail - 1)
    BY Numbers DEF IInv, RecordsBelowTail
  <2>2. IsFiniteSet(leased)
    <3>1. IsFiniteSet(0..(tail - 1))
      BY Numbers, FS_Interval DEF IInv
    <3>2. leased \subseteq 0..(tail - 1)
      BY <2>1
    <3> QED BY <3>1, <3>2, FS_Subset
  <2>3. Cardinality(leased) < MaxHeld
    BY DEF Reserve
  <2> HIDE DEF leased
  <2>4. Cardinality(leased) \in Nat
    BY <2>2, FS_CardinalityType
  <2>5. Cardinality(leased) = 0
    BY <2>3, <2>4, BoundsAssumption DEF SingleDelivery
  <2> QED BY <2>2, <2>5, FS_EmptySet
<1>3. Available(now) = DOMAIN records
  BY <1>1, <1>2 DEF Available
<1>4. position \in DOMAIN records /\ \A q \in DOMAIN records : position <= q
  <2>1. Available(now) # {}
    BY DEF Reserve
  <2> QED BY <1>3, <2>1, MinOfNaturals DEF IInv, ShapeOK
<1>5. records' = [records EXCEPT ![position].token = nextToken, ![position].until = now + Lease]
  BY DEF Reserve
<1>6. \A p \in DOMAIN records : ~Active(records[p], clock)
  BY <1>2
<1> HIDE DEF position, leased
<1>7. \A p \in DOMAIN records : records[p] \in Record
  BY DEF IInv, ShapeOK
<1>8. /\ DOMAIN records' = DOMAIN records
      /\ \A p \in DOMAIN records : records'[p].item = records[p].item
      /\ \A p \in DOMAIN records : p # position => records'[p] = records[p]
  BY <1>4, <1>5, <1>7 DEF Record
<1>9. ActiveIsFirst'
  BY <1>1, <1>4, <1>6, <1>8 DEF ActiveIsFirst, Active
<1>10. NewerLieLater'
  BY <1>8 DEF DeliveryOrder, NewerLieLater
<1> QED BY <1>9, <1>10 DEF DeliveryOrder

(* Rows that go, lose their lease or see time pass leave the others in order. *)
LEMMA FewerKeepOrder ==
    ASSUME IInv, DeliveryOrder,
           DOMAIN records' \subseteq DOMAIN records,
           \A p \in DOMAIN records' :
              records'[p] = records[p] \/ records'[p] = Fresh(records[p].item),
           clock' \in Nat, clock <= clock'
    PROVE  DeliveryOrder'
<1>1. \A p \in DOMAIN records' : records'[p].item = records[p].item
  BY DEF Fresh
<1>2. ASSUME NEW p \in DOMAIN records', Active(records'[p], clock')
      PROVE  Active(records[p], clock)
  <2>1. records'[p] = records[p]
    BY <1>2 DEF Active, Fresh
  <2>2. records[p].until \in Nat /\ clock \in Nat
    BY Numbers DEF IInv
  <2> QED BY <1>2, <2>1, <2>2 DEF Active
<1>3. ActiveIsFirst'
  BY <1>2 DEF DeliveryOrder, ActiveIsFirst
<1>4. NewerLieLater'
  BY <1>1 DEF DeliveryOrder, NewerLieLater
<1> QED BY <1>3, <1>4 DEF DeliveryOrder

LEMMA NextOrder ==
    ASSUME IInv, IInv', DeliveryOrder, SingleDelivery, [Next]_vars
    PROVE  DeliveryOrder'
<1>0. clock \in Nat /\ clock' \in Nat /\ \A p \in DOMAIN records : records[p] \in Record
  BY BoundsAssumption DEF IInv, ShapeOK, Times
<1>1. ASSUME NEW version \in Versions, Push(version) PROVE DeliveryOrder'
  <2>1. NewItem(NoKey, version) \in Item /\ NewItem(NoKey, version).key = NoKey
    BY <1>1 DEF NewItem, Item, Ids, IInv, ShapeOK, Push
  <2> QED BY <1>1, <2>1, AppendOrder DEF Push
<1>2. ASSUME NEW key \in Keys, NEW version \in Versions, NEW now \in CallTimes,
             CoalesceAppend(key, version, now)
      PROVE  DeliveryOrder'
  <2>1. /\ NewItem(key, version) \in Item
        /\ NewItem(key, version).key = key /\ NewItem(key, version).version = version
    BY <1>2 DEF NewItem, Item, Ids, IInv, ShapeOK, CoalesceAppend
  <2>2. Append(NewItem(key, version)) /\ clock' = clock /\ NewerThanMatches(key, version)
    BY <1>2 DEF CoalesceAppend
  <2> QED BY <2>1, <2>2, AppendOrder DEF NewerThanMatches
<1>3. ASSUME NEW key \in Keys, NEW version \in Versions, NEW now \in CallTimes,
             CoalesceReplace(key, version, now)
      PROVE  DeliveryOrder'
  BY <1>3, ReplaceOrder
<1>4. ASSUME NEW positions, DeleteRecords(positions), clock' = clock PROVE DeliveryOrder'
  <2>1. DOMAIN records' \subseteq DOMAIN records /\ \A p \in DOMAIN records' : records'[p] = records[p]
    BY <1>4 DEF DeleteRecords, Without
  <2> QED BY <1>0, <1>4, <2>1, FewerKeepOrder
<1>5. ASSUME NEW key \in Keys \cup {NoKey}, RemoveBy(key) PROVE DeliveryOrder'
  BY <1>4, <1>5 DEF RemoveBy
<1>6. ASSUME NEW session \in Sessions, NEW now \in CallTimes, Reserve(session, now)
      PROVE  DeliveryOrder'
  BY <1>6, ReserveOrder
<1>7. ASSUME NEW token \in DOMAIN handles, NEW at \in CallTimes,
             Ack(token, at) \/ NackSuperseded(token, at)
      PROVE  DeliveryOrder'
  BY <1>4, <1>7 DEF Ack, NackSuperseded
<1>8. ASSUME NEW token \in DOMAIN handles, NEW at \in CallTimes, NackRequeue(token, at)
      PROVE  DeliveryOrder'
  <2> DEFINE position == handles[token].position
  <2>1. records' = [records EXCEPT ![position] = Fresh(records[position].item)] /\ clock' = clock
    BY <1>8 DEF NackRequeue
  <2>2. /\ DOMAIN records' = DOMAIN records
        /\ \A p \in DOMAIN records :
              records'[p] = records[p] \/ records'[p] = Fresh(records[p].item)
    BY <2>1
  <2> QED BY <1>0, <2>1, <2>2, FewerKeepOrder
<1>9. ASSUME records' = records, clock <= clock' PROVE DeliveryOrder'
  BY <1>0, <1>9, FewerKeepOrder
<1>10. ASSUME NEW token \in DOMAIN handles, NEW at \in CallTimes,
              Renew(token, at) \/ UpdateRefused(token, at)
       PROVE  DeliveryOrder'
  BY <1>0, <1>9, <1>10 DEF Renew, UpdateRefused, store
<1>11. ASSUME (\E session \in Sessions : Crash(session)) \/ Tick \/ UNCHANGED vars
       PROVE  DeliveryOrder'
  <2>1. records' = records
    BY <1>11 DEF Crash, Tick, vars, store
  <2>2. clock' = clock \/ clock' = clock + 1
    BY <1>11 DEF Crash, Tick, vars
  <2> QED BY <1>0, <1>9, <2>1, <2>2
<1> QED
  BY <1>1, <1>2, <1>3, <1>5, <1>6, <1>7, <1>8, <1>10, <1>11 DEF Next, Produce, Update

(* A replacement brings a newer message, and a released one is superseded by a *)
(* record behind it, which is then newer as well.                              *)
LEMMA NewestSurvives ==
    IInv /\ NewerLieLater /\ [Next]_vars => NewestOfKeySurvivesStep
<1> SUFFICES ASSUME IInv, NewerLieLater, [Next]_vars, NEW p \in DOMAIN records,
                    records[p].item.key # NoKey,
                    outcome'[records[p].item.id] = "superseded"
             PROVE  \E q \in DOMAIN records' :
                       /\ records'[q].item.key = records[p].item.key
                       /\ records'[q].item.version > records[p].item.version
  BY DEF NewestOfKeySurvivesStep
<1>1. /\ records[p].item.id \in Ids
      /\ outcome[records[p].item.id] = "stored"
      /\ ~(outcome' = outcome \/ outcome' = Told({nextId}, "stored"))
  BY Numbers DEF IInv, NoLostMessage, Told
<1>2. ASSUME NEW k \in Keys, NEW version \in Versions, NEW now \in CallTimes,
             CoalesceReplace(k, version, now)
      PROVE  \E q \in DOMAIN records' :
                /\ records'[q].item.key = records[p].item.key
                /\ records'[q].item.version > records[p].item.version
  <2>1. p \in Matching(k)
    BY <1>2, ReplaceKeeps DEF Pending
  <2>2. PICK target \in DOMAIN records' : records'[target] = Fresh(NewItem(k, version))
    BY <1>2, ReplaceKeeps
  <2>3. records'[target].item.key = k /\ records'[target].item.version = version
    BY <2>2 DEF Fresh, NewItem
  <2>4. version > records[p].item.version /\ records[p].item.key = k
    BY <1>2, <2>1 DEF CoalesceReplace, NewerThanMatches, Matching
  <2> QED BY <2>3, <2>4
<1>3. ASSUME NEW k \in Keys \cup {NoKey}, RemoveBy(k) PROVE FALSE
  <2>1. Matching(k) \in SUBSET DOMAIN records
    BY DEF Matching
  <2>2. outcome'[records[p].item.id] \in {"removed", "stored"}
    BY <1>3, <2>1, DeleteKeeps DEF RemoveBy
  <2> QED BY <2>2
<1>4. ASSUME NEW token \in DOMAIN handles, NEW at \in CallTimes,
             Ack(token, at) \/ NackSuperseded(token, at)
      PROVE  \E q \in DOMAIN records' :
                /\ records'[q].item.key = records[p].item.key
                /\ records'[q].item.version > records[p].item.version
  <2> DEFINE position == handles[token].position
             what == IF Ack(token, at) THEN "acked" ELSE "superseded"
  <2>1. /\ position \in DOMAIN records
        /\ DeleteRecords({position})
        /\ outcome' = Told(IdsAt({position}), what)
    BY <1>4, SettledMessage
  <2>2. Ack(token, at) \/ Superseded(position)
    BY <1>4 DEF NackSuperseded
  <2> HIDE DEF position
  <2>3. /\ \A q \in DOMAIN records \ {position} : RowKept(q)
        /\ outcome'[records[position].item.id] = what
        /\ \A q \in DOMAIN records \ {position} : outcome'[records[q].item.id] = "stored"
    <3> HIDE DEF what
    <3> QED BY <2>1, DeleteKeeps
  <2>4. p = position /\ Superseded(position)
    BY <2>2, <2>3
  <2>5. PICK q \in DOMAIN records : q > p /\ records[q].item.key = records[p].item.key
    BY <2>4 DEF Superseded, Matching
  <2>6. p < q /\ q # position
    BY <2>4, <2>5, Numbers DEF IInv
  <2>7. RowKept(q) /\ records[p].item.version < records[q].item.version
    BY <2>3, <2>5, <2>6 DEF NewerLieLater
  <2>8. records[p].item.version \in Nat /\ records[q].item.version \in Nat
    BY VersionsAreNumbers DEF IInv
  <2> QED BY <2>5, <2>7, <2>8 DEF RowKept
<1> QED BY <1>1, <1>2, <1>3, <1>4, RowsAreKept
--------------------------------------------------------------------------------
(* Supersession never empties a key: a step after which no message of a key is *)
(* stored acknowledges or removes one; and `oldest` supersedes a message only  *)
(* out of the hands of a consumer that released it (coalesceInTransaction and  *)
(* nack, idb-queue/index.js), for any number of sessions and any delay.        *)
THEOREM CoalescingKeepsAMessage ==
    Spec => [][KeyKeepsAMessageStep /\ OldestPendingKeptStep]_vars
<1>1. IInv /\ [Next]_vars => KeyKeepsAMessageStep /\ OldestPendingKeptStep
  BY KeyKeeps, OldestKept
<1> QED BY <1>1, InvariantIInv, PTL DEF Spec

(* Where one delivery is open at a time and calls do not wait, as in the one   *)
(* reader of private-messenger/index.js, the newest message of a key is never  *)
(* dropped in favour of an older one.                                          *)
THEOREM NewestIsNeverSuperseded ==
    Spec => [][SingleDelivery => NewestOfKeySurvivesStep]_vars
<1> DEFINE Ordered == SingleDelivery => DeliveryOrder
<1>1. Init => Ordered
  BY InitOrder
<1>2. IInv /\ IInv' /\ Ordered /\ [Next]_vars => Ordered'
  <2>1. SingleDelivery' = SingleDelivery
    BY DEF SingleDelivery
  <2> QED BY <2>1, NextOrder
<1>3. IInv /\ Ordered /\ [Next]_vars => (SingleDelivery => NewestOfKeySurvivesStep)
  BY NewestSurvives DEF DeliveryOrder
<1> HIDE DEF Ordered
<1> QED BY <1>1, <1>2, <1>3, InvariantIInv, PTL DEF Spec
================================================================================
