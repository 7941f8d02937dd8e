----------------------------- MODULE ServicesProofs -----------------------------
(***************************************************************************)
(* Two services of a messenger.                                             *)
(*                                                                         *)
(* SendRace, for any sends, receivers, relays, routes and bounds: a send     *)
(* that succeeded was accepted for each of its receivers, and a failure that *)
(* nothing will retry has left no route untried.                             *)
(*                                                                         *)
(* StorageRegistry, for any instances, channels and bounds: the databases of *)
(* an identity are not deleted under an instance that has them open, and     *)
(* the channels it administers are named in its lease.                       *)
(***************************************************************************)
EXTENDS SendRace, StorageRegistry, NaturalsLemmas, SequenceTheorems

(* The records, by their fields. *)
IsRecord(x, fields) == x = [f \in fields |-> x[f]]
RaceFields == {"primary", "fallback", "mirrors", "early", "explicit", "sends", "follows", "prepared", "answers",
               "resigns", "interrupts", "cools", "open"}
SendFields == {"state", "flag", "recv", "whole", "live", "pending", "tried", "excluded", "blocked", "offline", "timer",
               "opening", "resigned", "first", "todo", "of", "last", "lane", "answer", "pubs", "shut"}

(* Routes are relays. *)
IsRace(e) ==
    /\ IsRecord(e, RaceFields)
    /\ e.early \in BOOLEAN
    /\ e.fallback \subseteq Targets /\ e.mirrors \subseteq Targets
    /\ \A c \in Receivers : e.primary[c] \subseteq Targets
RaceAssumptions == Threshold \in Nat \ {0} /\ \A e \in Races : IsRace(e)

LEMMA RacesAreRaces == RaceAssumptions
<1>1. ASSUME NEW e \in Races PROVE IsRace(e)
  BY RaceAssumption DEF IsRace, IsRecord, RaceFields
<1> QED BY <1>1, RaceAssumption DEF RaceAssumptions

(* The relays an event for a receiver may go to, and those that routing knows. *)
Ways(e, c) == e.primary[c] \union e.fallback \union e.mirrors
Pool(e) == (UNION {e.primary[p] : p \in Receivers}) \union e.fallback

(* A batch, and one whose relays all its receivers read. *)
BatchOK(b) == b.recv \subseteq Receivers /\ b.relays \subseteq Targets
Reads(b, e) == \A c \in b.recv : b.relays \subseteq Ways(e, c)

--------------------------------------------------------------------------------
(* The invariant of a send. *)
Unstarted == {"idle", "refused", "resolved"}
TypedOK(q, e) ==
    /\ IsRecord(q, SendFields)
    /\ q.state \in {"idle", "refused", "resolved", "running", "yes", "no", "thrown"}
    /\ q.flag \in {"none", "available", "online"} /\ q.live \in {"yes", "aborted", "paused", "gone"}
    /\ q.recv \subseteq Receivers /\ q.pending \subseteq q.recv
    /\ q.tried \subseteq Targets /\ q.shut \subseteq Targets /\ q.excluded \subseteq Pool(e)
    /\ q.state \notin {"idle", "refused"} => BatchOK(q.first) /\ \A b \in q.todo : BatchOK(b)
    /\ q.state \in Unstarted => q.pending = {}

(* What is sent on is for receivers that read it. *)
LaneOK(x, whole, e) ==
    /\ IsRecord(x, {"at", "held"})
    /\ x.held # NoBatch => BatchOK(x.held) /\ (whole => Reads(x.held, e))
LanesOK(q, e) ==
    /\ q.lane = [l \in Lanes |-> q.lane[l]]
    /\ \A l \in Lanes : LaneOK(q.lane[l], q.whole, e)
    /\ q.state = "idle" => \A l \in Lanes : q.lane[l].held = NoBatch
    /\ q.state = "resolved" =>
          /\ q.lane["primary"].held = q.first /\ q.recv = q.first.recv
          /\ q.whole => Reads(q.first, e)

(* Publications share no relay, and one whose event is being signed has no answer that counts. *)
PubOK(p, q, e) ==
    /\ IsRecord(p, {"by", "recv", "relays", "report"}) /\ p.by \in Lanes
    /\ p.report \in {"open", "signing", "probing", "settled", "lost"}
    /\ p.relays \subseteq q.tried /\ p.recv \subseteq Receivers
    /\ q.whole => Reads(p, e)
    /\ p.report = "signing" => \A r \in p.relays : q.answer[r] \notin {"asked", "ok"}
PubsOK(q, e) ==
    /\ q.answer = [r \in Targets |-> q.answer[r]]
    /\ q.state \in Unstarted => q.pubs = {}
    /\ \A p \in q.pubs : PubOK(p, q, e)
    /\ \A p, t \in q.pubs : p.relays \intersect t.relays # {} => p = t
    /\ \A r \in Targets : q.answer[r] = "asked" => \E p \in q.pubs : r \in p.relays
    /\ \A r \in Targets : q.answer[r] = "ok" => r \in q.tried

(* Whoever is no longer pending has an acceptance that counts for it. *)
Accounted(q, e, c) == \E r \in Targets : r \in Ways(e, c) /\ q.answer[r] = "ok"
CoverOK(q, e) ==
    /\ q.state \in {"running", "yes", "no", "thrown"} /\ q.whole => \A c \in q.recv \ q.pending : Accounted(q, e, c)
    /\ q.state = "yes" => q.pending = {}

SendOK(q, e) == TypedOK(q, e) /\ LanesOK(q, e) /\ PubsOK(q, e) /\ CoverOK(q, e)

IsCircuit(x) == IsRecord(x, {"fails", "circuit"}) /\ x.circuit \in {"closed", "open", "half"} /\ x.fails \in 0..Threshold
IsHealth(h) == h = [r \in Targets |-> h[r]] /\ \A r \in Targets : IsCircuit(h[r])

IInv ==
    /\ IsRace(race) /\ IsHealth(health)
    /\ send = [s \in Sends |-> send[s]]
    /\ \A s \in Sends : SendOK(send[s], race)

--------------------------------------------------------------------------------
(* Health *)

LEMMA FailureIsCircuit ==
    ASSUME RaceAssumptions, NEW x, IsCircuit(x), NEW kind
    PROVE  IsCircuit(RecordFailure(x, kind))
<1>1. x.fails \in Nat /\ x.fails <= Threshold /\ Threshold \in Nat
  BY DEF IsCircuit, RaceAssumptions
<1>2. CASE kind = "refused" \/ x.circuit = "half" \/ x.fails + 1 >= Threshold
  <2>1. RecordFailure(x, kind) = [fails |-> 0, circuit |-> "open"]
    BY <1>2 DEF RecordFailure
  <2>2. 0 \in 0..Threshold
    BY <1>1
  <2> QED BY <2>1, <2>2 DEF IsCircuit, IsRecord
<1>3. CASE ~(kind = "refused" \/ x.circuit = "half" \/ x.fails + 1 >= Threshold)
  <2>1. RecordFailure(x, kind) = [fails |-> x.fails + 1, circuit |-> "closed"]
    BY <1>3 DEF RecordFailure
  <2>2. x.fails + 1 \in 0..Threshold
    BY <1>1, <1>3
  <2> QED BY <2>1, <2>2 DEF IsCircuit, IsRecord
<1> QED BY <1>2, <1>3

LEMMA BlamedIsHealth ==
    ASSUME RaceAssumptions, NEW h, IsHealth(h), NEW q, NEW relays
    PROVE  IsHealth(Blamed(h, q, relays))
  BY FailureIsCircuit DEF Blamed, IsHealth

LEMMA CreditedIsHealth ==
    ASSUME RaceAssumptions, NEW h, IsHealth(h), NEW q, NEW relays
    PROVE  IsHealth(Credited(h, q, relays))
<1>1. IsCircuit(Healthy)
  BY DEF RaceAssumptions, IsCircuit, IsRecord, Healthy
<1> QED BY <1>1 DEF Credited, IsHealth

--------------------------------------------------------------------------------
(* The computations on one send. *)

(* What a computation leaves alone of a send that has started. *)
Alike(q, r) ==
    /\ r.recv = q.recv /\ r.whole = q.whole /\ r.pending = q.pending /\ r.tried = q.tried
    /\ r.first = q.first /\ r.todo = q.todo /\ r.answer = q.answer /\ r.pubs = q.pubs
Started(q) == q.state \in {"running", "yes", "no", "thrown"}
Dressed(q) ==
    /\ IsRecord(q, SendFields) /\ q.flag \in {"none", "available", "online"} /\ q.live \in {"yes", "aborted", "paused", "gone"}
    /\ q.excluded \subseteq Pool(race) /\ q.shut \subseteq Targets
LanesFit(q, whole) ==
    /\ q.lane = [l \in Lanes |-> q.lane[l]]
    /\ \A l \in Lanes : LaneOK(q.lane[l], whole, race)

LEMMA AlikeOK ==
    ASSUME NEW q, SendOK(q, race), Started(q), NEW r, Alike(q, r), Dressed(r), Started(r),
           LanesFit(r, q.whole), r.state = "yes" => q.pending = {}
    PROVE  SendOK(r, race)
<1>1. TypedOK(r, race)
  BY DEF SendOK, TypedOK, Alike, Dressed, Started, Unstarted
<1>2. LanesOK(r, race)
  BY DEF LanesOK, Alike, Started, LanesFit
<1>3. PubsOK(r, race)
  BY DEF SendOK, PubsOK, PubOK, Alike, Started, Unstarted
<1>4. CoverOK(r, race)
  BY DEF SendOK, CoverOK, Accounted, Alike, Started
<1> QED BY <1>1, <1>2, <1>3, <1>4 DEF SendOK

LEMMA IsDressed ==
    ASSUME NEW q, SendOK(q, race)
    PROVE  Dressed(q) /\ LanesFit(q, q.whole)
  BY DEF SendOK, TypedOK, LanesOK, Dressed, LanesFit

LEMMA FinishOK ==
    ASSUME NEW q, SendOK(q, race), q.state = "running", NEW ok \in BOOLEAN, ok => q.pending = {}
    PROVE  SendOK(Finish(q, ok), race) /\ Started(Finish(q, ok)) /\ Finish(q, ok).state # "running"
<1> DEFINE r == Finish(q, ok)
<1>0. Dressed(q)
  BY IsDressed
<1>1. r = [q EXCEPT !.state = r.state, !.timer = r.timer, !.flag = r.flag]
      /\ r.state = (IF ok THEN "yes" ELSE "no") /\ r.flag \in {"none", "available", "online"}
  BY <1>0 DEF Dressed, IsRecord, SendFields, Finish
<1> HIDE DEF r
<1>2. Dressed(r) /\ Alike(q, r) /\ r.lane = q.lane
  BY <1>0, <1>1 DEF Dressed, IsRecord, SendFields, Alike
<1>3. Started(r) /\ Started(q) /\ r.state # "running"
  BY <1>1 DEF Started
<1>4. LanesFit(r, q.whole)
  BY <1>2, IsDressed DEF LanesFit
<1>5. r.state = "yes" => q.pending = {}
  BY <1>1
<1>6. SendOK(r, race)
  BY <1>2, <1>3, <1>4, <1>5, AlikeOK
<1> QED BY <1>3, <1>6 DEF r

LEMMA LaneAtOK ==
    ASSUME NEW q, SendOK(q, race), Started(q), NEW l \in Lanes, NEW at
    PROVE  SendOK(LaneAt(q, l, at), race) /\ LaneAt(q, l, at) = [q EXCEPT !.lane = LaneAt(q, l, at).lane]
<1> DEFINE r == LaneAt(q, l, at)
           x == [at |-> at, held |-> NoBatch]
<1>1. LaneOK(x, q.whole, race)
  BY DEF LaneOK, IsRecord
<1>2. LanesFit(q, q.whole) /\ Dressed(q)
  BY IsDressed
<1>3. r = [q EXCEPT !.lane = [@ EXCEPT ![l] = x]]
  BY DEF LaneAt
<1>4. Dressed(r) /\ Alike(q, r) /\ r.lane = [q.lane EXCEPT ![l] = x] /\ r.state = q.state /\ r = [q EXCEPT !.lane = r.lane]
  BY <1>2, <1>3 DEF Dressed, IsRecord, SendFields, Alike
<1> HIDE DEF r, x
<1>5. LanesFit(r, q.whole)
  BY <1>1, <1>2, <1>4 DEF LanesFit
<1>6. r.state = "yes" => q.pending = {}
  BY <1>4 DEF SendOK, CoverOK
<1> QED BY <1>4, <1>5, <1>6, AlikeOK DEF Started, r

(* What only touches the rest of a send. *)
Touched(q, r) == Alike(q, r) /\ Dressed(r) /\ r.lane = q.lane /\ r.state = q.state

LEMMA TouchedOK ==
    ASSUME NEW q, SendOK(q, race), Started(q), NEW r, Touched(q, r)
    PROVE  SendOK(r, race) /\ Started(r)
<1>1. r.state = "yes" => q.pending = {}
  BY DEF SendOK, CoverOK, Touched
<1>2. LanesFit(r, q.whole) /\ Started(r)
  BY IsDressed DEF LanesFit, Touched, Started
<1> QED BY <1>1, <1>2, AlikeOK DEF Touched

LEMMA CheckOK ==
    ASSUME NEW q, SendOK(q, race), Started(q)
    PROVE  SendOK(CheckRace(q), race)
<1>1. CheckRace(q) = q \/ (q.state = "running" /\ q.pending = {} /\ CheckRace(q) = Finish(q, TRUE))
        \/ (q.state = "running" /\ CheckRace(q) = Finish(q, FALSE))
  BY DEF CheckRace, Running
<1> QED BY <1>1, FinishOK

LEMMA EndsLaneOK ==
    ASSUME NEW q, SendOK(q, race), Started(q), NEW l \in Lanes, NEW closed, closed \subseteq Targets
    PROVE  SendOK(EndsLane(q, l, closed), race)
<1> DEFINE o1 == LaneAt(q, l, "over")
           over == [o1 EXCEPT !.shut = @ \union closed]
           quiet == [over EXCEPT !.timer = FALSE]
           next == IF l = "primary" /\ q.timer
                   THEN IF Stopped(q) THEN quiet ELSE LaneAt(quiet, "fallback", "starting")
                   ELSE over
<1>1. SendOK(o1, race) /\ o1 = [q EXCEPT !.lane = o1.lane]
  BY LaneAtOK
<1> HIDE DEF o1
<1>2. Started(o1)
  BY <1>1 DEF SendOK, TypedOK, IsRecord, SendFields, Started
<1>3. Touched(o1, over)
  BY <1>1, <1>2, IsDressed DEF Dressed, IsRecord, SendFields, Alike, Touched
<1>4. SendOK(over, race) /\ Started(over)
  BY <1>1, <1>2, <1>3, TouchedOK
<1> HIDE DEF over
<1>5. Touched(over, quiet)
  BY <1>4, IsDressed DEF Dressed, IsRecord, SendFields, Alike, Touched
<1>6. SendOK(quiet, race) /\ Started(quiet)
  BY <1>4, <1>5, TouchedOK
<1> HIDE DEF quiet
<1>7. SendOK(LaneAt(quiet, "fallback", "starting"), race) /\ Started(LaneAt(quiet, "fallback", "starting"))
  <2>1. SendOK(LaneAt(quiet, "fallback", "starting"), race)
    BY <1>6, LaneAtOK DEF Lanes
  <2>2. LaneAt(quiet, "fallback", "starting").state = quiet.state
    BY <1>6 DEF LaneAt, SendOK, TypedOK, IsRecord, SendFields
  <2> QED BY <1>6, <2>1, <2>2 DEF Started
<1>8. SendOK(next, race) /\ Started(next)
  BY <1>4, <1>6, <1>7
<1>9. EndsLane(q, l, closed) = CheckRace(next)
  BY DEF EndsLane, over, quiet, o1
<1> HIDE DEF next
<1> QED BY <1>8, <1>9, CheckOK

--------------------------------------------------------------------------------
(* Routes *)

LEMMA PicksRoute ==
    ASSUME NEW who, NEW listed, NEW excluded, NEW max, NEW f \in Picks(who, listed, excluded, max)
    PROVE  DOMAIN f = who /\ \A c \in who : f[c] \subseteq listed[c] \ excluded
  BY DEF Picks

LEMMA BatchesRoute ==
    ASSUME NEW route, NEW b \in Batches(route)
    PROVE  /\ b.recv \subseteq DOMAIN route /\ b.recv # {} /\ b.relays # {}
           /\ \A c \in b.recv : b.relays \subseteq route[c]
           /\ \A r \in b.relays : \E c \in DOMAIN route : r \in route[c]
  BY DEF Batches, Served

LEMMA PrimaryBatchesOK ==
    ASSUME IsRace(race), NEW s, send[s].pending \subseteq Receivers, NEW max, NEW b \in PrimaryBatches(s, max)
    PROVE  BatchOK(b) /\ Reads(b, race) /\ b.recv \subseteq send[s].pending
<1>1. PICK f \in Picks(send[s].pending, race.primary, Unavailable(s) \union send[s].tried, max) : b \in Batches(f)
  BY DEF PrimaryBatches
<1>2. DOMAIN f = send[s].pending /\ \A c \in send[s].pending : f[c] \subseteq race.primary[c]
  BY <1>1, PicksRoute
<1> QED BY <1>1, <1>2, BatchesRoute DEF BatchOK, Reads, Ways, IsRace

LEMMA FallbackBatchesOK ==
    ASSUME IsRace(race), NEW s, send[s].pending \subseteq Receivers, NEW b \in FallbackBatches(s)
    PROVE  BatchOK(b) /\ Reads(b, race) /\ b.recv \subseteq send[s].pending
<1>1. PICK f \in Picks(send[s].pending, FallbackLists, Unavailable(s) \union send[s].tried, PerReceiver) : b \in Batches(f)
  BY DEF FallbackBatches
<1>2. DOMAIN f = send[s].pending /\ \A c \in send[s].pending : f[c] \subseteq FallbackLists[c]
  BY <1>1, PicksRoute
<1>3. \A c \in send[s].pending : f[c] \subseteq race.fallback
  BY <1>2 DEF FallbackLists, Fallback
<1> QED BY <1>1, <1>2, <1>3, BatchesRoute DEF BatchOK, Reads, Ways, IsRace

LEMMA NextBatchesOK ==
    ASSUME IsRace(race), NEW s, SendOK(send[s], race), NEW l \in Lanes, NEW b \in NextBatches(s, l)
    PROVE  BatchOK(b) /\ (send[s].whole => Reads(b, race))
<1>1. send[s].pending \subseteq Receivers
  BY DEF SendOK, TypedOK
<1>2. send[s].lane[l].held # NoBatch => BatchOK(send[s].lane[l].held) /\ (send[s].whole => Reads(send[s].lane[l].held, race))
  BY DEF SendOK, LanesOK, LaneOK
<1> QED BY <1>1, <1>2, PrimaryBatchesOK, FallbackBatchesOK DEF NextBatches, StagedBatches

--------------------------------------------------------------------------------
(* Publications *)

LEMMA CancelledOK ==
    ASSUME NEW q, SendOK(q, race)
    PROVE  SendOK(Cancelled(q), race) /\ Cancelled(q).state = q.state
<1> DEFINE r == Cancelled(q)
           C(p) == IF p.report = "open" THEN [p EXCEPT !.report = "settled"] ELSE p
<1>0. Dressed(q) /\ LanesFit(q, q.whole)
  BY IsDressed
<1>1. r = [q EXCEPT !.answer = r.answer, !.pubs = r.pubs]
      /\ r.answer = [x \in Targets |-> IF q.answer[x] = "asked" THEN "native" ELSE q.answer[x]]
      /\ r.pubs = {C(p) : p \in q.pubs}
  BY <1>0 DEF Dressed, IsRecord, SendFields, Cancelled
<1>2. \A p \in q.pubs : /\ IsRecord(C(p), {"by", "recv", "relays", "report"}) /\ C(p).by = p.by /\ C(p).recv = p.recv /\ C(p).relays = p.relays
                        /\ C(p).report \in {"signing", "probing", "settled", "lost"} /\ (C(p).report = "signing" => p.report = "signing")
  BY DEF SendOK, PubsOK, PubOK, IsRecord
<1> HIDE DEF r, C
<1>3. /\ IsRecord(r, SendFields)
      /\ \A f \in SendFields \ {"answer", "pubs"} : r[f] = q[f]
  BY <1>0, <1>1 DEF Dressed, IsRecord, SendFields
<1>4. /\ r.state = q.state /\ r.flag = q.flag /\ r.live = q.live /\ r.recv = q.recv /\ r.whole = q.whole /\ r.pending = q.pending
      /\ r.tried = q.tried /\ r.excluded = q.excluded /\ r.shut = q.shut /\ r.first = q.first /\ r.todo = q.todo /\ r.lane = q.lane
  BY <1>3 DEF SendFields
<1>5. TypedOK(r, race)
  BY <1>3, <1>4 DEF SendOK, TypedOK
<1>6. LanesOK(r, race)
  BY <1>4 DEF SendOK, LanesOK
<1>7. PubsOK(r, race)
  <2>1. r.answer = [x \in Targets |-> r.answer[x]]
    BY <1>1
  <2>2. ASSUME NEW p \in q.pubs PROVE PubOK(C(p), r, race)
    <3>1. PubOK(p, q, race)
      BY DEF SendOK, PubsOK
    <3>2. \A x \in p.relays : x \in Targets
      BY <3>1 DEF PubOK, SendOK, TypedOK
    <3>3. C(p).report = "signing" => \A x \in p.relays : r.answer[x] \notin {"asked", "ok"}
      BY <1>1, <1>2, <3>1, <3>2 DEF PubOK
    <3> QED BY <1>2, <1>4, <3>1, <3>3 DEF PubOK, Reads
  <2>3. \A p, t \in q.pubs : p.relays \intersect t.relays # {} => p = t
    BY DEF SendOK, PubsOK
  <2>4. \A p, t \in r.pubs : p.relays \intersect t.relays # {} => p = t
    BY <1>1, <1>2, <2>3
  <2>5. \A x \in Targets : r.answer[x] # "asked" /\ (r.answer[x] = "ok" => x \in r.tried)
    BY <1>1, <1>4 DEF SendOK, PubsOK
  <2>6. r.state \in Unstarted => r.pubs = {}
    BY <1>1, <1>4 DEF SendOK, PubsOK
  <2> QED BY <1>1, <2>1, <2>2, <2>4, <2>5, <2>6 DEF PubsOK
<1>8. CoverOK(r, race)
  <2>1. ASSUME NEW x, x \in Targets, q.answer[x] = "ok" PROVE r.answer[x] = "ok"
    BY <1>1, <2>1
  <2> QED BY <1>4, <2>1 DEF SendOK, CoverOK, Accounted
<1> QED BY <1>4, <1>5, <1>6, <1>7, <1>8 DEF SendOK, r

LEMMA LaunchOK ==
    ASSUME IsRace(race), NEW q, SendOK(q, race), q.state = "running", NEW l \in Lanes,
           NEW b, BatchOK(b), q.whole => Reads(b, race)
    PROVE  SendOK(Launch(q, l, b), race) /\ Launch(q, l, b).state = "running"
<1> DEFINE extra == IF l = "primary" /\ q.opening THEN race.mirrors \ Candidates ELSE {}
           relays == (b.relays \union extra) \ q.tried
           p0 == [by |-> l, recv |-> b.recv, relays |-> relays, report |-> "open"]
           r == Launch(q, l, b)
<1>0. Dressed(q) /\ LanesFit(q, q.whole) /\ Started(q)
  BY IsDressed DEF Started
<1>1. CASE relays = {}
  <2>1. r = LaneAt(q, l, "ready")
    BY <1>1 DEF Launch
  <2>2. LaneAt(q, l, "ready").state = "running"
    BY <1>0 DEF LaneAt, Dressed, IsRecord, SendFields
  <2> QED BY <1>0, <2>1, <2>2, LaneAtOK
<1>2. CASE relays # {}
  <2> DEFINE a == LaneAt(q, l, "sending")
  <2>1. SendOK(a, race) /\ a = [q EXCEPT !.lane = a.lane]
    BY <1>0, LaneAtOK
  <2> HIDE DEF a
  <2>2. /\ IsRecord(a, SendFields) /\ a.state = "running" /\ a.recv = q.recv /\ a.whole = q.whole /\ a.pending = q.pending /\ a.tried = q.tried
        /\ a.answer = q.answer /\ a.pubs = q.pubs
    BY <1>0, <2>1 DEF Dressed, IsRecord, SendFields
  <2>3. r = [a EXCEPT !.opening = IF l = "primary" THEN FALSE ELSE @, !.tried = @ \union relays,
                   !.answer = [x \in Targets |-> IF x \in relays THEN "asked" ELSE q.answer[x]],
                   !.pubs = @ \union {p0}]
    BY <1>2 DEF Launch, LaneAt, a
  <2>4. relays \subseteq Targets /\ relays \intersect q.tried = {} /\ (q.whole => Reads(p0, race))
    BY DEF BatchOK, Reads, Ways, IsRace
  <2>5. IsRecord(p0, {"by", "recv", "relays", "report"}) /\ p0.by = l /\ p0.recv = b.recv /\ p0.relays = relays /\ p0.report = "open"
    BY DEF IsRecord
  <2> HIDE DEF relays, r, p0
  <2>6. /\ IsRecord(r, SendFields) /\ r.state = "running" /\ r.flag = a.flag /\ r.live = a.live /\ r.recv = q.recv /\ r.whole = q.whole
        /\ r.pending = q.pending /\ r.tried = q.tried \union relays /\ r.excluded = a.excluded /\ r.shut = a.shut /\ r.first = a.first
        /\ r.todo = a.todo /\ r.lane = a.lane /\ r.pubs = q.pubs \union {p0}
        /\ r.answer = [x \in Targets |-> IF x \in relays THEN "asked" ELSE q.answer[x]]
    BY <2>2, <2>3 DEF IsRecord, SendFields
  <2>7. TypedOK(r, race)
    BY <2>1, <2>4, <2>2, <2>6 DEF SendOK, TypedOK
  <2>8. LanesOK(r, race)
    BY <2>1, <2>2, <2>6 DEF SendOK, LanesOK
  <2>9. PubsOK(r, race)
    <3>1. \A x \in Targets : r.answer[x] = IF x \in relays THEN "asked" ELSE q.answer[x]
      BY <2>6
    <3>2. ASSUME NEW p \in q.pubs PROVE PubOK(p, r, race) /\ p.relays \intersect relays = {}
      <4>1. PubOK(p, q, race)
        BY DEF SendOK, PubsOK
      <4>2. p.relays \subseteq q.tried /\ p.relays \subseteq Targets /\ p.relays \intersect relays = {}
        BY <4>1, <2>4 DEF PubOK, SendOK, TypedOK
      <4>3. \A x \in p.relays : r.answer[x] = q.answer[x]
        BY <3>1, <4>2
      <4> QED BY <2>6, <4>1, <4>2, <4>3 DEF PubOK
    <3>3. PubOK(p0, r, race)
      BY <2>4, <2>5, <2>6 DEF PubOK, BatchOK
    <3>4. \A p, t \in q.pubs : p.relays \intersect t.relays # {} => p = t
      BY DEF SendOK, PubsOK
    <3>5. \A p, t \in r.pubs : p.relays \intersect t.relays # {} => p = t
      BY <2>5, <2>6, <3>2, <3>4
    <3>6. \A x \in Targets : (r.answer[x] = "asked" => \E p \in r.pubs : x \in p.relays) /\ (r.answer[x] = "ok" => x \in r.tried)
      BY <2>5, <2>6, <3>1 DEF SendOK, PubsOK
    <3>7. r.answer = [x \in Targets |-> r.answer[x]]
      BY <2>6
    <3> QED BY <2>6, <3>2, <3>3, <3>5, <3>6, <3>7 DEF PubsOK, Unstarted
  <2>10. CoverOK(r, race)
    <3>1. ASSUME NEW x \in Targets, q.answer[x] = "ok" PROVE r.answer[x] = "ok"
      <4>1. x \in q.tried
        BY <3>1 DEF SendOK, PubsOK
      <4> QED BY <2>4, <2>6, <3>1, <4>1
    <3> QED BY <2>6, <3>1 DEF SendOK, CoverOK, Accounted
  <2> QED BY <2>6, <2>7, <2>8, <2>9, <2>10 DEF SendOK, r
<1> QED BY <1>1, <1>2

--------------------------------------------------------------------------------
(* Answers *)

(* What a computation with the answers of a send leaves alone. *)
Answered(q, r) ==
    /\ IsRecord(r, SendFields) /\ r.state = q.state /\ r.flag = q.flag /\ r.live = q.live /\ r.recv = q.recv /\ r.whole = q.whole
    /\ r.pending = q.pending /\ r.tried = q.tried /\ r.excluded = q.excluded /\ r.shut = q.shut /\ r.first = q.first /\ r.todo = q.todo
    /\ r.lane = q.lane

LEMMA AnsweredOK ==
    ASSUME NEW q, SendOK(q, race), NEW r, Answered(q, r), PubsOK(r, race),
           \A x \in Targets : q.answer[x] = "ok" => r.answer[x] = "ok"
    PROVE  SendOK(r, race)
<1>1. TypedOK(r, race)
  BY DEF SendOK, TypedOK, Answered
<1>2. LanesOK(r, race)
  BY DEF SendOK, LanesOK, Answered
<1>3. CoverOK(r, race)
  BY DEF SendOK, CoverOK, Accounted, Answered
<1> QED BY <1>1, <1>2, <1>3 DEF SendOK

LEMMA HeardOK ==
    ASSUME NEW q, SendOK(q, race), NEW x \in Targets, q.answer[x] = "asked", NEW v
    PROVE  /\ SendOK([q EXCEPT !.answer[x] = v], race)
           /\ [q EXCEPT !.answer[x] = v].pubs = q.pubs /\ [q EXCEPT !.answer[x] = v].state = q.state
           /\ [q EXCEPT !.answer[x] = v].answer[x] = v
<1> DEFINE r == [q EXCEPT !.answer[x] = v]
<1>0. IsRecord(q, SendFields) /\ q.answer = [y \in Targets |-> q.answer[y]]
  BY DEF SendOK, TypedOK, PubsOK
<1>1. Answered(q, r) /\ r.pubs = q.pubs /\ r.answer = [q.answer EXCEPT ![x] = v]
  BY <1>0 DEF IsRecord, SendFields, Answered
<1>2. r.answer = [y \in Targets |-> IF y = x THEN v ELSE q.answer[y]]
  BY <1>0, <1>1
<1> HIDE DEF r
<1>3. PICK p0 \in q.pubs : x \in p0.relays
  BY DEF SendOK, PubsOK
<1>4. PubsOK(r, race)
  <2>1. ASSUME NEW p \in q.pubs PROVE PubOK(p, r, race)
    <3>1. PubOK(p, q, race)
      BY DEF SendOK, PubsOK
    <3>2. p.report = "signing" => x \notin p.relays
      BY <3>1 DEF PubOK
    <3>3. p.relays \subseteq Targets
      BY <3>1 DEF PubOK, SendOK, TypedOK
    <3>4. p.report = "signing" => \A y \in p.relays : r.answer[y] = q.answer[y]
      BY <1>2, <3>2, <3>3
    <3> QED BY <1>1, <3>1, <3>4 DEF PubOK, Answered
  <2>2. \A y \in Targets : (r.answer[y] = "asked" => \E p \in r.pubs : y \in p.relays) /\ (r.answer[y] = "ok" => y \in r.tried)
    <3>1. x \in q.tried
      BY <1>3 DEF SendOK, PubsOK, PubOK
    <3> QED BY <1>1, <1>2, <1>3, <3>1 DEF SendOK, PubsOK, Answered
  <2>3. r.answer = [y \in Targets |-> r.answer[y]]
    BY <1>2
  <2> QED BY <1>1, <2>1, <2>2, <2>3 DEF SendOK, PubsOK, Answered
<1>5. \A y \in Targets : q.answer[y] = "ok" => r.answer[y] = "ok"
  BY <1>2
<1>6. SendOK(r, race)
  BY <1>1, <1>4, <1>5, AnsweredOK
<1> QED BY <1>1, <1>2, <1>6 DEF r, Answered

LEMMA ReportOK ==
    ASSUME NEW q, SendOK(q, race), NEW p \in q.pubs, NEW to \in {"open", "signing", "probing", "settled", "lost"},
           to = "signing" => \A x \in p.relays : q.answer[x] \notin {"asked", "ok"}
    PROVE  SendOK(Report(q, p, to), race) /\ Answered(q, Report(q, p, to)) /\ Report(q, p, to).answer = q.answer
<1> DEFINE r == Report(q, p, to)
           p1 == [p EXCEPT !.report = to]
<1>0. IsRecord(q, SendFields) /\ PubOK(p, q, race)
  BY DEF SendOK, TypedOK, PubsOK
<1>1. Answered(q, r) /\ r.answer = q.answer /\ r.pubs = (q.pubs \ {p}) \union {p1}
  BY <1>0 DEF IsRecord, SendFields, Answered, Report
<1>2. IsRecord(p1, {"by", "recv", "relays", "report"}) /\ p1.by = p.by /\ p1.recv = p.recv /\ p1.relays = p.relays /\ p1.report = to
  BY <1>0 DEF PubOK, IsRecord
<1> HIDE DEF r, p1
<1>3. PubsOK(r, race)
  <2>1. \A t \in q.pubs : PubOK(t, r, race)
    BY <1>1 DEF SendOK, PubsOK, PubOK, Answered
  <2>2. PubOK(p1, r, race)
    BY <1>0, <1>1, <1>2 DEF PubOK, Answered, Reads
  <2>3. \A t, u \in q.pubs : t.relays \intersect u.relays # {} => t = u
    BY DEF SendOK, PubsOK
  <2>4. \A t, u \in r.pubs : t.relays \intersect u.relays # {} => t = u
    BY <1>1, <1>2, <2>3
  <2>5. \A y \in Targets : (r.answer[y] = "asked" => \E t \in r.pubs : y \in t.relays) /\ (r.answer[y] = "ok" => y \in r.tried)
    BY <1>1, <1>2 DEF SendOK, PubsOK, Answered
  <2>6. r.answer = [y \in Targets |-> r.answer[y]]
    BY <1>1 DEF SendOK, PubsOK
  <2>7. q.state \notin Unstarted
    BY DEF SendOK, PubsOK
  <2> QED BY <1>1, <2>1, <2>2, <2>4, <2>5, <2>6, <2>7 DEF PubsOK, Answered
<1> QED BY <1>1, <1>3, AnsweredOK DEF r

LEMMA CoverFits ==
    ASSUME NEW q, SendOK(q, race), NEW p \in q.pubs, NEW x \in p.relays, q.answer[x] = "ok"
    PROVE  SendOK(Cover(q, p), race) /\ Cover(q, p).pubs = q.pubs /\ Cover(q, p).answer = q.answer
<1>1. CASE q.state # "running"
  BY <1>1 DEF Cover, Running
<1>2. CASE q.state = "running"
  <2> DEFINE a == LaneAt(q, p.by, "ready")
             r == [a EXCEPT !.pending = @ \ p.recv]
  <2>0. Started(q) /\ PubOK(p, q, race) /\ IsRecord(q, SendFields)
    BY <1>2 DEF Started, SendOK, PubsOK, TypedOK
  <2>1. SendOK(a, race) /\ a = [q EXCEPT !.lane = a.lane]
    BY <2>0, LaneAtOK DEF PubOK
  <2> HIDE DEF a
  <2>2. /\ IsRecord(r, SendFields) /\ r.state = "running" /\ r.flag = a.flag /\ r.live = a.live /\ r.recv = q.recv /\ r.whole = q.whole
        /\ r.pending = q.pending \ p.recv /\ r.tried = q.tried /\ r.excluded = a.excluded /\ r.shut = a.shut /\ r.first = a.first
        /\ r.todo = a.todo /\ r.lane = a.lane /\ r.pubs = q.pubs /\ r.answer = q.answer /\ a.whole = q.whole
        /\ a.recv = q.recv /\ a.pending = q.pending /\ a.state = "running" /\ a.tried = q.tried
    BY <1>2, <2>0, <2>1 DEF IsRecord, SendFields
  <2> HIDE DEF r
  <2>3. TypedOK(r, race)
    BY <2>1, <2>2 DEF SendOK, TypedOK
  <2>4. LanesOK(r, race)
    BY <2>1, <2>2 DEF SendOK, LanesOK
  <2>5. PubsOK(r, race)
    BY <2>2 DEF SendOK, PubsOK, PubOK, Unstarted
  <2>6. CoverOK(r, race)
    <3>1. ASSUME q.whole, NEW c \in p.recv PROVE Accounted(q, race, c)
      <4>1. p.relays \subseteq Ways(race, c) /\ p.relays \subseteq Targets
        BY <2>0, <3>1 DEF PubOK, Reads, SendOK, TypedOK
      <4> QED BY <4>1 DEF Accounted
    <3> QED BY <1>2, <2>2, <3>1 DEF SendOK, CoverOK, Accounted
  <2>7. SendOK(r, race)
    BY <2>3, <2>4, <2>5, <2>6 DEF SendOK
  <2>8. Cover(q, p) = IF r.pending = {} THEN Finish(r, TRUE) ELSE r
    BY <1>2 DEF Cover, Running, a, r
  <2>9. Finish(r, TRUE).pubs = r.pubs /\ Finish(r, TRUE).answer = r.answer
    BY <2>2 DEF Finish, IsRecord, SendFields
  <2> QED BY <2>2, <2>7, <2>8, <2>9, FinishOK
<1> QED BY <1>1, <1>2

LEMMA UnavailableFits ==
    ASSUME IsRace(race), NEW s, SendOK(send[s], race)
    PROVE  Unavailable(s) \subseteq Pool(race) /\ Unavailable(s) \subseteq Targets /\ Pool(race) = Candidates
<1>1. Pool(race) = Candidates
  BY Zenon DEF Pool, Candidates, Fallback
<1>2. ASSUME NEW r \in Pool(race) PROVE r \in Targets
  <2>1. r \in race.fallback \/ \E c \in Receivers : r \in race.primary[c]
    BY DEF Pool
  <2> QED BY <2>1 DEF IsRace
<1>3. send[s].excluded \subseteq Pool(race)
  BY DEF SendOK, TypedOK
<1> QED BY <1>1, <1>2, <1>3 DEF Unavailable

LEMMA AskingOK ==
    ASSUME NEW q, SendOK(q, race), q.state = "running", NEW p \in q.pubs
    PROVE  SendOK(Asking(q, p), race) /\ Asking(q, p).pubs = q.pubs /\ Asking(q, p).answer = q.answer /\ Asking(q, p).state = "running"
<1> DEFINE x == [at |-> "asking", held |-> [recv |-> p.recv, relays |-> p.relays]]
           r == Asking(q, p)
<1>0. Dressed(q) /\ LanesFit(q, q.whole) /\ PubOK(p, q, race) /\ Started(q)
  BY IsDressed DEF SendOK, PubsOK, Started
<1>1. LaneOK(x, q.whole, race)
  BY <1>0 DEF LaneOK, IsRecord, PubOK, BatchOK, Reads, SendOK, TypedOK
<1>2. r = [q EXCEPT !.lane = [@ EXCEPT ![p.by] = x]]
  BY DEF Asking
<1>3. Dressed(r) /\ Alike(q, r) /\ r.lane = [q.lane EXCEPT ![p.by] = x] /\ r.state = q.state
  BY <1>0, <1>2 DEF Dressed, IsRecord, SendFields, Alike
<1> HIDE DEF r, x
<1>4. LanesFit(r, q.whole)
  BY <1>0, <1>1, <1>3 DEF LanesFit
<1>5. Started(r) /\ r.state # "yes"
  BY <1>3 DEF Started
<1> QED BY <1>0, <1>3, <1>4, <1>5, AlikeOK DEF r, Alike

(* Each branch of Rejected. *)
LEMMA RejectedOK ==
    ASSUME IsRace(race), NEW s, SendOK(send[s], race), NEW q, SendOK(q, race), NEW p \in q.pubs
    PROVE  SendOK(Rejected(s, q, p), race) /\ Rejected(s, q, p).pubs = q.pubs /\ Rejected(s, q, p).answer = q.answer
<1> DEFINE failed == Failed(q, p.relays)
           others == [q EXCEPT !.excluded = @ \union failed]
           bare == [q EXCEPT !.blocked = TRUE]
           stuck == [others EXCEPT !.blocked = TRUE]
           shut == [others EXCEPT !.shut = Unavailable(s)]
<1>1. CASE ~Running(q)
  BY <1>1 DEF Rejected
<1>2. CASE Running(q)
  <2>0. q.state = "running" /\ Started(q) /\ Dressed(q) /\ PubOK(p, q, race) /\ p.by \in Lanes
    BY <1>2, IsDressed DEF Running, Started, SendOK, PubsOK, PubOK
  <2>1. failed \subseteq Pool(race) /\ Unavailable(s) \subseteq Targets
    BY UnavailableFits DEF Failed
  <2>2. Rejected(s, q, p) \in {LaneAt(bare, p.by, "ready"), Asking(q, p), Finish(stuck, FALSE), Finish(shut, FALSE), Asking(others, p)}
    BY <1>2 DEF Rejected
  <2> HIDE DEF failed
  <2>3. Touched(q, others)
    BY <2>0, <2>1 DEF Dressed, IsRecord, SendFields, Alike, Touched
  <2>4. Touched(q, bare)
    BY <2>0 DEF Dressed, IsRecord, SendFields, Alike, Touched
  <2>5. SendOK(others, race) /\ SendOK(bare, race) /\ Started(others) /\ Started(bare)
    BY <2>0, <2>3, <2>4, TouchedOK
  <2>6. others.state = "running" /\ bare.state = "running" /\ others.pubs = q.pubs /\ bare.pubs = q.pubs /\ others.answer = q.answer /\ bare.answer = q.answer
    BY <2>0, <2>3, <2>4 DEF Touched, Alike
  <2> HIDE DEF others, bare
  <2>7. Dressed(others)
    BY <2>5, IsDressed
  <2>8. Touched(others, stuck) /\ Touched(others, shut)
    BY <2>1, <2>7 DEF Dressed, IsRecord, SendFields, Alike, Touched
  <2>9. SendOK(stuck, race) /\ SendOK(shut, race) /\ stuck.state = "running" /\ shut.state = "running"
        /\ stuck.pubs = q.pubs /\ shut.pubs = q.pubs /\ stuck.answer = q.answer /\ shut.answer = q.answer
    BY <2>5, <2>6, <2>8, TouchedOK DEF Touched, Alike
  <2> HIDE DEF stuck, shut
  <2>10. SendOK(Asking(q, p), race) /\ Asking(q, p).pubs = q.pubs /\ Asking(q, p).answer = q.answer
    BY <2>0, AskingOK
  <2>11. SendOK(Asking(others, p), race) /\ Asking(others, p).pubs = q.pubs /\ Asking(others, p).answer = q.answer
    BY <2>5, <2>6, AskingOK
  <2>12. ASSUME NEW r, SendOK(r, race), r.state = "running", r.pubs = q.pubs, r.answer = q.answer
         PROVE  SendOK(Finish(r, FALSE), race) /\ Finish(r, FALSE).pubs = q.pubs /\ Finish(r, FALSE).answer = q.answer
    <3>1. IsRecord(r, SendFields)
      BY <2>12 DEF SendOK, TypedOK
    <3>2. Finish(r, FALSE).pubs = r.pubs /\ Finish(r, FALSE).answer = r.answer
      BY <3>1 DEF Finish, IsRecord, SendFields
    <3> QED BY <2>12, <3>2, FinishOK
  <2>13. LaneAt(bare, p.by, "ready").pubs = q.pubs /\ LaneAt(bare, p.by, "ready").answer = q.answer /\ SendOK(LaneAt(bare, p.by, "ready"), race)
    <3>1. IsRecord(bare, SendFields)
      BY <2>5 DEF SendOK, TypedOK
    <3> QED BY <2>0, <2>5, <2>6, <3>1, LaneAtOK DEF LaneAt, IsRecord, SendFields
  <2> QED BY <2>2, <2>9, <2>10, <2>11, <2>12, <2>13
<1> QED BY <1>1, <1>2

LEMMA SettleOK ==
    ASSUME RaceAssumptions, IInv, NEW s \in Sends, NEW q, SendOK(q, race), NEW p \in q.pubs, Settle(s, q, p)
    PROVE  (\E r : SendOK(r, race) /\ Store(s, r)) /\ IsHealth(health')
<1> DEFINE told == IF Accepted(q, p) THEN q ELSE Rejected(s, q, p)
<1>1. SendOK(told, race) /\ told.pubs = q.pubs /\ told.answer = q.answer
  BY RejectedOK DEF IInv
<1> HIDE DEF told
<1>2. \A to \in {"probing", "settled"} : SendOK(Report(told, p, to), race)
  BY <1>1, ReportOK
<1>3. \E to \in {"probing", "settled"} : Store(s, Report(told, p, to))
  BY DEF Settle, told
<1>4. IsHealth(health')
  BY BlamedIsHealth, CreditedIsHealth DEF Settle, IInv
<1> QED BY <1>2, <1>3, <1>4

LEMMA StoreOK ==
    ASSUME IInv, NEW s \in Sends, NEW q, SendOK(q, race), Store(s, q)
    PROVE  send' = [t \in Sends |-> send'[t]] /\ \A t \in Sends : SendOK(send'[t], race)
<1>1. send' = [t \in Sends |-> IF t = s THEN q ELSE IF send[t].of = q.of /\ q.of # NoBatch THEN [send[t] EXCEPT !.excluded = q.excluded] ELSE send[t]]
  BY DEF Store
<1>2. ASSUME NEW t \in Sends PROVE SendOK([send[t] EXCEPT !.excluded = q.excluded], race)
  <2> DEFINE r == [send[t] EXCEPT !.excluded = q.excluded]
  <2>1. SendOK(send[t], race) /\ q.excluded \subseteq Pool(race)
    BY DEF IInv, SendOK, TypedOK
  <2>2. /\ IsRecord(r, SendFields) /\ r.excluded = q.excluded
        /\ \A f \in SendFields \ {"excluded"} : r[f] = send[t][f]
    BY <2>1 DEF SendOK, TypedOK, IsRecord, SendFields
  <2> HIDE DEF r
  <2>3. /\ r.state = send[t].state /\ r.flag = send[t].flag /\ r.live = send[t].live /\ r.recv = send[t].recv /\ r.whole = send[t].whole
        /\ r.pending = send[t].pending /\ r.tried = send[t].tried /\ r.shut = send[t].shut /\ r.first = send[t].first /\ r.todo = send[t].todo
        /\ r.lane = send[t].lane /\ r.pubs = send[t].pubs /\ r.answer = send[t].answer
    BY <2>2 DEF SendFields
  <2>4. TypedOK(r, race)
    BY <2>1, <2>2, <2>3 DEF SendOK, TypedOK
  <2>5. LanesOK(r, race)
    BY <2>1, <2>3 DEF SendOK, LanesOK
  <2>6. PubsOK(r, race)
    BY <2>1, <2>3 DEF SendOK, PubsOK, PubOK
  <2>7. CoverOK(r, race)
    BY <2>1, <2>3 DEF SendOK, CoverOK, Accounted
  <2> QED BY <2>4, <2>5, <2>6, <2>7 DEF SendOK, r
<1> QED BY <1>1, <1>2 DEF IInv

(* The bounds of a behaviour run down; its routes stay. *)
LEMMA RoutesStay ==
    ASSUME IsRace(race), race' = race \/ (\E n : race' = [race EXCEPT !.interrupts = n]) \/ (\E n : race' = [race EXCEPT !.cools = n])
    PROVE  /\ IsRace(race') /\ race'.primary = race.primary /\ race'.fallback = race.fallback /\ race'.mirrors = race.mirrors
           /\ race'.early = race.early /\ race'.explicit = race.explicit
           /\ \A q : SendOK(q, race) => SendOK(q, race')
<1>1. /\ IsRecord(race', RaceFields) /\ race'.primary = race.primary /\ race'.fallback = race.fallback /\ race'.mirrors = race.mirrors
      /\ race'.early = race.early /\ race'.explicit = race.explicit
  BY DEF IsRace, IsRecord, RaceFields
<1>2. IsRace(race')
  BY <1>1 DEF IsRace
<1>3. Pool(race') = Pool(race) /\ \A c : Ways(race', c) = Ways(race, c)
  BY <1>1 DEF Pool, Ways
<1>4. ASSUME NEW q, SendOK(q, race) PROVE SendOK(q, race')
  BY <1>3, <1>4 DEF SendOK, TypedOK, LanesOK, LaneOK, PubsOK, PubOK, Reads, CoverOK, Accounted
<1> QED BY <1>1, <1>2, <1>4

--------------------------------------------------------------------------------
(* Each action keeps the invariant. *)

LEMMA StepOK ==
    ASSUME RaceAssumptions, IInv, NEW s \in Sends, NEW q, SendOK(q, race), Store(s, q), race' = race, IsHealth(health')
    PROVE  IInv'
<1>1. send' = [t \in Sends |-> send'[t]] /\ \A t \in Sends : SendOK(send'[t], race)
  BY StoreOK
<1> QED BY <1>1 DEF IInv

LEMMA BegunOK ==
    ASSUME NEW q, SendOK(q, race), q.state = "idle", NEW b, BatchOK(b), NEW todo, \A x \in todo : BatchOK(x), NEW of, NEW resigned
    PROVE  SendOK(Begun([q EXCEPT !.of = of, !.resigned = resigned, !.todo = todo], b), race)
<1> DEFINE a == [q EXCEPT !.of = of, !.resigned = resigned, !.todo = todo]
           r == Begun(a, b)
           x == [at |-> "ready", held |-> b]
           whole == \A p \in b.recv : b.relays \subseteq RoutesOf(p)
<1>0. /\ IsRecord(q, SendFields) /\ q.pubs = {} /\ q.pending = {}
      /\ q.lane = [l \in Lanes |-> q.lane[l]] /\ \A l \in Lanes : q.lane[l].held = NoBatch /\ IsRecord(q.lane[l], {"at", "held"})
  BY DEF SendOK, TypedOK, PubsOK, LanesOK, LaneOK, Unstarted
<1>1. r = [q EXCEPT !.of = of, !.resigned = resigned, !.todo = todo, !.state = "resolved", !.recv = b.recv, !.first = b,
                    !.whole = whole, !.lane = [@ EXCEPT !["primary"] = x]]
  BY <1>0 DEF Begun, IsRecord, SendFields
<1> HIDE DEF r, a
<1>2. /\ IsRecord(r, SendFields) /\ r.todo = todo /\ r.state = "resolved" /\ r.recv = b.recv /\ r.first = b /\ r.whole = whole
      /\ r.lane = [q.lane EXCEPT !["primary"] = x] /\ r.flag = q.flag /\ r.live = q.live /\ r.pending = q.pending /\ r.tried = q.tried
      /\ r.shut = q.shut /\ r.excluded = q.excluded /\ r.pubs = q.pubs /\ r.answer = q.answer
  BY <1>0, <1>1 DEF IsRecord, SendFields
<1>3. r.whole => Reads(b, race)
  BY <1>2 DEF Reads, Ways, RoutesOf, Fallback
<1> HIDE DEF whole
<1>4. TypedOK(r, race)
  BY <1>0, <1>2 DEF TypedOK, SendOK, BatchOK
<1>5. LanesOK(r, race)
  <2>1. r.lane = [l \in Lanes |-> r.lane[l]] /\ r.lane["primary"] = x /\ r.lane["fallback"] = q.lane["fallback"]
    BY <1>0, <1>2 DEF Lanes
  <2>2. IsRecord(x, {"at", "held"}) /\ x.held = b
    BY DEF IsRecord
  <2> HIDE DEF x
  <2>3. LaneOK(x, r.whole, race)
    BY <1>3, <2>2 DEF LaneOK
  <2>4. LaneOK(q.lane["fallback"], r.whole, race)
    BY <1>0 DEF LaneOK, Lanes
  <2> QED BY <1>2, <1>3, <2>1, <2>2, <2>3, <2>4 DEF LanesOK, Lanes
<1>6. PubsOK(r, race)
  BY <1>0, <1>2 DEF SendOK, PubsOK
<1>7. CoverOK(r, race)
  BY <1>2 DEF CoverOK
<1> QED BY <1>4, <1>5, <1>6, <1>7 DEF SendOK, r, a

LEMMA ResolveKeeps ==
    ASSUME RaceAssumptions, IInv, NEW s \in Sends, Resolve(s)
    PROVE  IInv'
<1>0. SendOK(send[s], race) /\ IsRace(race) /\ race' = race /\ IsHealth(health') /\ send[s].state = "idle"
  BY DEF IInv, Resolve
<1>1. CASE Blocked(s) # {}
  <2> DEFINE r == [send[s] EXCEPT !.state = "refused"]
  <2>1. Store(s, r)
    BY <1>1 DEF Resolve
  <2>2. /\ IsRecord(r, SendFields) /\ r.state = "refused"
        /\ \A f \in SendFields \ {"state"} : r[f] = send[s][f]
    BY <1>0 DEF SendOK, TypedOK, IsRecord, SendFields
  <2> HIDE DEF r
  <2>3. /\ r.flag = send[s].flag /\ r.live = send[s].live /\ r.recv = send[s].recv /\ r.whole = send[s].whole /\ r.excluded = send[s].excluded
        /\ r.pending = send[s].pending /\ r.tried = send[s].tried /\ r.shut = send[s].shut /\ r.lane = send[s].lane
        /\ r.pubs = send[s].pubs /\ r.answer = send[s].answer
    BY <2>2 DEF SendFields
  <2>4. TypedOK(r, race)
    BY <1>0, <2>2, <2>3 DEF SendOK, TypedOK, Unstarted
  <2>5. LanesOK(r, race) /\ CoverOK(r, race)
    BY <1>0, <2>2, <2>3 DEF SendOK, LanesOK, CoverOK
  <2>6. PubsOK(r, race)
    BY <1>0, <2>2, <2>3 DEF SendOK, PubsOK, PubOK, Unstarted
  <2> QED BY <1>0, <2>1, <2>4, <2>5, <2>6, StepOK DEF SendOK
<1>2. CASE Blocked(s) = {}
  <2>1. PICK f \in Picks(Receivers, race.primary, Unavailable(s), Limit) :
            LET missing == {p \in Receivers : f[p] = {}}
            IN \E g \in Picks(missing, FallbackLists, Unavailable(s), PerReceiver), prepared \in race.prepared :
               LET route == [p \in Receivers |-> IF p \in missing THEN g[p] ELSE f[p]]
                   all == FirstBatches(route, prepared)
               IN \E b \in all : Store(s, Begun([send[s] EXCEPT !.of = s, !.todo = all \ {b}], b))
    BY <1>2 DEF Resolve
  <2> DEFINE missing == {p \in Receivers : f[p] = {}}
  <2>2. PICK g \in Picks(missing, FallbackLists, Unavailable(s), PerReceiver), prepared \in race.prepared :
               LET route == [p \in Receivers |-> IF p \in missing THEN g[p] ELSE f[p]]
                   all == FirstBatches(route, prepared)
               IN \E b \in all : Store(s, Begun([send[s] EXCEPT !.of = s, !.todo = all \ {b}], b))
    BY <2>1
  <2> DEFINE route == [p \in Receivers |-> IF p \in missing THEN g[p] ELSE f[p]]
             all == FirstBatches(route, prepared)
  <2>3. PICK b \in all : Store(s, Begun([send[s] EXCEPT !.of = s, !.todo = all \ {b}], b))
    BY <2>2
  <2>4. \A c \in Receivers : route[c] \subseteq Targets
    <3>1. \A c \in Receivers : f[c] \subseteq race.primary[c]
      BY PicksRoute
    <3>2. \A c \in missing : g[c] \subseteq FallbackLists[c]
      BY PicksRoute
    <3>3. \A c \in missing : g[c] \subseteq race.fallback
      BY <3>2 DEF FallbackLists, Fallback
    <3> QED BY <1>0, <3>1, <3>3 DEF IsRace
  <2>5. DOMAIN route = Receivers
    OBVIOUS
  <2> HIDE DEF route
  <2>6. ASSUME NEW x \in all PROVE BatchOK(x)
    <3>1. CASE prepared
      <4>1. x = [recv |-> Receivers, relays |-> UNION {route[p] : p \in Receivers}]
        BY <3>1 DEF FirstBatches
      <4>2. \A r \in x.relays : \E c \in Receivers : r \in route[c]
        BY <4>1
      <4> QED BY <2>4, <4>1, <4>2 DEF BatchOK
    <3>2. CASE ~prepared
      <4>1. x \in Batches(route)
        BY <3>2 DEF FirstBatches
      <4> QED BY <2>4, <2>5, <4>1, BatchesRoute DEF BatchOK
    <3> QED BY <3>1, <3>2
  <2> HIDE DEF all
  <2>7. [send[s] EXCEPT !.of = s, !.todo = all \ {b}] = [send[s] EXCEPT !.of = s, !.resigned = send[s].resigned, !.todo = all \ {b}]
    BY <1>0 DEF SendOK, TypedOK, IsRecord, SendFields
  <2>8. SendOK(Begun([send[s] EXCEPT !.of = s, !.resigned = send[s].resigned, !.todo = all \ {b}], b), race)
    BY <1>0, <2>6, BegunOK
  <2> QED BY <1>0, <2>3, <2>7, <2>8, StepOK
<1> QED BY <1>1, <1>2

LEMMA ContinueKeeps ==
    ASSUME RaceAssumptions, IInv, NEW s \in Sends, NEW t \in Sends, Continue(s, t)
    PROVE  IInv'
<1> DEFINE q == send[s]
           next == [Unsent EXCEPT !.of = q.of, !.live = q.live, !.excluded = q.excluded]
<1>0. SendOK(q, race) /\ IsRace(race) /\ race' = race /\ health' = health /\ q.state \in {"yes", "no"} /\ q.last /\ send[t].state = "idle"
  BY DEF IInv, Continue
<1>1. PICK b \in q.todo \union {q.first} :
          send' = [send EXCEPT ![s].last = FALSE, ![t] = Begun([next EXCEPT !.resigned = b = q.first, !.todo = q.todo \ {b}], b)]
  BY DEF Continue
<1>2. BatchOK(b) /\ \A x \in q.todo \ {b} : BatchOK(x)
  BY <1>0 DEF SendOK, TypedOK
<1>3. /\ IsRecord(next, SendFields) /\ next.state = "idle" /\ next.flag = "none" /\ next.live = q.live /\ next.recv = {} /\ next.pending = {}
      /\ next.tried = {} /\ next.shut = {} /\ next.excluded = q.excluded /\ next.pubs = {} /\ next.answer = NoAsk /\ next.of = q.of
      /\ next.lane = [l \in Lanes |-> NoLane]
  BY DEF Unsent, IsRecord, SendFields
<1> HIDE DEF next
<1>4. SendOK(next, race)
  <2>1. TypedOK(next, race)
    BY <1>0, <1>3 DEF TypedOK, SendOK
  <2>2. LanesOK(next, race)
    BY <1>3 DEF LanesOK, LaneOK, NoLane, IsRecord
  <2>3. PubsOK(next, race) /\ CoverOK(next, race)
    BY <1>3 DEF PubsOK, CoverOK, NoAsk
  <2> QED BY <2>1, <2>2, <2>3 DEF SendOK
<1> DEFINE sameOne == b = q.first
           todo == q.todo \ {b}
<1> HIDE DEF sameOne, todo
<1>5. [next EXCEPT !.resigned = sameOne, !.todo = todo] = [next EXCEPT !.of = next.of, !.resigned = sameOne, !.todo = todo]
  BY <1>3 DEF IsRecord, SendFields
<1>61. \A x \in todo : BatchOK(x)
  BY <1>2 DEF todo
<1>62. SendOK(Begun([next EXCEPT !.of = next.of, !.resigned = sameOne, !.todo = todo], b), race)
  BY <1>2, <1>3, <1>4, <1>61, BegunOK
<1>6. SendOK(Begun([next EXCEPT !.resigned = b = q.first, !.todo = q.todo \ {b}], b), race)
  BY <1>5, <1>62 DEF sameOne, todo
<1>7. s # t /\ SendOK([q EXCEPT !.last = FALSE], race)
  <2>0. Dressed(q)
    BY <1>0, IsDressed
  <2>1. Touched(q, [q EXCEPT !.last = FALSE])
    BY <2>0 DEF Dressed, IsRecord, SendFields, Alike, Touched
  <2> QED BY <1>0, <2>1, TouchedOK DEF Started
<1>8. send' = [x \in Sends |-> IF x = t THEN Begun([next EXCEPT !.resigned = b = q.first, !.todo = q.todo \ {b}], b)
                              ELSE IF x = s THEN [q EXCEPT !.last = FALSE] ELSE send[x]]
  BY <1>1, <1>7 DEF IInv
<1>9. send' = [x \in Sends |-> send'[x]] /\ \A x \in Sends : SendOK(send'[x], race)
  BY <1>6, <1>7, <1>8 DEF IInv
<1> QED BY <1>0, <1>9 DEF IInv

LEMMA PublishKeeps ==
    ASSUME RaceAssumptions, IInv, NEW s \in Sends, Publish(s)
    PROVE  IInv'
<1> DEFINE q == send[s]
           first == q.lane["primary"].held.relays \ Unavailable(s)
           held == IF first = {} THEN NoBatch ELSE [recv |-> q.recv, relays |-> first]
           r == [q EXCEPT !.state = "running", !.pending = q.recv, !.timer = race.early, !.lane["primary"].held = held]
<1>0. SendOK(q, race) /\ IsRace(race) /\ race' = race /\ IsHealth(health') /\ q.state = "resolved"
  BY DEF IInv, Publish
<1>1. Store(s, IF race.early /\ ~Current(q) THEN Finish(r, FALSE) ELSE r)
  BY DEF Publish
<1>2. /\ q.lane = [l \in Lanes |-> q.lane[l]] /\ IsRecord(q, SendFields)
      /\ q.lane["primary"].held = q.first /\ q.recv = q.first.recv /\ (q.whole => Reads(q.first, race)) /\ BatchOK(q.first)
      /\ \A l \in Lanes : LaneOK(q.lane[l], q.whole, race)
  BY <1>0 DEF SendOK, TypedOK, LanesOK
<1>3. /\ IsRecord(r, SendFields) /\ r.state = "running" /\ r.pending = q.recv /\ r.flag = q.flag /\ r.live = q.live /\ r.recv = q.recv
      /\ r.whole = q.whole /\ r.tried = q.tried /\ r.shut = q.shut /\ r.excluded = q.excluded /\ r.pubs = q.pubs /\ r.answer = q.answer
      /\ r.first = q.first /\ r.todo = q.todo
      /\ r.lane = [q.lane EXCEPT !["primary"] = [@ EXCEPT !.held = held]]
  BY <1>2 DEF IsRecord, SendFields
<1>4. held # NoBatch => BatchOK(held) /\ (q.whole => Reads(held, race))
  BY <1>2 DEF BatchOK, Reads
<1> HIDE DEF held, r
<1>5. TypedOK(r, race)
  BY <1>0, <1>3 DEF SendOK, TypedOK, Unstarted
<1>6. LanesOK(r, race)
  <2>1. IsRecord([q.lane["primary"] EXCEPT !.held = held], {"at", "held"}) /\ [q.lane["primary"] EXCEPT !.held = held].held = held
    BY <1>2 DEF LaneOK, IsRecord, Lanes
  <2>2. LaneOK([q.lane["primary"] EXCEPT !.held = held], q.whole, race)
    BY <1>4, <2>1 DEF LaneOK
  <2>3. r.lane = [l \in Lanes |-> r.lane[l]] /\ r.lane["primary"] = [q.lane["primary"] EXCEPT !.held = held] /\ r.lane["fallback"] = q.lane["fallback"]
    BY <1>2, <1>3 DEF Lanes
  <2> QED BY <1>2, <1>3, <2>2, <2>3 DEF LanesOK, Lanes
<1>7. PubsOK(r, race)
  BY <1>0, <1>3 DEF SendOK, PubsOK, PubOK, Unstarted
<1>8. CoverOK(r, race)
  BY <1>3 DEF CoverOK
<1>9. SendOK(r, race)
  BY <1>5, <1>6, <1>7, <1>8 DEF SendOK
<1>10. SendOK(Finish(r, FALSE), race)
  BY <1>3, <1>9, FinishOK
<1> QED BY <1>0, <1>1, <1>9, <1>10, StepOK

LEMMA LaneNextKeeps ==
    ASSUME RaceAssumptions, IInv, NEW s \in Sends, NEW l \in Lanes, LaneNext(s, l)
    PROVE  IInv'
<1> DEFINE q == send[s]
           cut == [q EXCEPT !.shut = Unavailable(s)]
           dead == [q EXCEPT !.state = "thrown"]
<1>0. SendOK(q, race) /\ IsRace(race) /\ race' = race /\ IsHealth(health') /\ q.state = "running" /\ Started(q)
  BY DEF IInv, LaneNext, Running, Started
<1>1. Unavailable(s) \subseteq Targets
  BY <1>0, UnavailableFits
<1>2. SendOK(EndsLane(q, l, Unavailable(s)), race)
  BY <1>0, <1>1, EndsLaneOK
<1>3. ASSUME NEW b \in NextBatches(s, l) PROVE SendOK(Launch(q, l, b), race) /\ SendOK(Finish(Cancelled(Launch(q, l, b)), FALSE), race)
  <2>1. SendOK(Launch(q, l, b), race) /\ Launch(q, l, b).state = "running"
    BY <1>0, NextBatchesOK, LaunchOK
  <2>2. SendOK(Cancelled(Launch(q, l, b)), race) /\ Cancelled(Launch(q, l, b)).state = "running"
    BY <2>1, CancelledOK
  <2> QED BY <2>1, <2>2, FinishOK
<1>4. SendOK(Finish(cut, FALSE), race)
  <2>1. Touched(q, cut)
    BY <1>0, <1>1, IsDressed DEF Dressed, IsRecord, SendFields, Alike, Touched
  <2> HIDE DEF cut
  <2>2. SendOK(cut, race) /\ cut.state = "running"
    BY <1>0, <2>1, TouchedOK DEF Touched
  <2> QED BY <2>2, FinishOK
<1>5. SendOK(dead, race)
  <2>1. Dressed(q) /\ LanesFit(q, q.whole)
    BY <1>0, IsDressed
  <2>2. Dressed(dead) /\ Alike(q, dead) /\ dead.lane = q.lane /\ dead.state = "thrown"
    BY <2>1 DEF Dressed, IsRecord, SendFields, Alike
  <2> HIDE DEF dead
  <2>3. LanesFit(dead, q.whole) /\ Started(dead)
    BY <2>1, <2>2 DEF LanesFit, Started
  <2> QED BY <1>0, <2>2, <2>3, AlikeOK
<1>6. \/ Store(s, EndsLane(q, l, Unavailable(s))) \/ Store(s, Finish(cut, FALSE)) \/ Store(s, dead)
      \/ \E b \in NextBatches(s, l) : Store(s, Launch(q, l, b)) \/ Store(s, Finish(Cancelled(Launch(q, l, b)), FALSE))
  <2> HIDE DEF cut, dead
  <2> QED BY DEF LaneNext, cut, dead
<1> HIDE DEF cut, dead
<1> QED BY <1>0, <1>2, <1>3, <1>4, <1>5, <1>6, StepOK

LEMMA TimerKeeps ==
    ASSUME RaceAssumptions, IInv, NEW s \in Sends, Timer(s)
    PROVE  IInv'
<1> DEFINE q == send[s]
           a == [q EXCEPT !.timer = FALSE]
<1>0. SendOK(q, race) /\ race' = race /\ IsHealth(health') /\ Started(q)
  BY DEF IInv, Timer, Running, Started
<1>3. Dressed(q)
  BY <1>0, IsDressed
<1>1. Touched(q, a)
  BY <1>3 DEF Dressed, IsRecord, SendFields, Alike, Touched
<1>2. Store(s, LaneAt(a, "fallback", "starting"))
  BY DEF Timer
<1> HIDE DEF a
<1>4. SendOK(LaneAt(a, "fallback", "starting"), race)
  BY <1>0, <1>1, TouchedOK, LaneAtOK DEF Lanes
<1> QED BY <1>0, <1>2, <1>4, StepOK

LEMMA FallbackStartsKeeps ==
    ASSUME RaceAssumptions, IInv, NEW s \in Sends, FallbackStarts(s)
    PROVE  IInv'
<1> DEFINE q == send[s]
<1>0. SendOK(q, race) /\ IsRace(race) /\ race' = race /\ IsHealth(health') /\ q.state = "running" /\ Started(q)
  BY DEF IInv, FallbackStarts, Running, Started
<1>1. SendOK(EndsLane(q, "fallback", Unavailable(s)), race)
  BY <1>0, UnavailableFits, EndsLaneOK DEF Lanes
<1>2. ASSUME NEW b \in FallbackBatches(s)
      PROVE  SendOK([q EXCEPT !.lane["fallback"] = [at |-> "opening", held |-> b]], race)
  <2> DEFINE x == [at |-> "opening", held |-> b]
             r == [q EXCEPT !.lane["fallback"] = x]
  <2>1. BatchOK(b) /\ Reads(b, race)
    BY <1>0, FallbackBatchesOK DEF SendOK, TypedOK
  <2>2. LaneOK(x, q.whole, race)
    BY <2>1 DEF LaneOK, IsRecord
  <2>3. Dressed(q) /\ LanesFit(q, q.whole)
    BY <1>0, IsDressed
  <2>4. Dressed(r) /\ Alike(q, r) /\ r.lane = [q.lane EXCEPT !["fallback"] = x] /\ r.state = "running"
    BY <1>0, <2>3 DEF Dressed, IsRecord, SendFields, Alike
  <2> HIDE DEF x, r
  <2>5. LanesFit(r, q.whole) /\ Started(r)
    BY <2>2, <2>3, <2>4 DEF LanesFit, Started
  <2>6. SendOK(r, race)
    BY <1>0, <2>4, <2>5, AlikeOK
  <2> QED BY <2>6 DEF r, x
<1>3. \/ Store(s, EndsLane(q, "fallback", Unavailable(s)))
      \/ \E b \in FallbackBatches(s) : Store(s, [q EXCEPT !.lane["fallback"] = [at |-> "opening", held |-> b]])
  BY DEF FallbackStarts
<1> QED BY <1>0, <1>1, <1>2, <1>3, StepOK

LEMMA AskedAgainOK ==
    ASSUME NEW q, SendOK(q, race), NEW p \in q.pubs, \A x \in p.relays : q.answer[x] # "ok",
           NEW w \in {"asked", "native"}, p.report = "signing" => w = "native"
    PROVE  /\ SendOK([q EXCEPT !.answer = [x \in Targets |-> IF x \in p.relays THEN w ELSE @[x]]], race)
           /\ [q EXCEPT !.answer = [x \in Targets |-> IF x \in p.relays THEN w ELSE @[x]]].pubs = q.pubs
           /\ [q EXCEPT !.answer = [x \in Targets |-> IF x \in p.relays THEN w ELSE @[x]]].state = q.state
<1> DEFINE r == [q EXCEPT !.answer = [x \in Targets |-> IF x \in p.relays THEN w ELSE @[x]]]
<1>0. IsRecord(q, SendFields) /\ q.answer = [y \in Targets |-> q.answer[y]] /\ PubOK(p, q, race)
  BY DEF SendOK, TypedOK, PubsOK
<1>1. Answered(q, r) /\ r.pubs = q.pubs /\ r.answer = [x \in Targets |-> IF x \in p.relays THEN w ELSE q.answer[x]]
  BY <1>0 DEF IsRecord, SendFields, Answered
<1> HIDE DEF r
<1>2. PubsOK(r, race)
  <2>1. ASSUME NEW t \in q.pubs PROVE PubOK(t, r, race)
    <3>1. PubOK(t, q, race) /\ (t = p \/ t.relays \intersect p.relays = {})
      BY DEF SendOK, PubsOK
    <3>2. t.relays \subseteq Targets
      BY <3>1 DEF PubOK, SendOK, TypedOK
    <3>3. t.report = "signing" => \A x \in t.relays : r.answer[x] \notin {"asked", "ok"}
      <4>1. CASE t = p
        BY <1>1, <3>2, <4>1
      <4>2. CASE t # p
        <5>1. \A x \in t.relays : r.answer[x] = q.answer[x]
          BY <1>1, <3>1, <3>2, <4>2
        <5> QED BY <3>1, <5>1 DEF PubOK
      <4> QED BY <4>1, <4>2
    <3> QED BY <1>1, <3>1, <3>3 DEF PubOK, Answered
  <2>2. \A y \in Targets : (r.answer[y] = "asked" => \E t \in r.pubs : y \in t.relays) /\ (r.answer[y] = "ok" => y \in r.tried)
    BY <1>1 DEF SendOK, PubsOK, Answered
  <2>3. r.answer = [y \in Targets |-> r.answer[y]]
    BY <1>1
  <2> QED BY <1>1, <2>1, <2>2, <2>3 DEF SendOK, PubsOK, Answered
<1>3. \A y \in Targets : q.answer[y] = "ok" => r.answer[y] = "ok"
  BY <1>1
<1> QED BY <1>1, <1>2, <1>3, AnsweredOK DEF r, Answered

LEMMA AnswerKeeps ==
    ASSUME RaceAssumptions, IInv, NEW s \in Sends, NEW x \in Targets, NEW v, Answer(s, x, v)
    PROVE  IInv'
<1> DEFINE p == PubOf(send[s], x)
           heard == [send[s] EXCEPT !.answer[x] = v]
           q == IF v = "ok" /\ ~Accepted(send[s], p) THEN Cover(heard, p) ELSE heard
<1>0. SendOK(send[s], race) /\ race' = race /\ send[s].answer[x] = "asked" /\ IsHealth(health)
  BY DEF IInv, Answer
<1>1. p \in send[s].pubs /\ x \in p.relays
  BY <1>0 DEF PubOf, SendOK, PubsOK
<1>2. SendOK(heard, race) /\ heard.pubs = send[s].pubs /\ heard.answer[x] = v
  BY <1>0, HeardOK
<1>3. \/ Store(s, q) /\ health' = health
      \/ Settle(s, q, p)
      \/ /\ \A t \in p.relays : q.answer[t] \in {"refused", "native"}
         /\ Store(s, Report([q EXCEPT !.resigned = TRUE], p, "signing")) /\ health' = health
  BY DEF Answer
<1> HIDE DEF p, heard
<1>4. SendOK(q, race) /\ q.pubs = send[s].pubs
  BY <1>1, <1>2, CoverFits
<1> HIDE DEF q
<1>5. CASE Store(s, q) /\ health' = health
  BY <1>0, <1>4, <1>5, StepOK
<1>6. CASE Settle(s, q, p)
  BY <1>0, <1>1, <1>4, <1>6, SettleOK, StepOK
<1>7. CASE /\ \A t \in p.relays : q.answer[t] \in {"refused", "native"}
           /\ Store(s, Report([q EXCEPT !.resigned = TRUE], p, "signing")) /\ health' = health
  <2> DEFINE a == [q EXCEPT !.resigned = TRUE]
  <2>1. Dressed(q) /\ Started(q)
    BY <1>1, <1>4, IsDressed DEF Started, SendOK, TypedOK, PubsOK, Unstarted
  <2>2. Touched(q, a)
    BY <2>1 DEF Dressed, IsRecord, SendFields, Alike, Touched
  <2>3. Store(s, Report(a, p, "signing"))
    BY <1>7
  <2> HIDE DEF a
  <2>4. SendOK(a, race) /\ a.pubs = q.pubs /\ a.answer = q.answer
    BY <1>4, <2>1, <2>2, TouchedOK DEF Touched, Alike
  <2>5. SendOK(Report(a, p, "signing"), race)
    BY <1>1, <1>4, <1>7, <2>4, ReportOK
  <2> QED BY <1>0, <1>7, <2>3, <2>5, StepOK
<1> QED BY <1>3, <1>5, <1>6, <1>7

LEMMA ResignedKeeps ==
    ASSUME RaceAssumptions, IInv, NEW s \in Sends, NEW p \in send[s].pubs, Resigned(s, p)
    PROVE  IInv'
<1> DEFINE q == send[s]
           a == [q EXCEPT !.answer = [x \in Targets |-> IF x \in p.relays THEN "native" ELSE @[x]]]
           again == [q EXCEPT !.answer = [x \in Targets |-> IF x \in p.relays THEN "asked" ELSE @[x]]]
           o == Report(q, p, "open")
           b == [o EXCEPT !.answer = [x \in Targets |-> IF x \in p.relays THEN "asked" ELSE @[x]]]
<1>0. SendOK(q, race) /\ race' = race /\ p.report = "signing" /\ IsHealth(health)
  BY DEF IInv, Resigned
<1>1. PubOK(p, q, race) /\ \A x \in p.relays : q.answer[x] # "ok"
  BY <1>0 DEF SendOK, PubsOK, PubOK
<1>2. SendOK(a, race) /\ a.pubs = q.pubs
  BY <1>0, <1>1, AskedAgainOK
<1>3. SendOK(o, race) /\ Answered(q, o) /\ o.answer = q.answer
  BY <1>0, ReportOK
<1>4. [p EXCEPT !.report = "open"] \in o.pubs /\ [p EXCEPT !.report = "open"].relays = p.relays /\ [p EXCEPT !.report = "open"].report = "open"
  BY <1>0, <1>1 DEF Report, SendOK, TypedOK, IsRecord, SendFields, PubOK
<1>5. Report(again, p, "open") = b
  <2>1. IsRecord(q, SendFields)
    BY <1>0 DEF SendOK, TypedOK
  <2> QED BY <2>1 DEF Report, IsRecord, SendFields
<1>6. SendOK(b, race)
  <2> DEFINE p1 == [p EXCEPT !.report = "open"]
  <2>1. p1 \in o.pubs /\ p1.relays = p.relays /\ p1.report = "open"
    BY <1>4
  <2>2. \A x \in p1.relays : o.answer[x] # "ok"
    BY <1>1, <1>3, <2>1
  <2> HIDE DEF p1, o
  <2>3. SendOK([o EXCEPT !.answer = [x \in Targets |-> IF x \in p1.relays THEN "asked" ELSE @[x]]], race)
    BY <1>3, <2>1, <2>2, AskedAgainOK
  <2> QED BY <2>1, <2>3
<1>7. Settle(s, a, p) \/ (Store(s, Report(again, p, "open")) /\ health' = health)
  BY DEF Resigned
<1> HIDE DEF a, again, b, o
<1>8. CASE Settle(s, a, p)
  BY <1>0, <1>2, <1>8, SettleOK, StepOK
<1>9. CASE Store(s, Report(again, p, "open")) /\ health' = health
  BY <1>0, <1>5, <1>6, <1>9, StepOK
<1> QED BY <1>7, <1>8, <1>9

LEMMA ResignFailsKeeps ==
    ASSUME RaceAssumptions, IInv, NEW s \in Sends, NEW p \in send[s].pubs, ResignFails(s, p)
    PROVE  IInv'
<1> DEFINE q == send[s]
           dead == [q EXCEPT !.state = "thrown", !.timer = FALSE]
           r == IF Running(q) THEN dead ELSE q
<1>0. SendOK(q, race) /\ race' = race /\ IsHealth(health') /\ Dressed(q) /\ LanesFit(q, q.whole)
  BY IsDressed DEF IInv, ResignFails
<1>1. SendOK(r, race) /\ r.pubs = q.pubs
  <2>1. CASE ~Running(q)
    BY <1>0, <2>1
  <2>2. CASE Running(q)
    <3>1. Dressed(dead) /\ Alike(q, dead) /\ dead.lane = q.lane /\ dead.state = "thrown"
      BY <1>0 DEF Dressed, IsRecord, SendFields, Alike
    <3> HIDE DEF dead
    <3>2. LanesFit(dead, q.whole) /\ Started(dead) /\ Started(q)
      BY <1>0, <2>2, <3>1 DEF LanesFit, Started, Running
    <3>3. SendOK(dead, race)
      BY <1>0, <3>1, <3>2, AlikeOK
    <3> QED BY <2>2, <3>1, <3>3 DEF Alike
  <2> QED BY <2>1, <2>2
<1>2. Store(s, Report(r, p, "lost"))
  BY DEF ResignFails
<1> HIDE DEF r
<1>3. SendOK(Report(r, p, "lost"), race)
  BY <1>1, ReportOK
<1> QED BY <1>0, <1>2, <1>3, StepOK

(* Only whether it goes on changes of a send. *)
LEMMA LiveOK ==
    ASSUME NEW q, SendOK(q, race), NEW how \in {"aborted", "paused", "gone"}
    PROVE  SendOK([q EXCEPT !.live = how], race) /\ [q EXCEPT !.live = how].state = q.state
<1> DEFINE r == [q EXCEPT !.live = how]
<1>0. IsRecord(q, SendFields)
  BY DEF SendOK, TypedOK
<1>1. /\ IsRecord(r, SendFields) /\ r.live = how /\ r.state = q.state /\ r.flag = q.flag /\ r.recv = q.recv /\ r.whole = q.whole
      /\ r.pending = q.pending /\ r.tried = q.tried /\ r.excluded = q.excluded /\ r.shut = q.shut /\ r.first = q.first /\ r.todo = q.todo
      /\ r.lane = q.lane /\ r.pubs = q.pubs /\ r.answer = q.answer
  BY <1>0 DEF IsRecord, SendFields
<1> HIDE DEF r
<1>2. TypedOK(r, race)
  BY <1>1 DEF SendOK, TypedOK
<1>3. LanesOK(r, race) /\ CoverOK(r, race)
  BY <1>1 DEF SendOK, LanesOK, CoverOK, Accounted
<1>4. PubsOK(r, race)
  BY <1>1 DEF SendOK, PubsOK, PubOK
<1> QED BY <1>1, <1>2, <1>3, <1>4 DEF SendOK, r

LEMMA ProbeKeeps ==
    ASSUME RaceAssumptions, IInv, NEW s \in Sends, NEW connected \in BOOLEAN, Probe(s, connected)
    PROVE  IInv'
<1> DEFINE q == send[s]
           on == connected /\ Current(q)
           asking == {l \in Waiting(q) : q.lane[l].at = "asking"}
           failed == UNION {q.lane[l].held.relays : l \in asking}
           lanes == [l \in Lanes |-> IF l \in asking THEN [at |-> "ready", held |-> NoBatch]
                                     ELSE IF l \in Waiting(q) THEN [q.lane[l] EXCEPT !.at = "ready"] ELSE q.lane[l]]
           off == q.offline \/ (Current(q) /\ ~connected)
           heard == [q EXCEPT !.offline = off, !.lane = lanes]
           told == IF on THEN Remembered(heard, failed) ELSE heard
           lost == [heard EXCEPT !.offline = TRUE]
<1>0. SendOK(q, race) /\ IsRace(race) /\ race' = race /\ q.state = "running" /\ Started(q) /\ IsHealth(health) /\ Dressed(q) /\ LanesFit(q, q.whole)
  BY IsDressed DEF IInv, Probe, Running, Started
<1>1. \/ Store(s, EndsLane(told, "fallback", {})) \/ Store(s, told) \/ Store(s, heard) \/ Store(s, Finish(lost, FALSE))
  BY DEF Probe
<1>2. IsHealth(health')
  BY <1>0, BlamedIsHealth DEF Probe
<1>3. SendOK(heard, race) /\ heard.state = "running"
  <2>1. Dressed(heard) /\ Alike(q, heard) /\ heard.lane = lanes /\ heard.state = "running"
    BY <1>0 DEF Dressed, IsRecord, SendFields, Alike
  <2>2. ASSUME NEW l \in Lanes PROVE LaneOK(lanes[l], q.whole, race)
    <3>1. LaneOK(q.lane[l], q.whole, race)
      BY <1>0 DEF LanesFit
    <3>2. LaneOK([at |-> "ready", held |-> NoBatch], q.whole, race)
      BY DEF LaneOK, IsRecord
    <3>3. LaneOK([q.lane[l] EXCEPT !.at = "ready"], q.whole, race)
      BY <3>1 DEF LaneOK, IsRecord
    <3> HIDE DEF asking
    <3> QED BY <3>1, <3>2, <3>3
  <2>3. lanes = [l \in Lanes |-> lanes[l]]
    OBVIOUS
  <2> HIDE DEF heard, lanes
  <2>4. LanesFit(heard, q.whole)
    BY <2>1, <2>2, <2>3 DEF LanesFit
  <2> QED BY <1>0, <2>1, <2>4, AlikeOK DEF Started
<1> HIDE DEF heard, failed
<1>4. SendOK(told, race) /\ Started(told)
  <2>1. Dressed(heard) /\ Started(heard)
    BY <1>3, IsDressed DEF Started
  <2>2. Failed(heard, failed) \subseteq Pool(race)
    BY <1>0, UnavailableFits DEF Failed
  <2>3. Touched(heard, Remembered(heard, failed))
    BY <2>1, <2>2 DEF Dressed, IsRecord, SendFields, Alike, Touched, Remembered
  <2> QED BY <1>3, <2>1, <2>3, TouchedOK
<1>5. SendOK(lost, race) /\ lost.state = "running"
  <2>1. Dressed(heard) /\ Started(heard)
    BY <1>3, IsDressed DEF Started
  <2>2. Touched(heard, lost)
    BY <2>1 DEF Dressed, IsRecord, SendFields, Alike, Touched
  <2> QED BY <1>3, <2>1, <2>2, TouchedOK DEF Touched
<1> HIDE DEF told, lost
<1>6. SendOK(EndsLane(told, "fallback", {}), race) /\ SendOK(Finish(lost, FALSE), race)
  BY <1>4, <1>5, EndsLaneOK, FinishOK DEF Lanes
<1> QED BY <1>0, <1>1, <1>2, <1>3, <1>4, <1>6, StepOK

LEMMA LateProbeKeeps ==
    ASSUME RaceAssumptions, IInv, NEW s \in Sends, NEW p \in send[s].pubs, NEW connected \in BOOLEAN, LateProbe(s, p, connected)
    PROVE  IInv'
<1> DEFINE q == Report(send[s], p, "settled")
<1>0. SendOK(send[s], race) /\ IsRace(race) /\ race' = race /\ IsHealth(health)
  BY DEF IInv, LateProbe
<1>1. SendOK(q, race) /\ Answered(send[s], q)
  BY <1>0, ReportOK
<1>2. (Store(s, q) \/ Store(s, Remembered(q, p.relays))) /\ (health' = health \/ health' = Blamed(health, q, p.relays))
  BY DEF LateProbe
<1> HIDE DEF q
<1>3. IsHealth(health')
  BY <1>0, <1>2, BlamedIsHealth
<1>4. SendOK(Remembered(q, p.relays), race)
  <2>1. Dressed(q) /\ Started(q)
    BY <1>0, <1>1, IsDressed DEF Started, SendOK, TypedOK, PubsOK, Unstarted, Answered
  <2>2. Failed(q, p.relays) \subseteq Pool(race)
    BY <1>0, UnavailableFits DEF Failed
  <2>3. Touched(q, Remembered(q, p.relays))
    BY <2>1, <2>2 DEF Dressed, IsRecord, SendFields, Alike, Touched, Remembered
  <2> QED BY <1>1, <2>1, <2>3, TouchedOK
<1> QED BY <1>0, <1>1, <1>2, <1>3, <1>4, StepOK

LEMMA RemoveKeeps ==
    ASSUME RaceAssumptions, IInv, NEW s \in Sends, RemoveChannel(s)
    PROVE  IInv'
<1>1. /\ \E n : race' = [race EXCEPT !.interrupts = n]
      /\ send' = [t \in Sends |-> IF t \in Together(s) THEN [send[t] EXCEPT !.live = "gone"] ELSE send[t]] /\ health' = health
  BY DEF RemoveChannel
<1>2. \A t \in Sends : SendOK(send'[t], race)
  BY <1>1, LiveOK DEF IInv
<1>3. send' = [t \in Sends |-> send'[t]]
  BY <1>1
<1> QED BY <1>1, <1>2, <1>3, RoutesStay DEF IInv

LEMMA InterruptKeeps ==
    ASSUME RaceAssumptions, IInv, NEW s \in Sends, NEW how \in {"aborted", "paused"}, Interrupt(s, how)
    PROVE  IInv'
<1> DEFINE open(t) == {p \in send[t].pubs : p.report = "open"}
           lost(t) == IF race.early THEN {} ELSE UNION {p.relays : p \in {x \in open(t) : ~Accepted(send[t], x)}}
           alive(t) == [send[t] EXCEPT !.live = how]
           stopped(t) == IF Running(alive(t)) /\ (race.early \/ lost(t) # {}) THEN Finish(Cancelled(alive(t)), FALSE) ELSE Cancelled(alive(t))
           credited == [r \in Targets |-> IF \E t \in Together(s) : \E p \in open(t) : r \in p.relays /\ send[t].answer[r] = "ok"
                                         THEN Healthy ELSE health[r]]
           waits == {t \in Together(s) : lost(t) # {}}
<1>1. /\ \E n : race' = [race EXCEPT !.interrupts = n]
      /\ send' = [t \in Sends |-> IF t \in Together(s) THEN stopped(t) ELSE send[t]]
      /\ health' = credited \/ \E t : health' = Blamed(credited, send[t], lost(t))
  BY DEF Interrupt
<1>2. IsHealth(credited)
  <2>1. IsCircuit(Healthy)
    BY DEF RaceAssumptions, IsCircuit, IsRecord, Healthy
  <2>2. \A r \in Targets : credited[r] \in {Healthy, health[r]}
    OBVIOUS
  <2>3. credited = [r \in Targets |-> credited[r]]
    OBVIOUS
  <2> HIDE DEF credited
  <2> QED BY <2>1, <2>2, <2>3 DEF IsHealth, IInv
<1> HIDE DEF credited, lost
<1>3. IsHealth(health')
  BY <1>1, <1>2, BlamedIsHealth
<1>4. ASSUME NEW t \in Sends PROVE SendOK(stopped(t), race)
  <2>1. SendOK(alive(t), race) /\ alive(t).state = send[t].state
    BY LiveOK DEF IInv
  <2>2. SendOK(Cancelled(alive(t)), race) /\ Cancelled(alive(t)).state = alive(t).state
    BY <2>1, CancelledOK
  <2>3. Running(alive(t)) => SendOK(Finish(Cancelled(alive(t)), FALSE), race)
    BY <2>2, FinishOK DEF Running
  <2> HIDE DEF alive
  <2> QED BY <2>2, <2>3
<1> HIDE DEF stopped
<1>5. send' = [t \in Sends |-> send'[t]] /\ \A t \in Sends : SendOK(send'[t], race)
  BY <1>1, <1>4 DEF IInv
<1> QED BY <1>1, <1>3, <1>5, RoutesStay DEF IInv

LEMMA CoolKeeps ==
    ASSUME RaceAssumptions, IInv, NEW r \in Targets, Cool(r)
    PROVE  IInv'
<1>1. /\ \E n : race' = [race EXCEPT !.cools = n]
      /\ health' = [health EXCEPT ![r] = [@ EXCEPT !.circuit = "half"]] /\ send' = send
  BY DEF Cool
<1>2. IsCircuit([health[r] EXCEPT !.circuit = "half"])
  BY DEF IInv, IsHealth, IsCircuit, IsRecord
<1>3. IsHealth(health')
  BY <1>1, <1>2 DEF IInv, IsHealth
<1> QED BY <1>1, <1>3, RoutesStay DEF IInv

--------------------------------------------------------------------------------
LEMMA InitIInv == RaceAssumptions /\ SRInit => IInv
<1> SUFFICES ASSUME RaceAssumptions, SRInit PROVE IInv
  OBVIOUS
<1>1. IsRace(race)
  BY DEF RaceAssumptions, SRInit
<1>2. IsHealth(health)
  <2>1. IsCircuit(Healthy) /\ IsCircuit([fails |-> 0, circuit |-> "open"])
    BY DEF RaceAssumptions, IsCircuit, IsRecord, Healthy
  <2> QED BY <2>1 DEF SRInit, IsHealth
<1>3. SendOK(Unsent, race)
  <2>1. TypedOK(Unsent, race)
    BY DEF TypedOK, Unsent, IsRecord, SendFields
  <2>2. LanesOK(Unsent, race)
    BY DEF LanesOK, LaneOK, Unsent, NoLane, IsRecord
  <2>3. PubsOK(Unsent, race) /\ CoverOK(Unsent, race)
    BY DEF PubsOK, CoverOK, NoAsk, Unsent
  <2> QED BY <2>1, <2>2, <2>3 DEF SendOK
<1> QED BY <1>1, <1>2, <1>3 DEF SRInit, IInv

LEMMA NextIInv == RaceAssumptions /\ IInv /\ [SRNext]_rvars => IInv'
<1> SUFFICES ASSUME RaceAssumptions, IInv, [SRNext]_rvars PROVE IInv'
  OBVIOUS
<1>1. CASE UNCHANGED rvars
  BY <1>1 DEF rvars, IInv, IsHealth
<1>2. CASE SRNext
  BY <1>2, ResolveKeeps, PublishKeeps, TimerKeeps, FallbackStartsKeeps, ContinueKeeps, LaneNextKeeps, AnswerKeeps, ResignedKeeps,
     ResignFailsKeeps, ProbeKeeps, LateProbeKeeps, InterruptKeeps, RemoveKeeps, CoolKeeps DEF SRNext
<1> QED BY <1>1, <1>2

LEMMA IInvReal == IInv => CoverageIsReal
<1> SUFFICES ASSUME IInv PROVE CoverageIsReal
  OBVIOUS
<1>1. SRTypeOK
  <2>1. \A r \in Targets : health[r].circuit \in {"closed", "open", "half"} /\ health[r].fails \in 0..Threshold
    BY DEF IInv, IsHealth, IsCircuit
  <2>2. ASSUME NEW s \in Sends
        PROVE  LET q == send[s] IN
        /\ q.state \in {"idle", "refused", "resolved", "running", "yes", "no", "thrown"}
        /\ q.flag \in {"none", "available", "online"} /\ q.live \in {"yes", "aborted", "paused", "gone"}
        /\ q.pending \subseteq q.recv /\ q.recv \subseteq Receivers
        /\ q.tried \union q.shut \subseteq Targets /\ q.excluded \subseteq Candidates
        /\ \A p \in q.pubs : p.report \in {"open", "signing", "probing", "settled", "lost"} /\ p.relays \subseteq q.tried
    <3>1. TypedOK(send[s], race) /\ PubsOK(send[s], race) /\ Pool(race) = Candidates
      BY UnavailableFits DEF IInv, SendOK
    <3> QED BY <3>1 DEF TypedOK, PubsOK, PubOK
  <2> QED BY <2>1, <2>2 DEF SRTypeOK
<1>2. ASSUME NEW s \in Sends, send[s].state = "yes", send[s].whole
      PROVE  Covered(s)
  <2>1. \A c \in send[s].recv : Accounted(send[s], race, c)
    BY <1>2 DEF IInv, SendOK, CoverOK
  <2> QED BY <2>1 DEF Covered, Accounted, RoutesOf, Fallback, Ways
<1> QED BY <1>1, <1>2 DEF CoverageIsReal

(* A send that succeeded was accepted, for each receiver of its ciphertext, by a relay that the receiver   *)
(* reads or by a mirror, whatever the routes, the races, the answers and the interruptions were             *)
(* (send-routing.js:133-188, fallback-race.js:62-101).                                                     *)
THEOREM SuccessIsCovered == SRSpec => []CoverageIsReal
<1>1. SRInit => IInv
  BY InitIInv, RacesAreRaces
<1>2. IInv /\ [SRNext]_rvars => IInv'
  BY NextIInv, RacesAreRaces
<1> QED BY <1>1, <1>2, IInvReal, PTL DEF SRSpec

--------------------------------------------------------------------------------
(* A failure is final.  Routing picks a relay for every receiver that has one left.        *)

FinalAssumptions ==
    /\ RaceAssumptions
    /\ IsFiniteSet(Targets) /\ IsFiniteSet(Receivers) /\ PerReceiver \in Nat \ {0} /\ NoBatch \notin Sends

LEMMA FinalRaces == FinalAssumptions
  BY RacesAreRaces, RaceAssumption DEF FinalAssumptions

(* The k heaviest elements of a finite set. *)
Heaviest(g, S, k, w) == Cardinality(g) <= k /\ (g = S \/ Cardinality(g) = k) /\ \A r \in g, t \in S \ g : w[r] >= w[t]

LEMMA HeaviestExist ==
    ASSUME NEW S, IsFiniteSet(S), NEW k \in Nat, NEW w, NEW b \in Nat, \A r \in S : w[r] \in Nat /\ w[r] <= b
    PROVE  \E g \in SUBSET S : Heaviest(g, S, k, w)
<1> DEFINE U == {g \in SUBSET S : Cardinality(g) <= k /\ \A r \in g, t \in S \ g : w[r] >= w[t]}
           N == {Cardinality(g) : g \in U}
<1>1. \A g \in SUBSET S : IsFiniteSet(g) /\ Cardinality(g) \in Nat
  BY FS_Subset, FS_CardinalityType
<1>2. {} \in U
  BY FS_EmptySet
<1>3. N \subseteq Nat /\ N # {} /\ \A n \in N : n <= k
  BY <1>1, <1>2
<1> HIDE DEF N
<1>4. Max(N) \in N /\ \A n \in N : n <= Max(N)
  BY <1>3, MaxOfNaturals
<1>5. PICK g \in U : Cardinality(g) = Max(N)
  BY <1>4 DEF N
<1>6. g = S \/ Cardinality(g) = k
  <2> SUFFICES ASSUME g # S, Cardinality(g) # k PROVE FALSE
    OBVIOUS
  <2> DEFINE W == {w[t] : t \in S \ g}
  <2>1. W \subseteq Nat /\ W # {} /\ \A n \in W : n <= b
    OBVIOUS
  <2> HIDE DEF W
  <2>2. Max(W) \in W /\ \A n \in W : n <= Max(W)
    BY <2>1, MaxOfNaturals
  <2>3. PICK t \in S \ g : w[t] = Max(W)
    BY <2>2 DEF W
  <2>4. \A u \in S \ g : w[u] <= w[t]
    BY <2>2, <2>3 DEF W
  <2>5. Cardinality(g \union {t}) = Cardinality(g) + 1
    BY <1>1, FS_AddElement
  <2>6. Cardinality(g) \in Nat /\ Cardinality(g) < k
    BY <1>1
  <2>7. ASSUME NEW r \in g \union {t}, NEW u \in S \ (g \union {t}) PROVE w[r] >= w[u]
    BY <2>4
  <2>8. g \union {t} \in U
    BY <2>5, <2>6, <2>7
  <2>9. Cardinality(g) + 1 \in N
    BY <2>5, <2>8 DEF N
  <2> QED BY <1>4, <1>5, <2>6, <2>9
<1> QED BY <1>5, <1>6 DEF Heaviest

(* Whoever has a relay left has one picked. *)
Picked(who, listed, gone, f) == \A c \in who : listed[c] \subseteq gone \/ f[c] # {}

LEMMA PicksExist ==
    ASSUME FinalAssumptions, NEW who, who \subseteq Receivers, NEW listed, \A c \in who : listed[c] \subseteq Targets,
           NEW excluded, NEW max \in Nat \ {0}
    PROVE  \E f \in Picks(who, listed, excluded, max) : Picked(who, listed, excluded, f)
<1> DEFINE open == [p \in who |-> listed[p] \ excluded]
           Sharing(r) == {p \in who : r \in open[p]}
           w == [r \in Targets |-> Cardinality(Sharing(r))]
           Best(p) == {g \in SUBSET open[p] :
                      /\ Cardinality(g) <= max
                      /\ g = open[p] \/ Cardinality(g) = max
                      /\ \A r \in g, t \in open[p] \ g : Cardinality(Sharing(r)) >= Cardinality(Sharing(t))}
           f == [p \in who |-> CHOOSE g : g \in Best(p)]
<1>1. IsFiniteSet(who) /\ Cardinality(who) \in Nat
  BY FS_Subset, FS_CardinalityType DEF FinalAssumptions
<1>2. \A r \in Targets : w[r] \in Nat /\ w[r] <= Cardinality(who)
  <2>1. ASSUME NEW r \in Targets PROVE Cardinality(Sharing(r)) \in Nat /\ Cardinality(Sharing(r)) <= Cardinality(who)
    BY <1>1, FS_Subset, FS_CardinalityType
  <2> QED BY <2>1
<1>3. ASSUME NEW p \in who PROVE \E g : g \in Best(p)
  <2>1. open[p] \subseteq Targets /\ IsFiniteSet(open[p])
    BY FS_Subset DEF FinalAssumptions
  <2>2. PICK g \in SUBSET open[p] : Heaviest(g, open[p], max, w)
    <3> HIDE DEF open, w
    <3> QED BY <1>1, <1>2, <2>1, HeaviestExist
  <2>3. \A r \in g, t \in open[p] \ g : Cardinality(Sharing(r)) >= Cardinality(Sharing(t))
    <3>1. \A r \in open[p] : w[r] = Cardinality(Sharing(r))
      BY <2>1
    <3> HIDE DEF w, open, Sharing
    <3> QED BY <2>2, <3>1 DEF Heaviest
  <2>4. g \in Best(p)
    BY <2>2, <2>3 DEF Heaviest
  <2> QED BY <2>4
<1>4. \A p \in who : f[p] \in Best(p)
  <2> HIDE DEF Best
  <2> QED BY <1>3
<1>5. f \in Picks(who, listed, excluded, max)
  <2>1. f \in [who -> SUBSET UNION {open[p] : p \in who}]
    <3>1. \A p \in who : f[p] \subseteq open[p]
      BY <1>4
    <3> HIDE DEF open, Best
    <3>2. \A p \in who : f[p] \in SUBSET UNION {open[x] : x \in who}
      BY <3>1
    <3>3. f = [p \in who |-> f[p]]
      OBVIOUS
    <3> HIDE DEF f
    <3> QED BY <3>2, <3>3
  <2> HIDE DEF f
  <2> QED BY <1>4, <2>1 DEF Picks
<1>6. ASSUME NEW c \in who, ~(listed[c] \subseteq excluded) PROVE f[c] # {}
  <2>1. f[c] \in Best(c)
    BY <1>4
  <2>2. open[c] # {}
    BY <1>6
  <2>3. Cardinality({}) = 0 /\ max # 0
    BY FS_EmptySet
  <2> HIDE DEF f, open
  <2> QED BY <2>1, <2>2, <2>3
<1> QED BY <1>5, <1>6 DEF Picked

LEMMA BatchesExist ==
    ASSUME NEW route, NEW c \in DOMAIN route, route[c] # {}
    PROVE  Batches(route) # {}
  BY DEF Batches

LEMMA NoPrimaryLeft ==
    ASSUME FinalAssumptions, IInv, NEW s \in Sends, NEW max \in Nat \ {0}, PrimaryBatches(s, max) = {}
    PROVE  \A c \in send[s].pending : race.primary[c] \subseteq Unavailable(s) \union send[s].tried
<1> DEFINE who == send[s].pending
           listed == race.primary
           gone == Unavailable(s) \union send[s].tried
<1>1. who \subseteq Receivers /\ \A c \in who : listed[c] \subseteq Targets
  BY DEF IInv, SendOK, TypedOK, IsRace
<1>2. \A f \in Picks(who, listed, gone, max) : Batches(f) = {}
  BY DEF PrimaryBatches
<1> HIDE DEF who, listed, gone
<1>3. \E f \in Picks(who, listed, gone, max) : Picked(who, listed, gone, f)
  BY <1>1, PicksExist
<1>4. PICK f \in Picks(who, listed, gone, max) : Picked(who, listed, gone, f)
  BY <1>3
<1>5. DOMAIN f = who
  BY PicksRoute
<1>6. \A c \in who : listed[c] \subseteq gone
  BY <1>2, <1>4, <1>5, BatchesExist DEF Picked
<1> QED BY <1>6 DEF who, listed, gone

LEMMA NoFallbackLeft ==
    ASSUME FinalAssumptions, IInv, NEW s \in Sends, FallbackBatches(s) = {}
    PROVE  \A c \in send[s].pending : race.fallback \subseteq Unavailable(s) \union send[s].tried
<1> DEFINE who == send[s].pending
           listed == FallbackLists
           gone == Unavailable(s) \union send[s].tried
           max == PerReceiver
<1>1. who \subseteq Receivers /\ \A c \in who : listed[c] = race.fallback /\ listed[c] \subseteq Targets
  BY DEF IInv, SendOK, TypedOK, IsRace, FallbackLists, Fallback
<1>2. \A f \in Picks(who, listed, gone, max) : Batches(f) = {}
  BY DEF FallbackBatches
<1>3. max \in Nat \ {0}
  BY DEF FinalAssumptions
<1> HIDE DEF who, listed, gone, max
<1>4. \E f \in Picks(who, listed, gone, max) : Picked(who, listed, gone, f)
  BY <1>1, <1>3, PicksExist
<1>5. PICK f \in Picks(who, listed, gone, max) : Picked(who, listed, gone, f)
  BY <1>4
<1>6. DOMAIN f = who
  BY PicksRoute
<1>7. \A c \in who : listed[c] \subseteq gone
  BY <1>2, <1>5, <1>6, BatchesExist DEF Picked
<1> QED BY <1>1, <1>7 DEF who, gone

LEMMA NothingStagedLeft ==
    ASSUME FinalAssumptions, IInv, NEW s \in Sends, StagedBatches(s) = {}
    PROVE  \A c \in send[s].pending : race.primary[c] \union race.fallback \subseteq Unavailable(s) \union send[s].tried
<1>1. PrimaryBatches(s, Limit) = {} /\ FallbackBatches(s) = {}
  BY DEF StagedBatches
<1>2. \A c \in send[s].pending : race.primary[c] \subseteq Unavailable(s) \union send[s].tried
  <2>1. CASE Targets = {}
    BY <2>1 DEF IInv, SendOK, TypedOK, IsRace
  <2>2. CASE Targets # {}
    <3>1. Limit \in Nat \ {0}
      BY <2>2, FS_CardinalityType, FS_EmptySet DEF Limit, FinalAssumptions
    <3> QED BY <1>1, <3>1, NoPrimaryLeft
  <2> QED BY <2>1, <2>2
<1> QED BY <1>1, <1>2, NoFallbackLeft

--------------------------------------------------------------------------------
(* What a send has left: a failure is final for a reason, a lane is over for one, and sends *)
(* of one publication go on, and leave relays out, together.                               *)
Spent(q, e) == \A c \in q.pending : e.primary[c] \union e.fallback \subseteq q.tried \union q.excluded \union q.shut
FailsOK(q, e) == q.state = "no" /\ q.flag = "none" /\ q.live # "aborted" => q.blocked \/ Spent(q, e)
RacesOK(q, e) ==
    q.state = "running" /\ e.early =>
        /\ q.lane["primary"].at = "over" => Stopped(q) \/ \A c \in q.pending : e.primary[c] \subseteq q.tried \union q.shut
        /\ q.lane["fallback"].at = "over" => Stopped(q) \/ q.pending = {} \/ e.fallback \subseteq q.tried \union q.shut
        /\ q.lane["fallback"].at = "idle" /\ ~q.timer => Stopped(q)
RoutesOK(q, e) == q.state = "running" /\ ~e.early => ~q.timer /\ q.lane["fallback"].at # "starting"
RestsOK(q) ==
    /\ q.state \in {"idle", "resolved"} => q.lane["fallback"].at = "idle"
    /\ q.state = "resolved" => q.lane["primary"].at = "ready"
    /\ q.state = "idle" => q.of = NoBatch
LeftOK(q, e) == FailsOK(q, e) /\ RacesOK(q, e) /\ RoutesOK(q, e) /\ RestsOK(q)
Together1 == \A s, t \in Sends :
    /\ send[s].of = send[t].of /\ send[s].of # NoBatch => send[s].excluded = send[t].excluded /\ send[s].live = send[t].live
    /\ send[t].of = s => send[s].of = s
FinalInv == IInv /\ Together1 /\ \A s \in Sends : LeftOK(send[s], race)

(* A step of a send stays in its publication. *)
Evolves(q, r) == r.of = q.of /\ r.live = q.live /\ q.excluded \subseteq r.excluded

LEMMA StoreLeft ==
    ASSUME FinalAssumptions, FinalInv, NEW s \in Sends, NEW q, Store(s, q), LeftOK(q, race), Evolves(send[s], q), race' = race, IInv'
    PROVE  FinalInv'
<1>1. \A t \in Sends : send'[t] = IF t = s THEN q ELSE IF send[t].of = q.of /\ q.of # NoBatch THEN [send[t] EXCEPT !.excluded = q.excluded] ELSE send[t]
  BY DEF Store
<1>2. ASSUME NEW t \in Sends, t # s, send[t].of = q.of, q.of # NoBatch
      PROVE  LeftOK([send[t] EXCEPT !.excluded = q.excluded], race)
  <2> DEFINE r == [send[t] EXCEPT !.excluded = q.excluded]
  <2>0. IsRecord(send[t], SendFields)
    BY DEF FinalInv, IInv, SendOK, TypedOK
  <2>1. /\ r.excluded = q.excluded /\ r.state = send[t].state /\ r.flag = send[t].flag /\ r.live = send[t].live /\ r.pending = send[t].pending
        /\ r.tried = send[t].tried /\ r.shut = send[t].shut /\ r.blocked = send[t].blocked /\ r.offline = send[t].offline /\ r.timer = send[t].timer
        /\ r.lane = send[t].lane /\ r.of = send[t].of
    BY <2>0 DEF IsRecord, SendFields
  <2>2. send[t].excluded \subseteq q.excluded /\ LeftOK(send[t], race)
    BY <1>2 DEF FinalInv, Together1, Evolves
  <2> HIDE DEF r
  <2>3. FailsOK(r, race)
    BY <2>1, <2>2 DEF LeftOK, FailsOK, Spent
  <2>4. RacesOK(r, race) /\ RoutesOK(r, race) /\ RestsOK(r)
    BY <2>1, <2>2 DEF LeftOK, RacesOK, RoutesOK, RestsOK, Stopped, Current
  <2> QED BY <2>3, <2>4 DEF LeftOK, r
<1>3. \A t \in Sends : LeftOK(send'[t], race)
  BY <1>1, <1>2 DEF FinalInv
<1>4. \A t \in Sends : send'[t].of = send[t].of /\ send'[t].live = send[t].live
  <2>1. ASSUME NEW t \in Sends PROVE [send[t] EXCEPT !.excluded = q.excluded].of = send[t].of /\ [send[t] EXCEPT !.excluded = q.excluded].live = send[t].live
    BY DEF FinalInv, IInv, SendOK, TypedOK, IsRecord, SendFields
  <2> QED BY <1>1, <2>1 DEF Evolves
<1>5. \A t \in Sends : send'[t].excluded = IF t = s \/ (send[t].of = q.of /\ q.of # NoBatch) THEN q.excluded ELSE send[t].excluded
  <2>1. ASSUME NEW t \in Sends PROVE [send[t] EXCEPT !.excluded = q.excluded].excluded = q.excluded
    BY DEF FinalInv, IInv, SendOK, TypedOK, IsRecord, SendFields
  <2> QED BY <1>1, <2>1
<1>6. Together1'
  BY <1>4, <1>5 DEF FinalInv, Together1, Evolves
<1> QED BY <1>3, <1>6 DEF FinalInv

(* What leaves the lanes, and what was tried, alone leaves it as it was. *)
Same(q, r) ==
    /\ r.state = q.state /\ r.flag = q.flag /\ r.live = q.live /\ r.pending = q.pending /\ r.tried = q.tried
    /\ q.excluded \subseteq r.excluded /\ q.shut \subseteq r.shut /\ r.blocked = q.blocked /\ r.offline = q.offline /\ r.timer = q.timer
    /\ r.lane = q.lane /\ r.of = q.of

LEMMA SameLeft ==
    ASSUME NEW q, LeftOK(q, race), NEW r, Same(q, r)
    PROVE  LeftOK(r, race) /\ Evolves(q, r)
<1>1. FailsOK(r, race)
  BY DEF LeftOK, FailsOK, Spent, Same
<1>2. RacesOK(r, race)
  BY DEF LeftOK, RacesOK, Stopped, Current, Same
<1>3. RoutesOK(r, race) /\ RestsOK(r)
  BY DEF LeftOK, RoutesOK, RestsOK, Same
<1> QED BY <1>1, <1>2, <1>3 DEF LeftOK, Evolves, Same

LEMMA FinishLeft ==
    ASSUME NEW q, IsRecord(q, SendFields), NEW ok \in BOOLEAN, ok \/ Stopped(q) \/ Spent(q, race)
    PROVE  LeftOK(Finish(q, ok), race) /\ Evolves(q, Finish(q, ok))
<1> DEFINE r == Finish(q, ok)
<1>1. /\ r.state = (IF ok THEN "yes" ELSE "no") /\ r.of = q.of /\ r.live = q.live /\ r.pending = q.pending /\ r.tried = q.tried
      /\ r.excluded = q.excluded /\ r.shut = q.shut /\ r.blocked = q.blocked /\ r.offline = q.offline
      /\ r.flag = IF ok \/ Aborted(q) \/ (Current(q) /\ ~q.offline) THEN "none"
                  ELSE IF q.offline \/ ~race.early THEN "online" ELSE "available"
  BY DEF Finish, IsRecord, SendFields
<1> HIDE DEF r
<1>2. FailsOK(r, race)
  BY <1>1 DEF FailsOK, Spent, Aborted, Current, Stopped
<1>3. RacesOK(r, race) /\ RoutesOK(r, race) /\ RestsOK(r)
  BY <1>1 DEF RacesOK, RoutesOK, RestsOK
<1> QED BY <1>1, <1>2, <1>3 DEF LeftOK, Evolves, r

(* What goes on: no receiver returns, no relay is tried again, and no lane stops. *)
Further(q, r) ==
    /\ r.state = q.state /\ r.flag = q.flag /\ r.live = q.live /\ r.of = q.of /\ r.timer = q.timer
    /\ r.pending \subseteq q.pending /\ q.tried \subseteq r.tried /\ q.excluded \subseteq r.excluded /\ q.shut \subseteq r.shut
    /\ (q.blocked => r.blocked) /\ (q.offline => r.offline)
    /\ \A l \in Lanes : r.lane[l].at = q.lane[l].at \/ r.lane[l].at \notin {"over", "idle", "starting"}

LEMMA FurtherLeft ==
    ASSUME NEW q, LeftOK(q, race), Started(q), NEW r, Further(q, r)
    PROVE  LeftOK(r, race) /\ Evolves(q, r)
<1>0. q.state \notin {"idle", "resolved"} /\ (Stopped(q) => Stopped(r))
  BY DEF Started, Stopped, Current, Further
<1>1. FailsOK(r, race)
  BY DEF LeftOK, FailsOK, Spent, Further
<1>2. RacesOK(r, race)
  BY <1>0 DEF LeftOK, RacesOK, Further, Lanes
<1>3. RoutesOK(r, race) /\ RestsOK(r)
  BY <1>0 DEF LeftOK, RoutesOK, RestsOK, Further, Lanes
<1> QED BY <1>1, <1>2, <1>3 DEF LeftOK, Evolves, Further

LEMMA Further2 ==
    ASSUME NEW q, NEW r, NEW t, Further(q, r), Further(r, t)
    PROVE  Further(q, t)
  BY DEF Further

LEMMA CheckLeft ==
    ASSUME NEW q, IsRecord(q, SendFields), LeftOK(q, race), q.state = "running", race.early
    PROVE  LeftOK(CheckRace(q), race) /\ Evolves(q, CheckRace(q))
<1>1. CASE CheckRace(q) = q
  BY <1>1 DEF Evolves
<1>2. CASE q.pending = {} /\ CheckRace(q) = Finish(q, TRUE)
  BY <1>2, FinishLeft
<1>3. CASE /\ q.lane["primary"].at = "over" /\ q.lane["fallback"].at \in {"idle", "over"} /\ ~q.timer
           /\ CheckRace(q) = Finish(q, FALSE)
  <2>1. Stopped(q) \/ Spent(q, race)
    BY <1>3 DEF LeftOK, RacesOK, Spent
  <2> QED BY <1>3, <2>1, FinishLeft
<1> QED BY <1>1, <1>2, <1>3 DEF CheckRace

(* Why a lane ends. *)
Exhausted(q, l, closed) ==
    \/ Stopped(q)
    \/ l = "primary" /\ \A c \in q.pending : race.primary[c] \subseteq q.tried \union closed
    \/ l = "fallback" /\ (q.pending = {} \/ race.fallback \subseteq q.tried \union closed)

LEMMA EndsLaneLeft ==
    ASSUME NEW q, SendOK(q, race), LeftOK(q, race), q.state = "running", race.early, NEW l \in Lanes, NEW closed, Exhausted(q, l, closed)
    PROVE  LeftOK(EndsLane(q, l, closed), race) /\ Evolves(q, EndsLane(q, l, closed))
<1> DEFINE over == [LaneAt(q, l, "over") EXCEPT !.shut = @ \union closed]
           quiet == [over EXCEPT !.timer = FALSE]
           go == LaneAt(quiet, "fallback", "starting")
           next == IF l = "primary" /\ q.timer THEN IF Stopped(q) THEN quiet ELSE go ELSE over
<1>0. IsRecord(q, SendFields) /\ q.lane = [x \in Lanes |-> q.lane[x]]
  BY DEF SendOK, TypedOK, LanesOK
<1>1. /\ IsRecord(over, SendFields) /\ over.state = "running" /\ over.flag = q.flag /\ over.live = q.live /\ over.of = q.of /\ over.timer = q.timer
      /\ over.pending = q.pending /\ over.tried = q.tried /\ over.excluded = q.excluded /\ over.shut = q.shut \union closed
      /\ over.blocked = q.blocked /\ over.offline = q.offline /\ over.lane = [q.lane EXCEPT ![l] = [at |-> "over", held |-> NoBatch]]
  BY <1>0 DEF IsRecord, SendFields, LaneAt
<1> HIDE DEF over
<1>2. /\ IsRecord(quiet, SendFields) /\ quiet.state = "running" /\ quiet.flag = q.flag /\ quiet.live = q.live /\ quiet.of = q.of /\ quiet.timer = FALSE
      /\ quiet.pending = q.pending /\ quiet.tried = q.tried /\ quiet.excluded = q.excluded /\ quiet.shut = q.shut \union closed
      /\ quiet.blocked = q.blocked /\ quiet.offline = q.offline /\ quiet.lane = over.lane
  BY <1>1 DEF IsRecord, SendFields
<1> HIDE DEF quiet
<1>3. /\ IsRecord(go, SendFields) /\ go.state = "running" /\ go.flag = q.flag /\ go.live = q.live /\ go.of = q.of /\ go.timer = FALSE
      /\ go.pending = q.pending /\ go.tried = q.tried /\ go.excluded = q.excluded /\ go.shut = q.shut \union closed
      /\ go.blocked = q.blocked /\ go.offline = q.offline /\ go.lane = [over.lane EXCEPT !["fallback"] = [at |-> "starting", held |-> NoBatch]]
  BY <1>2 DEF IsRecord, SendFields, LaneAt
<1> HIDE DEF go
<1>4. \A x \in Lanes : over.lane[x] = IF x = l THEN [at |-> "over", held |-> NoBatch] ELSE q.lane[x]
  BY <1>0, <1>1
<1>5. LeftOK(over, race)
  <2>1. over.lane["primary"].at = (IF l = "primary" THEN "over" ELSE q.lane["primary"].at)
        /\ over.lane["fallback"].at = (IF l = "fallback" THEN "over" ELSE q.lane["fallback"].at)
    BY <1>4 DEF Lanes
  <2>2. Stopped(q) = Stopped(over)
    BY <1>1 DEF Stopped, Current
  <2>3. RacesOK(over, race)
    BY <1>1, <2>1, <2>2 DEF LeftOK, RacesOK, Exhausted
  <2> QED BY <1>1, <2>3 DEF LeftOK, FailsOK, RoutesOK, RestsOK
<1>6. Stopped(q) => LeftOK(quiet, race)
  BY <1>2 DEF LeftOK, FailsOK, RoutesOK, RestsOK, RacesOK, Stopped, Current
<1>7. l = "primary" => LeftOK(go, race)
  <2>1. ASSUME l = "primary" PROVE RacesOK(go, race)
    <3>1. go.lane["primary"].at = "over" /\ go.lane["fallback"].at = "starting"
      <4>1. over.lane = [x \in Lanes |-> over.lane[x]]
        BY <1>0, <1>1
      <4> QED BY <1>3, <1>4, <2>1, <4>1 DEF Lanes
    <3>2. Stopped(q) = Stopped(go)
      BY <1>3 DEF Stopped, Current
    <3> QED BY <1>3, <2>1, <3>1, <3>2 DEF RacesOK, Exhausted
  <2> QED BY <1>3, <2>1 DEF LeftOK, FailsOK, RoutesOK, RestsOK
<1>8. IsRecord(next, SendFields) /\ next.state = "running" /\ LeftOK(next, race) /\ Evolves(q, next)
  BY <1>1, <1>2, <1>3, <1>5, <1>6, <1>7 DEF Evolves
<1>9. EndsLane(q, l, closed) = CheckRace(next)
  BY DEF EndsLane, over, quiet, go
<1> HIDE DEF next
<1>10. LeftOK(CheckRace(next), race) /\ Evolves(next, CheckRace(next))
  BY <1>8, CheckLeft
<1> QED BY <1>8, <1>9, <1>10 DEF Evolves

(* A lane goes on. *)
LEMMA LaneAtFurther ==
    ASSUME NEW q, SendOK(q, race), NEW l \in Lanes, NEW at, at \notin {"over", "idle", "starting"}
    PROVE  Further(q, LaneAt(q, l, at))
<1>0. IsRecord(q, SendFields) /\ q.lane = [x \in Lanes |-> q.lane[x]]
  BY DEF SendOK, TypedOK, LanesOK
<1> DEFINE r == LaneAt(q, l, at)
<1>1. /\ r.state = q.state /\ r.flag = q.flag /\ r.live = q.live /\ r.of = q.of /\ r.timer = q.timer /\ r.pending = q.pending /\ r.tried = q.tried
      /\ r.excluded = q.excluded /\ r.shut = q.shut /\ r.blocked = q.blocked /\ r.offline = q.offline
      /\ r.lane = [q.lane EXCEPT ![l] = [at |-> at, held |-> NoBatch]]
  BY <1>0 DEF IsRecord, SendFields, LaneAt
<1> HIDE DEF r
<1>2. \A x \in Lanes : r.lane[x].at = IF x = l THEN at ELSE q.lane[x].at
  BY <1>0, <1>1
<1> QED BY <1>1, <1>2 DEF Further, r

LEMMA AskingFurther ==
    ASSUME NEW q, SendOK(q, race), NEW p \in q.pubs
    PROVE  Further(q, Asking(q, p))
<1>0. IsRecord(q, SendFields) /\ q.lane = [x \in Lanes |-> q.lane[x]]
  BY DEF SendOK, TypedOK, LanesOK
<1> DEFINE r == Asking(q, p)
           y == [at |-> "asking", held |-> [recv |-> p.recv, relays |-> p.relays]]
<1>1. /\ r.state = q.state /\ r.flag = q.flag /\ r.live = q.live /\ r.of = q.of /\ r.timer = q.timer /\ r.pending = q.pending /\ r.tried = q.tried
      /\ r.excluded = q.excluded /\ r.shut = q.shut /\ r.blocked = q.blocked /\ r.offline = q.offline
      /\ r.lane = [q.lane EXCEPT ![p.by] = y]
  BY <1>0 DEF IsRecord, SendFields, Asking
<1>3. y.at = "asking"
  OBVIOUS
<1> HIDE DEF r, y
<1>2. \A x \in Lanes : r.lane[x].at = IF x = p.by THEN "asking" ELSE q.lane[x].at
  BY <1>0, <1>1, <1>3
<1> QED BY <1>1, <1>2 DEF Further, r

LEMMA LaunchFurther ==
    ASSUME NEW q, SendOK(q, race), NEW l \in Lanes, NEW b
    PROVE  Further(q, Launch(q, l, b)) /\ IsRecord(Launch(q, l, b), SendFields) /\ Launch(q, l, b).state = q.state
<1> DEFINE extra == IF l = "primary" /\ q.opening THEN race.mirrors \ Candidates ELSE {}
           relays == (b.relays \union extra) \ q.tried
           a == LaneAt(q, l, "sending")
           z == LaneAt(q, l, "ready")
           r == [a EXCEPT
                   !.opening = IF l = "primary" THEN FALSE ELSE @, !.tried = @ \union relays,
                   !.answer = [x \in Targets |-> IF x \in relays THEN "asked" ELSE q.answer[x]],
                   !.pubs = @ \union {[by |-> l, recv |-> b.recv, relays |-> relays, report |-> "open"]}]
<1>0. Launch(q, l, b) = IF relays = {} THEN z ELSE r
  BY DEF Launch
<1>1. Further(q, a) /\ Further(q, z)
  BY LaneAtFurther
<1>2. IsRecord(q, SendFields)
  BY DEF SendOK, TypedOK
<1>3. IsRecord(a, SendFields) /\ IsRecord(z, SendFields) /\ a.state = q.state /\ z.state = q.state
  BY <1>2 DEF IsRecord, SendFields, LaneAt
<1> HIDE DEF a, z, relays
<1>4. /\ r.state = a.state /\ r.flag = a.flag /\ r.live = a.live /\ r.of = a.of /\ r.timer = a.timer /\ r.pending = a.pending
      /\ r.tried = a.tried \union relays
      /\ r.excluded = a.excluded /\ r.shut = a.shut /\ r.blocked = a.blocked /\ r.offline = a.offline /\ r.lane = a.lane /\ IsRecord(r, SendFields)
  BY <1>3 DEF IsRecord, SendFields
<1> HIDE DEF r
<1>5. Further(a, r)
  BY <1>4 DEF Further
<1>6. Further(q, r)
  BY <1>1, <1>5, Further2
<1> QED BY <1>0, <1>1, <1>3, <1>4, <1>6

LEMMA ReportFurther ==
    ASSUME NEW q, IsRecord(q, SendFields), NEW p, NEW to
    PROVE  Further(q, Report(q, p, to))
<1>1. Same(q, Report(q, p, to))
  BY DEF IsRecord, SendFields, Report, Same
<1> QED BY <1>1 DEF Same, Further

LEMMA CancelledFurther ==
    ASSUME NEW q, IsRecord(q, SendFields)
    PROVE  Further(q, Cancelled(q)) /\ IsRecord(Cancelled(q), SendFields)
<1>1. Same(q, Cancelled(q)) /\ IsRecord(Cancelled(q), SendFields)
  BY DEF IsRecord, SendFields, Cancelled, Same
<1> QED BY <1>1 DEF Same, Further

(* Storing what goes further. *)
LEMMA FurtherKeeps ==
    ASSUME FinalAssumptions, FinalInv, NEW s \in Sends, Started(send[s]), NEW q, Further(send[s], q), Store(s, q), race' = race, IInv'
    PROVE  FinalInv'
<1>1. LeftOK(q, race) /\ Evolves(send[s], q)
  BY FurtherLeft DEF FinalInv
<1> QED BY <1>1, StoreLeft

LEMMA TimerLeft ==
    ASSUME FinalAssumptions, FinalInv, NEW s \in Sends, Timer(s)
    PROVE  FinalInv'
<1> DEFINE q == send[s]
           a == [q EXCEPT !.timer = FALSE]
           r == LaneAt(a, "fallback", "starting")
<1>0. SendOK(q, race) /\ LeftOK(q, race) /\ race' = race /\ q.state = "running" /\ q.timer
  BY DEF FinalInv, IInv, Timer, Running
<1>1. IsRecord(q, SendFields) /\ q.lane = [x \in Lanes |-> q.lane[x]]
  BY <1>0 DEF SendOK, TypedOK, LanesOK
<1>2. /\ IsRecord(a, SendFields) /\ a.state = "running" /\ a.flag = q.flag /\ a.live = q.live /\ a.of = q.of /\ a.timer = FALSE
      /\ a.pending = q.pending /\ a.tried = q.tried /\ a.excluded = q.excluded /\ a.shut = q.shut
      /\ a.blocked = q.blocked /\ a.offline = q.offline /\ a.lane = q.lane
  BY <1>0, <1>1 DEF IsRecord, SendFields
<1> HIDE DEF a
<1>3. /\ r.state = "running" /\ r.flag = q.flag /\ r.live = q.live /\ r.of = q.of /\ r.timer = FALSE
      /\ r.pending = q.pending /\ r.tried = q.tried /\ r.excluded = q.excluded /\ r.shut = q.shut
      /\ r.blocked = q.blocked /\ r.offline = q.offline /\ r.lane = [q.lane EXCEPT !["fallback"] = [at |-> "starting", held |-> NoBatch]]
  BY <1>2 DEF IsRecord, SendFields, LaneAt
<1>4. r.lane["primary"] = q.lane["primary"] /\ r.lane["fallback"].at = "starting"
  BY <1>1, <1>3 DEF Lanes
<1>5. Store(s, r)
  BY DEF Timer, a
<1> HIDE DEF r
<1>6. race.early
  BY <1>0, <1>1 DEF LeftOK, RoutesOK, FinalInv, IInv, IsRace
<1>7. RacesOK(r, race)
  BY <1>0, <1>3, <1>4 DEF LeftOK, RacesOK, Stopped, Current
<1>8. LeftOK(r, race) /\ Evolves(q, r)
  BY <1>3, <1>6, <1>7 DEF LeftOK, FailsOK, RoutesOK, RestsOK, Evolves
<1>9. IInv'
  BY TimerKeeps DEF FinalInv, FinalAssumptions
<1> QED BY <1>0, <1>5, <1>8, <1>9, StoreLeft

LEMMA FallbackStartsLeft ==
    ASSUME FinalAssumptions, FinalInv, NEW s \in Sends, FallbackStarts(s)
    PROVE  FinalInv'
<1> DEFINE q == send[s]
<1>0. SendOK(q, race) /\ LeftOK(q, race) /\ race' = race /\ q.state = "running" /\ q.lane["fallback"].at = "starting" /\ Started(q)
  BY DEF FinalInv, IInv, FallbackStarts, Running, Started
<1>1. race.early
  BY <1>0 DEF LeftOK, RoutesOK, FinalInv, IInv, IsRace
<1>2. IInv'
  BY FallbackStartsKeeps DEF FinalInv, FinalAssumptions
<1>3. CASE (Stopped(q) \/ FallbackBatches(s) = {}) /\ Store(s, EndsLane(q, "fallback", Unavailable(s)))
  <2>1. FallbackBatches(s) = {} => q.pending = {} \/ race.fallback \subseteq q.tried \union Unavailable(s)
    BY NoFallbackLeft DEF FinalInv
  <2>2. Exhausted(q, "fallback", Unavailable(s))
    BY <1>3, <2>1 DEF Exhausted
  <2>3. LeftOK(EndsLane(q, "fallback", Unavailable(s)), race) /\ Evolves(q, EndsLane(q, "fallback", Unavailable(s)))
    BY <1>0, <1>1, <2>2, EndsLaneLeft DEF Lanes
  <2> QED BY <1>0, <1>2, <1>3, <2>3, StoreLeft
<1>4. ASSUME NEW b, Store(s, [q EXCEPT !.lane["fallback"] = [at |-> "opening", held |-> b]])
      PROVE  FinalInv'
  <2> DEFINE x == [at |-> "opening", held |-> b]
             r == [q EXCEPT !.lane = [@ EXCEPT !["fallback"] = x]]
  <2>0. IsRecord(q, SendFields) /\ q.lane = [l \in Lanes |-> q.lane[l]]
    BY <1>0 DEF SendOK, TypedOK, LanesOK
  <2>1. /\ r.state = q.state /\ r.flag = q.flag /\ r.live = q.live /\ r.of = q.of /\ r.timer = q.timer /\ r.pending = q.pending /\ r.tried = q.tried
        /\ r.excluded = q.excluded /\ r.shut = q.shut /\ r.blocked = q.blocked /\ r.offline = q.offline
        /\ r.lane = [q.lane EXCEPT !["fallback"] = x]
    BY <2>0 DEF IsRecord, SendFields
  <2>2. \A l \in Lanes : r.lane[l].at = IF l = "fallback" THEN "opening" ELSE q.lane[l].at
    BY <2>0, <2>1
  <2>3. Store(s, r)
    BY <1>4
  <2> HIDE DEF r
  <2>4. Further(q, r)
    BY <2>1, <2>2 DEF Further
  <2> QED BY <1>0, <1>2, <2>3, <2>4, FurtherKeeps
<1>5. \/ (Stopped(q) \/ FallbackBatches(s) = {}) /\ Store(s, EndsLane(q, "fallback", Unavailable(s)))
      \/ \E b \in FallbackBatches(s) : Store(s, [q EXCEPT !.lane["fallback"] = [at |-> "opening", held |-> b]])
  BY DEF FallbackStarts
<1> QED BY <1>3, <1>4, <1>5

LEMMA LaneNextLeft ==
    ASSUME FinalAssumptions, FinalInv, NEW s \in Sends, NEW l \in Lanes, LaneNext(s, l)
    PROVE  FinalInv'
<1> DEFINE q == send[s]
           cut == [q EXCEPT !.shut = Unavailable(s)]
           dead == [q EXCEPT !.state = "thrown"]
           next == NextBatches(s, l)
<1>0. SendOK(q, race) /\ LeftOK(q, race) /\ IsRace(race) /\ race' = race /\ q.state = "running" /\ Started(q) /\ IsRecord(q, SendFields)
  BY DEF FinalInv, IInv, LaneNext, Running, Started, SendOK, TypedOK
<1>1. IInv'
  BY LaneNextKeeps DEF FinalInv, FinalAssumptions
<1>2. \/ race.early /\ (Stopped(q) \/ next = {}) /\ Store(s, EndsLane(q, l, Unavailable(s)))
      \/ \E b \in next : Store(s, Launch(q, l, b))
      \/ ~race.early /\ (next = {} \/ ~Current(q)) /\ Store(s, Finish(cut, FALSE))
      \/ Store(s, dead)
      \/ q.live = "paused" /\ \E b \in next : Store(s, Finish(Cancelled(Launch(q, l, b)), FALSE))
  <2> HIDE DEF cut, dead, next
  <2> QED BY DEF LaneNext, cut, dead, next
<1>3. CASE race.early /\ (Stopped(q) \/ next = {}) /\ Store(s, EndsLane(q, l, Unavailable(s)))
  <2>1. next = {} => IF l = "primary" THEN PrimaryBatches(s, PerReceiver) = {} ELSE FallbackBatches(s) = {}
    BY <1>3 DEF NextBatches
  <2>2. next = {} /\ l = "primary" => \A c \in q.pending : race.primary[c] \subseteq q.tried \union Unavailable(s)
    BY <2>1, NoPrimaryLeft DEF FinalInv, FinalAssumptions
  <2>3. next = {} /\ l = "fallback" => q.pending = {} \/ race.fallback \subseteq q.tried \union Unavailable(s)
    BY <2>1, NoFallbackLeft DEF FinalInv
  <2>4. Exhausted(q, l, Unavailable(s))
    BY <1>3, <2>2, <2>3 DEF Exhausted, Lanes
  <2> HIDE DEF next
  <2>5. LeftOK(EndsLane(q, l, Unavailable(s)), race) /\ Evolves(q, EndsLane(q, l, Unavailable(s)))
    BY <1>0, <1>3, <2>4, EndsLaneLeft
  <2> QED BY <1>0, <1>1, <1>3, <2>5, StoreLeft
<1>4. ASSUME NEW b \in next, Store(s, Launch(q, l, b)) PROVE FinalInv'
  <2>1. Further(q, Launch(q, l, b))
    BY <1>0, LaunchFurther
  <2> QED BY <1>0, <1>1, <1>4, <2>1, FurtherKeeps
<1>5. CASE ~race.early /\ (next = {} \/ ~Current(q)) /\ Store(s, Finish(cut, FALSE))
  <2>1. /\ IsRecord(cut, SendFields) /\ cut.live = q.live /\ cut.of = q.of /\ cut.pending = q.pending /\ cut.tried = q.tried
        /\ cut.excluded = q.excluded /\ cut.shut = Unavailable(s)
    BY <1>0 DEF IsRecord, SendFields
  <2>2. Store(s, Finish(cut, FALSE))
    BY <1>5
  <2> HIDE DEF cut
  <2>3. next = {} => Spent(cut, race)
    <3>1. next = {} => StagedBatches(s) = {}
      BY <1>5 DEF NextBatches
    <3>2. next = {} => \A c \in q.pending : race.primary[c] \union race.fallback \subseteq Unavailable(s) \union q.tried
      BY <3>1, NothingStagedLeft DEF FinalInv
    <3> QED BY <2>1, <3>2 DEF Spent
  <2>4. Stopped(cut) \/ Spent(cut, race)
    BY <1>5, <2>1, <2>3 DEF Stopped, Current
  <2>5. LeftOK(Finish(cut, FALSE), race) /\ Evolves(cut, Finish(cut, FALSE))
    BY <2>1, <2>4, FinishLeft
  <2>6. Evolves(q, Finish(cut, FALSE))
    BY <2>1, <2>5 DEF Evolves
  <2> QED BY <1>0, <1>1, <2>2, <2>5, <2>6, StoreLeft
<1>6. CASE Store(s, dead)
  <2>1. dead.state = "thrown" /\ dead.of = q.of /\ dead.live = q.live /\ dead.excluded = q.excluded
    BY <1>0 DEF IsRecord, SendFields
  <2> HIDE DEF dead
  <2>2. LeftOK(dead, race) /\ Evolves(q, dead)
    BY <2>1 DEF LeftOK, FailsOK, RacesOK, RoutesOK, RestsOK, Evolves
  <2> QED BY <1>0, <1>1, <1>6, <2>2, StoreLeft
<1>7. ASSUME q.live = "paused", NEW b \in next, Store(s, Finish(Cancelled(Launch(q, l, b)), FALSE)) PROVE FinalInv'
  <2> DEFINE a == Launch(q, l, b)
             c == Cancelled(a)
  <2>1. Further(q, a) /\ IsRecord(a, SendFields)
    BY <1>0, LaunchFurther
  <2>2. Store(s, Finish(c, FALSE))
    BY <1>7
  <2> HIDE DEF a
  <2>3. Further(a, c) /\ IsRecord(c, SendFields)
    BY <2>1, CancelledFurther
  <2> HIDE DEF c
  <2>4. Further(q, c)
    BY <2>1, <2>3, Further2
  <2>5. Stopped(c) /\ Evolves(q, c)
    BY <1>7, <2>4 DEF Further, Stopped, Current, Evolves
  <2>6. LeftOK(Finish(c, FALSE), race) /\ Evolves(c, Finish(c, FALSE))
    BY <2>3, <2>5, FinishLeft
  <2>7. Evolves(q, Finish(c, FALSE))
    BY <2>5, <2>6 DEF Evolves
  <2> QED BY <1>0, <1>1, <2>2, <2>6, <2>7, StoreLeft
<1> HIDE DEF cut, dead, next
<1> QED BY <1>2, <1>3, <1>4, <1>5, <1>6, <1>7

LEMMA ProbeLeft ==
    ASSUME FinalAssumptions, FinalInv, NEW s \in Sends, NEW connected \in BOOLEAN, Probe(s, connected)
    PROVE  FinalInv'
<1> DEFINE q == send[s]
           on == connected /\ Current(q)
           asking == {l \in Waiting(q) : q.lane[l].at = "asking"}
           failed == UNION {q.lane[l].held.relays : l \in asking}
           lanes == [l \in Lanes |-> IF l \in asking THEN [at |-> "ready", held |-> NoBatch]
                                     ELSE IF l \in Waiting(q) THEN [q.lane[l] EXCEPT !.at = "ready"] ELSE q.lane[l]]
           off == q.offline \/ (Current(q) /\ ~connected)
           heard == [q EXCEPT !.offline = off, !.lane = lanes]
           told == IF on THEN Remembered(heard, failed) ELSE heard
           lost == [heard EXCEPT !.offline = TRUE]
<1>0. SendOK(q, race) /\ LeftOK(q, race) /\ IsRace(race) /\ race' = race /\ q.state = "running" /\ Started(q) /\ IsRecord(q, SendFields)
  BY DEF FinalInv, IInv, Probe, Running, Started, SendOK, TypedOK
<1>1. IInv'
  BY ProbeKeeps DEF FinalInv, FinalAssumptions
<1>2. \/ (race.early /\ ~on /\ Store(s, EndsLane(told, "fallback", {}))) \/ Store(s, told) \/ Store(s, heard) \/ Store(s, Finish(lost, FALSE))
  BY DEF Probe
<1>3. Further(q, heard) /\ IsRecord(heard, SendFields) /\ heard.offline = off
  <2>1. /\ IsRecord(heard, SendFields) /\ heard.state = q.state /\ heard.flag = q.flag /\ heard.live = q.live /\ heard.of = q.of
        /\ heard.timer = q.timer /\ heard.pending = q.pending /\ heard.tried = q.tried
        /\ heard.excluded = q.excluded /\ heard.shut = q.shut /\ heard.blocked = q.blocked /\ heard.offline = off /\ heard.lane = lanes
    BY <1>0 DEF IsRecord, SendFields
  <2>2. ASSUME NEW l \in Lanes PROVE lanes[l].at = q.lane[l].at \/ lanes[l].at = "ready"
    <3>1. LaneOK(q.lane[l], q.whole, race)
      BY <1>0 DEF SendOK, LanesOK
    <3>2. [q.lane[l] EXCEPT !.at = "ready"].at = "ready"
      BY <3>1 DEF LaneOK, IsRecord
    <3> QED BY <3>2
  <2> HIDE DEF heard, lanes, off
  <2> QED BY <2>1, <2>2 DEF Further, off
<1>4. CASE race.early /\ ~on /\ Store(s, EndsLane(told, "fallback", {}))
  <2>1. told = heard
    BY <1>4
  <2>2. SendOK(heard, race)
    <3>1. Dressed(heard) /\ Alike(q, heard) /\ heard.lane = lanes /\ heard.state = "running"
      BY <1>0, IsDressed DEF Dressed, IsRecord, SendFields, Alike
    <3>2. ASSUME NEW l \in Lanes PROVE LaneOK(lanes[l], q.whole, race)
      <4>1. LaneOK(q.lane[l], q.whole, race)
        BY <1>0 DEF SendOK, LanesOK
      <4>2. LaneOK([at |-> "ready", held |-> NoBatch], q.whole, race)
        BY DEF LaneOK, IsRecord
      <4>3. LaneOK([q.lane[l] EXCEPT !.at = "ready"], q.whole, race)
        BY <4>1 DEF LaneOK, IsRecord
      <4> HIDE DEF asking
      <4> QED BY <4>1, <4>2, <4>3
    <3>3. lanes = [l \in Lanes |-> lanes[l]]
      OBVIOUS
    <3> HIDE DEF heard, lanes
    <3>4. LanesFit(heard, q.whole)
      BY <3>1, <3>2, <3>3 DEF LanesFit
    <3> QED BY <1>0, <3>1, <3>4, AlikeOK DEF Started
  <2> HIDE DEF told
  <2>3. LeftOK(heard, race) /\ Evolves(q, heard) /\ heard.state = "running"
    BY <1>0, <1>3, FurtherLeft DEF Further
  <2>4. heard.live = q.live
    BY <1>3 DEF Further
  <2> HIDE DEF heard
  <2>5. Stopped(heard)
    BY <1>3, <1>4, <2>4 DEF Stopped, Current
  <2>6. LeftOK(EndsLane(heard, "fallback", {}), race) /\ Evolves(heard, EndsLane(heard, "fallback", {}))
    BY <1>4, <2>2, <2>3, <2>5, EndsLaneLeft DEF Exhausted, Lanes
  <2>7. Evolves(q, EndsLane(heard, "fallback", {}))
    BY <2>3, <2>6 DEF Evolves
  <2> QED BY <1>0, <1>1, <1>4, <2>1, <2>6, <2>7, StoreLeft
<1> HIDE DEF heard, failed
<1>5. Further(q, told)
  <2>1. Further(heard, Remembered(heard, failed))
    BY <1>3 DEF Further, Remembered, IsRecord, SendFields
  <2> QED BY <1>3, <2>1, Further2
<1>6. CASE Store(s, told) \/ Store(s, heard)
  <2> HIDE DEF told
  <2> QED BY <1>0, <1>1, <1>3, <1>5, <1>6, FurtherKeeps
<1>7. CASE Store(s, Finish(lost, FALSE))
  <2>1. IsRecord(lost, SendFields) /\ lost.offline = TRUE /\ lost.live = heard.live /\ lost.of = heard.of /\ lost.excluded = heard.excluded
    BY <1>3 DEF IsRecord, SendFields
  <2> HIDE DEF lost
  <2>2. LeftOK(Finish(lost, FALSE), race) /\ Evolves(lost, Finish(lost, FALSE))
    BY <2>1, FinishLeft DEF Stopped
  <2>3. Evolves(q, Finish(lost, FALSE))
    BY <1>3, <2>1, <2>2 DEF Evolves, Further
  <2> QED BY <1>0, <1>1, <1>7, <2>2, <2>3, StoreLeft
<1> HIDE DEF told, lost
<1> QED BY <1>2, <1>4, <1>6, <1>7

LEMMA LateProbeLeft ==
    ASSUME FinalAssumptions, FinalInv, NEW s \in Sends, NEW p \in send[s].pubs, NEW connected \in BOOLEAN, LateProbe(s, p, connected)
    PROVE  FinalInv'
<1> DEFINE q == Report(send[s], p, "settled")
<1>0. SendOK(send[s], race) /\ race' = race /\ IsRecord(send[s], SendFields) /\ Started(send[s])
  BY DEF FinalInv, IInv, LateProbe, SendOK, TypedOK, PubsOK, Unstarted, Started
<1>1. IInv'
  BY LateProbeKeeps DEF FinalInv, FinalAssumptions
<1>2. Store(s, q) \/ Store(s, Remembered(q, p.relays))
  BY DEF LateProbe
<1>3. Further(send[s], q) /\ IsRecord(q, SendFields)
  <2>1. IsRecord(q, SendFields)
    BY <1>0 DEF Report, IsRecord, SendFields
  <2> QED BY <1>0, <2>1, ReportFurther
<1> HIDE DEF q
<1>4. Further(q, Remembered(q, p.relays))
  BY <1>3 DEF Further, Remembered, IsRecord, SendFields
<1>5. Further(send[s], Remembered(q, p.relays))
  BY <1>3, <1>4, Further2
<1> QED BY <1>0, <1>1, <1>2, <1>3, <1>5, FurtherKeeps

LEMMA CoverLeft ==
    ASSUME NEW q, SendOK(q, race), LeftOK(q, race), Started(q), NEW p \in q.pubs
    PROVE  LeftOK(Cover(q, p), race) /\ Evolves(q, Cover(q, p)) /\ Started(Cover(q, p))
<1>1. CASE q.state # "running"
  BY <1>1 DEF Cover, Running, Evolves
<1>2. CASE q.state = "running"
  <2> DEFINE a == LaneAt(q, p.by, "ready")
             r == [a EXCEPT !.pending = @ \ p.recv]
  <2>0. PubOK(p, q, race) /\ IsRecord(q, SendFields)
    BY DEF SendOK, PubsOK, TypedOK
  <2>1. Further(q, a) /\ a = [q EXCEPT !.lane = a.lane]
    BY <2>0, LaneAtFurther, LaneAtOK DEF PubOK
  <2> HIDE DEF a
  <2>2. /\ IsRecord(r, SendFields) /\ r.state = a.state /\ r.flag = a.flag /\ r.live = a.live /\ r.of = a.of /\ r.timer = a.timer
        /\ r.pending = a.pending \ p.recv /\ r.tried = a.tried /\ r.excluded = a.excluded /\ r.shut = a.shut /\ r.blocked = a.blocked
        /\ r.offline = a.offline /\ r.lane = a.lane
    BY <2>0, <2>1 DEF IsRecord, SendFields
  <2>3. Cover(q, p) = IF r.pending = {} THEN Finish(r, TRUE) ELSE r
    BY <1>2 DEF Cover, Running, a
  <2> HIDE DEF r
  <2>4. Further(a, r)
    BY <2>2 DEF Further
  <2>5. Further(q, r)
    BY <2>1, <2>4, Further2
  <2>6. LeftOK(r, race) /\ Evolves(q, r)
    BY <2>5, FurtherLeft
  <2>7. LeftOK(Finish(r, TRUE), race) /\ Evolves(r, Finish(r, TRUE))
    BY <2>2, FinishLeft
  <2>8. Finish(r, TRUE).state = "yes"
    BY <2>2 DEF Finish, IsRecord, SendFields
  <2>9. r.state = "running"
    BY <1>2, <2>5 DEF Further
  <2> QED BY <2>3, <2>6, <2>7, <2>8, <2>9 DEF Evolves, Started
<1> QED BY <1>1, <1>2

LEMMA RejectedLeft ==
    ASSUME FinalAssumptions, FinalInv, NEW s \in Sends, NEW q, SendOK(q, race), LeftOK(q, race), Started(q), Further(send[s], q), NEW p \in q.pubs
    PROVE  LeftOK(Rejected(s, q, p), race) /\ Evolves(q, Rejected(s, q, p))
<1> DEFINE failed == Failed(q, p.relays)
           others == [q EXCEPT !.excluded = @ \union failed]
           bare == [q EXCEPT !.blocked = TRUE]
           stuck == [others EXCEPT !.blocked = TRUE]
           shut == [others EXCEPT !.shut = Unavailable(s)]
<1>1. CASE ~Running(q)
  BY <1>1 DEF Rejected, Evolves
<1>2. CASE Running(q)
  <2>0. q.state = "running" /\ PubOK(p, q, race) /\ p.by \in Lanes /\ IsRecord(q, SendFields) /\ IsRace(race) /\ Dressed(q)
    BY <1>2, IsDressed DEF Running, SendOK, PubsOK, PubOK, TypedOK, FinalInv, IInv
  <2>1. failed \subseteq Pool(race)
    BY <2>0, UnavailableFits DEF Failed, FinalInv, IInv
  <2>2. \/ Rejected(s, q, p) \in {LaneAt(bare, p.by, "ready"), Asking(q, p), Finish(stuck, FALSE), Asking(others, p)}
        \/ StagedBatches(s) = {} /\ Rejected(s, q, p) = Finish(shut, FALSE)
    BY <1>2 DEF Rejected
  <2> HIDE DEF failed
  <2>3. Further(q, others) /\ Further(q, bare) /\ IsRecord(others, SendFields)
    BY <2>0 DEF IsRecord, SendFields, Further
  <2>4. Touched(q, others) /\ Touched(q, bare)
    BY <2>0, <2>1 DEF Dressed, IsRecord, SendFields, Alike, Touched
  <2>5. SendOK(others, race) /\ SendOK(bare, race) /\ others.pubs = q.pubs
    BY <2>4, TouchedOK DEF Touched, Alike
  <2>6. /\ stuck.blocked = TRUE /\ IsRecord(stuck, SendFields) /\ stuck.of = others.of /\ stuck.live = others.live /\ stuck.excluded = others.excluded
    BY <2>3 DEF IsRecord, SendFields
  <2>7. /\ IsRecord(shut, SendFields) /\ shut.of = others.of /\ shut.live = others.live /\ shut.excluded = others.excluded
        /\ shut.shut = Unavailable(s) /\ shut.pending = others.pending /\ shut.tried = others.tried
    BY <2>3 DEF IsRecord, SendFields
  <2>8. others.pending = q.pending /\ others.tried = q.tried
    BY <2>4 DEF Touched, Alike
  <2> HIDE DEF others, bare, stuck, shut
  <2>9. Further(q, LaneAt(bare, p.by, "ready"))
    <3>1. Further(bare, LaneAt(bare, p.by, "ready"))
      BY <2>0, <2>5, LaneAtFurther
    <3> QED BY <2>3, <3>1, Further2
  <2>10. Further(q, Asking(q, p))
    BY AskingFurther
  <2>11. Further(q, Asking(others, p))
    <3>1. Further(others, Asking(others, p))
      BY <2>5, AskingFurther
    <3> QED BY <2>3, <3>1, Further2
  <2>12. LeftOK(Finish(stuck, FALSE), race) /\ Evolves(q, Finish(stuck, FALSE))
    <3>1. LeftOK(Finish(stuck, FALSE), race) /\ Evolves(stuck, Finish(stuck, FALSE))
      BY <2>6, FinishLeft DEF Stopped
    <3> QED BY <2>3, <2>6, <3>1 DEF Evolves, Further
  <2>13. StagedBatches(s) = {} => LeftOK(Finish(shut, FALSE), race) /\ Evolves(q, Finish(shut, FALSE))
    <3> SUFFICES ASSUME StagedBatches(s) = {} PROVE LeftOK(Finish(shut, FALSE), race) /\ Evolves(q, Finish(shut, FALSE))
      OBVIOUS
    <3>1. \A c \in send[s].pending : race.primary[c] \union race.fallback \subseteq Unavailable(s) \union send[s].tried
      BY NothingStagedLeft DEF FinalInv
    <3>2. Spent(shut, race)
      BY <2>7, <2>8, <3>1 DEF Spent, Further
    <3>3. LeftOK(Finish(shut, FALSE), race) /\ Evolves(shut, Finish(shut, FALSE))
      BY <2>7, <3>2, FinishLeft
    <3> QED BY <2>3, <2>7, <3>3 DEF Evolves, Further
  <2>14. \A r : Further(q, r) => LeftOK(r, race) /\ Evolves(q, r)
    BY FurtherLeft
  <2> QED BY <2>2, <2>9, <2>10, <2>11, <2>12, <2>13, <2>14
<1> QED BY <1>1, <1>2

LEMMA SettleLeft ==
    ASSUME FinalAssumptions, FinalInv, NEW s \in Sends, NEW q, SendOK(q, race), LeftOK(q, race), Started(q), Evolves(send[s], q),
           NEW p \in q.pubs, Accepted(q, p) \/ Further(send[s], q), Settle(s, q, p), race' = race, IInv'
    PROVE  FinalInv'
<1> DEFINE told == IF Accepted(q, p) THEN q ELSE Rejected(s, q, p)
<1>1. SendOK(told, race)
  BY RejectedOK DEF FinalInv, IInv
<1>2. LeftOK(told, race) /\ Evolves(q, told)
  BY RejectedLeft DEF Evolves
<1>3. \E to \in {"probing", "settled"} : Store(s, Report(told, p, to))
  BY DEF Settle
<1> HIDE DEF told
<1>4. PICK to : Store(s, Report(told, p, to))
  BY <1>3
<1>5. Same(told, Report(told, p, to))
  BY <1>1 DEF SendOK, TypedOK, IsRecord, SendFields, Report, Same
<1>6. LeftOK(Report(told, p, to), race) /\ Evolves(told, Report(told, p, to))
  BY <1>2, <1>5, SameLeft
<1>7. Evolves(send[s], Report(told, p, to))
  BY <1>2, <1>6 DEF Evolves
<1> QED BY <1>4, <1>6, <1>7, StoreLeft

LEMMA AnswerLeft ==
    ASSUME FinalAssumptions, FinalInv, NEW s \in Sends, NEW x \in Targets, NEW v, Answer(s, x, v)
    PROVE  FinalInv'
<1> DEFINE p == PubOf(send[s], x)
           heard == [send[s] EXCEPT !.answer[x] = v]
           q == IF v = "ok" /\ ~Accepted(send[s], p) THEN Cover(heard, p) ELSE heard
<1>0. SendOK(send[s], race) /\ LeftOK(send[s], race) /\ race' = race /\ send[s].answer[x] = "asked"
  BY DEF FinalInv, IInv, Answer
<1>1. p \in send[s].pubs /\ x \in p.relays
  BY <1>0 DEF PubOf, SendOK, PubsOK
<1>2. SendOK(heard, race) /\ heard.pubs = send[s].pubs /\ heard.answer[x] = v /\ heard.state = send[s].state
  BY <1>0, HeardOK
<1>3. Started(send[s]) /\ Started(heard)
  BY <1>0, <1>1, <1>2 DEF SendOK, TypedOK, PubsOK, Unstarted, Started
<1>4. Further(send[s], heard)
  BY <1>0 DEF SendOK, TypedOK, IsRecord, SendFields, Further
<1>5. \/ Store(s, q) \/ Settle(s, q, p)
      \/ Store(s, Report([q EXCEPT !.resigned = TRUE], p, "signing"))
  BY DEF Answer
<1>6. IInv'
  BY AnswerKeeps DEF FinalInv, FinalAssumptions
<1> HIDE DEF p, heard
<1>7. LeftOK(heard, race) /\ Evolves(send[s], heard)
  BY <1>0, <1>3, <1>4, FurtherLeft
<1>8. SendOK(q, race) /\ q.pubs = send[s].pubs /\ (v = "ok" => q.answer[x] = "ok")
  BY <1>1, <1>2, CoverFits
<1>9. LeftOK(q, race) /\ Evolves(send[s], q) /\ Started(q)
  BY <1>1, <1>2, <1>3, <1>7, CoverLeft DEF Evolves
<1>10. Accepted(q, p) \/ Further(send[s], q)
  BY <1>1, <1>4, <1>8 DEF Accepted
<1> HIDE DEF q
<1>11. CASE Store(s, q)
  BY <1>0, <1>6, <1>9, <1>11, StoreLeft
<1>12. CASE Settle(s, q, p)
  BY <1>0, <1>1, <1>6, <1>8, <1>9, <1>10, <1>12, SettleLeft
<1>13. CASE Store(s, Report([q EXCEPT !.resigned = TRUE], p, "signing"))
  <2> DEFINE r == Report([q EXCEPT !.resigned = TRUE], p, "signing")
  <2>1. Same(q, r)
    BY <1>8 DEF SendOK, TypedOK, IsRecord, SendFields, Report, Same
  <2>2. Store(s, r)
    BY <1>13
  <2> HIDE DEF r
  <2>3. LeftOK(r, race) /\ Evolves(q, r)
    BY <1>9, <2>1, SameLeft
  <2>4. Evolves(send[s], r)
    BY <1>9, <2>3 DEF Evolves
  <2> QED BY <1>0, <1>6, <2>2, <2>3, <2>4, StoreLeft
<1> QED BY <1>5, <1>11, <1>12, <1>13

LEMMA ResignedLeft ==
    ASSUME FinalAssumptions, FinalInv, NEW s \in Sends, NEW p \in send[s].pubs, Resigned(s, p)
    PROVE  FinalInv'
<1> DEFINE q == send[s]
           a == [q EXCEPT !.answer = [x \in Targets |-> IF x \in p.relays THEN "native" ELSE @[x]]]
           again == [q EXCEPT !.answer = [x \in Targets |-> IF x \in p.relays THEN "asked" ELSE @[x]]]
<1>0. SendOK(q, race) /\ LeftOK(q, race) /\ race' = race /\ p.report = "signing" /\ IsRecord(q, SendFields)
  BY DEF FinalInv, IInv, Resigned, SendOK, TypedOK
<1>1. IInv'
  BY ResignedKeeps DEF FinalInv, FinalAssumptions
<1>2. \A x \in p.relays : q.answer[x] # "ok"
  BY <1>0 DEF SendOK, PubsOK, PubOK
<1>3. SendOK(a, race) /\ a.pubs = q.pubs /\ a.state = q.state
  BY <1>0, <1>2, AskedAgainOK
<1>4. Further(q, a) /\ Further(q, again) /\ IsRecord(again, SendFields)
  BY <1>0 DEF IsRecord, SendFields, Further
<1>5. Settle(s, a, p) \/ Store(s, Report(again, p, "open"))
  BY DEF Resigned
<1> HIDE DEF a, again
<1>6. Started(q) /\ Started(a)
  BY <1>0, <1>3 DEF SendOK, TypedOK, PubsOK, Unstarted, Started
<1>7. CASE Settle(s, a, p)
  <2>1. LeftOK(a, race) /\ Evolves(q, a)
    BY <1>0, <1>4, <1>6, FurtherLeft
  <2> QED BY <1>0, <1>1, <1>3, <1>4, <1>6, <1>7, <2>1, SettleLeft
<1>8. CASE Store(s, Report(again, p, "open"))
  <2>1. Further(again, Report(again, p, "open"))
    BY <1>4, ReportFurther
  <2>2. Further(q, Report(again, p, "open"))
    BY <1>4, <2>1, Further2
  <2> QED BY <1>0, <1>1, <1>6, <1>8, <2>2, FurtherKeeps
<1> QED BY <1>5, <1>7, <1>8

LEMMA ResignFailsLeft ==
    ASSUME FinalAssumptions, FinalInv, NEW s \in Sends, NEW p \in send[s].pubs, ResignFails(s, p)
    PROVE  FinalInv'
<1> DEFINE q == send[s]
           dead == [q EXCEPT !.state = "thrown", !.timer = FALSE]
           r == IF Running(q) THEN dead ELSE q
<1>0. LeftOK(q, race) /\ race' = race /\ IsRecord(q, SendFields)
  BY DEF FinalInv, IInv, ResignFails, SendOK, TypedOK
<1>1. IInv'
  BY ResignFailsKeeps DEF FinalInv, FinalAssumptions
<1>2. dead.state = "thrown" /\ dead.of = q.of /\ dead.live = q.live /\ dead.excluded = q.excluded /\ IsRecord(dead, SendFields)
  BY <1>0 DEF IsRecord, SendFields
<1>3. Store(s, Report(r, p, "lost"))
  BY DEF ResignFails
<1> HIDE DEF dead
<1>4. LeftOK(dead, race) /\ Evolves(q, dead)
  BY <1>2 DEF LeftOK, FailsOK, RacesOK, RoutesOK, RestsOK, Evolves
<1>5. LeftOK(r, race) /\ Evolves(q, r) /\ IsRecord(r, SendFields)
  BY <1>0, <1>2, <1>4 DEF Evolves
<1> HIDE DEF r
<1>6. Same(r, Report(r, p, "lost"))
  BY <1>5 DEF IsRecord, SendFields, Report, Same
<1>7. LeftOK(Report(r, p, "lost"), race) /\ Evolves(q, Report(r, p, "lost"))
  BY <1>5, <1>6, SameLeft DEF Evolves
<1> QED BY <1>0, <1>1, <1>3, <1>7, StoreLeft

LEMMA PublishLeft ==
    ASSUME FinalAssumptions, FinalInv, NEW s \in Sends, Publish(s)
    PROVE  FinalInv'
<1> DEFINE q == send[s]
           first == q.lane["primary"].held.relays \ Unavailable(s)
           held == IF first = {} THEN NoBatch ELSE [recv |-> q.recv, relays |-> first]
           r == [q EXCEPT !.state = "running", !.pending = q.recv, !.timer = race.early, !.lane["primary"].held = held]
<1>0. SendOK(q, race) /\ LeftOK(q, race) /\ race' = race /\ q.state = "resolved" /\ IsRecord(q, SendFields)
  BY DEF FinalInv, IInv, Publish, SendOK, TypedOK
<1>1. IInv'
  BY PublishKeeps DEF FinalInv, FinalAssumptions
<1>2. Store(s, IF race.early /\ ~Current(q) THEN Finish(r, FALSE) ELSE r)
  BY DEF Publish
<1>3. /\ IsRecord(r, SendFields) /\ r.state = "running" /\ r.live = q.live /\ r.of = q.of /\ r.timer = race.early /\ r.excluded = q.excluded
      /\ r.lane = [q.lane EXCEPT !["primary"] = [@ EXCEPT !.held = held]]
  BY <1>0 DEF IsRecord, SendFields
<1> HIDE DEF held, r
<1>4. r.lane["primary"].at = "ready" /\ r.lane["fallback"].at = "idle"
  <2>1. q.lane = [l \in Lanes |-> q.lane[l]] /\ IsRecord(q.lane["primary"], {"at", "held"})
    BY <1>0 DEF SendOK, LanesOK, LaneOK, Lanes
  <2>2. r.lane["primary"] = [q.lane["primary"] EXCEPT !.held = held] /\ r.lane["fallback"] = q.lane["fallback"]
    BY <1>3, <2>1 DEF Lanes
  <2>3. [q.lane["primary"] EXCEPT !.held = held].at = q.lane["primary"].at
    BY <2>1 DEF IsRecord
  <2> QED BY <1>0, <2>2, <2>3 DEF LeftOK, RestsOK
<1>5. race.early \in BOOLEAN
  BY DEF FinalInv, IInv, IsRace
<1>6. LeftOK(r, race) /\ Evolves(q, r)
  BY <1>3, <1>4, <1>5 DEF LeftOK, FailsOK, RacesOK, RoutesOK, RestsOK, Evolves
<1>7. ~Current(q) => LeftOK(Finish(r, FALSE), race) /\ Evolves(q, Finish(r, FALSE))
  <2> SUFFICES ASSUME ~Current(q) PROVE LeftOK(Finish(r, FALSE), race) /\ Evolves(q, Finish(r, FALSE))
    OBVIOUS
  <2>1. Stopped(r)
    BY <1>3 DEF Stopped, Current
  <2>2. LeftOK(Finish(r, FALSE), race) /\ Evolves(r, Finish(r, FALSE))
    BY <1>3, <2>1, FinishLeft
  <2> QED BY <1>6, <2>2 DEF Evolves
<1> QED BY <1>0, <1>1, <1>2, <1>6, <1>7, StoreLeft

(* The send of a batch has everything left. *)
LEMMA BegunLeft ==
    ASSUME NEW q, IsRecord(q, SendFields), q.lane = [l \in Lanes |-> q.lane[l]], q.lane["fallback"].at = "idle", NEW b
    PROVE  LeftOK(Begun(q, b), race) /\ Evolves(q, Begun(q, b)) /\ Begun(q, b).excluded = q.excluded
<1> DEFINE x == [at |-> "ready", held |-> b]
           r == Begun(q, b)
<1>1. r.state = "resolved" /\ r.of = q.of /\ r.live = q.live /\ r.excluded = q.excluded /\ r.lane = [q.lane EXCEPT !["primary"] = x]
  BY DEF Begun, IsRecord, SendFields
<1>2. x.at = "ready"
  OBVIOUS
<1> HIDE DEF r, x
<1>3. r.lane["primary"].at = "ready" /\ r.lane["fallback"].at = "idle"
  BY <1>1, <1>2 DEF Lanes
<1> QED BY <1>1, <1>3 DEF LeftOK, FailsOK, RacesOK, RoutesOK, RestsOK, Evolves, r

LEMMA ResolveLeft ==
    ASSUME FinalAssumptions, FinalInv, NEW s \in Sends, Resolve(s)
    PROVE  FinalInv'
<1> DEFINE q == send[s]
<1>0. /\ SendOK(q, race) /\ LeftOK(q, race) /\ race' = race /\ q.state = "idle" /\ IsRecord(q, SendFields)
      /\ q.lane = [l \in Lanes |-> q.lane[l]] /\ q.lane["fallback"].at = "idle" /\ q.of = NoBatch
  BY DEF FinalInv, IInv, Resolve, SendOK, TypedOK, LanesOK, LeftOK, RestsOK
<1>1. IInv'
  BY ResolveKeeps DEF FinalInv, FinalAssumptions
<1>2. Store(s, [q EXCEPT !.state = "refused"]) \/ \E todo, b : Store(s, Begun([q EXCEPT !.of = s, !.todo = todo], b))
  BY DEF Resolve
<1>3. CASE Store(s, [q EXCEPT !.state = "refused"])
  <2> DEFINE r == [q EXCEPT !.state = "refused"]
  <2>1. r.state = "refused" /\ r.of = q.of /\ r.live = q.live /\ r.excluded = q.excluded
    BY <1>0 DEF IsRecord, SendFields
  <2> HIDE DEF r
  <2>2. LeftOK(r, race) /\ Evolves(q, r)
    BY <2>1 DEF LeftOK, FailsOK, RacesOK, RoutesOK, RestsOK, Evolves
  <2>3. Store(s, r)
    BY <1>3 DEF r
  <2> QED BY <1>0, <1>1, <2>2, <2>3, StoreLeft
<1>4. ASSUME NEW todo, NEW b, Store(s, Begun([q EXCEPT !.of = s, !.todo = todo], b)) PROVE FinalInv'
  <2> DEFINE a == [q EXCEPT !.of = s, !.todo = todo]
             r == Begun(a, b)
  <2>1. IsRecord(a, SendFields) /\ a.lane = q.lane /\ a.of = s
    BY <1>0 DEF IsRecord, SendFields
  <2>2. Store(s, r)
    BY <1>4
  <2> HIDE DEF a
  <2>3. LeftOK(r, race) /\ r.of = s
    BY <1>0, <2>1, BegunLeft DEF Evolves
  <2> HIDE DEF r
  <2>4. \A t \in Sends : send[t].of # s
    BY <1>0 DEF FinalInv, Together1, FinalAssumptions
  <2>5. \A t \in Sends : send'[t] = IF t = s THEN r ELSE send[t]
    BY <2>2, <2>3, <2>4 DEF Store
  <2>6. Together1'
    BY <2>3, <2>4, <2>5 DEF FinalInv, Together1
  <2>7. \A t \in Sends : LeftOK(send'[t], race')
    BY <1>0, <2>3, <2>5 DEF FinalInv
  <2> QED BY <1>1, <2>6, <2>7 DEF FinalInv
<1> QED BY <1>2, <1>3, <1>4

LEMMA ContinueLeft ==
    ASSUME FinalAssumptions, FinalInv, NEW s \in Sends, NEW t \in Sends, Continue(s, t)
    PROVE  FinalInv'
<1> DEFINE q == send[s]
           next == [Unsent EXCEPT !.of = q.of, !.live = q.live, !.excluded = q.excluded]
           old == [q EXCEPT !.last = FALSE]
<1>0. /\ SendOK(q, race) /\ LeftOK(q, race) /\ race' = race /\ q.state \in {"yes", "no"} /\ IsRecord(q, SendFields)
      /\ send[t].state = "idle" /\ send[t].of = NoBatch /\ s # t
  BY DEF FinalInv, IInv, Continue, SendOK, TypedOK, LeftOK, RestsOK
<1>1. IInv'
  BY ContinueKeeps DEF FinalInv, FinalAssumptions
<1>2. PICK b \in q.todo \union {q.first} :
          send' = [send EXCEPT ![s].last = FALSE, ![t] = Begun([next EXCEPT !.resigned = b = q.first, !.todo = q.todo \ {b}], b)]
  BY DEF Continue
<1> DEFINE a == [next EXCEPT !.resigned = b = q.first, !.todo = q.todo \ {b}]
           r == Begun(a, b)
<1>3. /\ IsRecord(a, SendFields) /\ a.lane = [l \in Lanes |-> NoLane] /\ a.of = q.of /\ a.live = q.live /\ a.excluded = q.excluded
  BY DEF Unsent, IsRecord, SendFields
<1> HIDE DEF a
<1>4. LeftOK(r, race) /\ r.of = q.of /\ r.live = q.live /\ r.excluded = q.excluded
  <2>1. a.lane["fallback"].at = "idle" /\ a.lane = [l \in Lanes |-> a.lane[l]]
    BY <1>3 DEF NoLane, Lanes
  <2> QED BY <1>3, <2>1, BegunLeft DEF Evolves
<1>5. Same(q, old)
  BY <1>0 DEF IsRecord, SendFields, Same
<1>6. old.excluded = q.excluded
  BY <1>0 DEF IsRecord, SendFields
<1>7. send' = [send EXCEPT ![s] = old, ![t] = r]
  BY <1>2 DEF a
<1> HIDE DEF old, r
<1>8. \A u \in Sends : send'[u] = IF u = t THEN r ELSE IF u = s THEN old ELSE send[u]
  <2>1. send = [u \in Sends |-> send[u]]
    BY DEF FinalInv, IInv
  <2> QED BY <1>7, <2>1
<1>9. LeftOK(old, race) /\ Evolves(q, old)
  BY <1>0, <1>5, SameLeft
<1>10. \A u \in Sends : LeftOK(send'[u], race')
  BY <1>0, <1>4, <1>8, <1>9 DEF FinalInv
<1>11. \A u \in Sends : send'[u].of = (IF u = t THEN q.of ELSE send[u].of) /\ send'[u].live = (IF u = t THEN q.live ELSE send[u].live)
                        /\ send'[u].excluded = (IF u = t THEN q.excluded ELSE send[u].excluded)
  BY <1>4, <1>6, <1>8, <1>9 DEF Evolves
<1>12. Together1'
  <2>1. ASSUME NEW u \in Sends, NEW w \in Sends, send'[u].of = send'[w].of, send'[u].of # NoBatch
        PROVE  send'[u].excluded = send'[w].excluded /\ send'[u].live = send'[w].live
    <3> DEFINE U == IF u = t THEN s ELSE u
               W == IF w = t THEN s ELSE w
    <3>1. /\ U \in Sends /\ W \in Sends /\ send'[u].of = send[U].of /\ send'[u].excluded = send[U].excluded /\ send'[u].live = send[U].live
          /\ send'[w].of = send[W].of /\ send'[w].excluded = send[W].excluded /\ send'[w].live = send[W].live
      BY <1>11
    <3> HIDE DEF U, W
    <3>2. send[U].of = send[W].of /\ send[U].of # NoBatch
      BY <2>1, <3>1
    <3>3. send[U].excluded = send[W].excluded /\ send[U].live = send[W].live
      BY <3>1, <3>2 DEF FinalInv, Together1
    <3> QED BY <3>1, <3>3
  <2>2. ASSUME NEW u \in Sends, NEW w \in Sends, send'[w].of = u PROVE send'[u].of = u
    <3>1. u # NoBatch
      BY DEF FinalAssumptions
    <3>2. send[u].of = u
      BY <1>11, <2>2 DEF FinalInv, Together1
    <3> QED BY <1>0, <1>11, <3>1, <3>2
  <2> QED BY <2>1, <2>2 DEF Together1
<1> QED BY <1>1, <1>10, <1>12 DEF FinalInv

(* Bounds that run down leave the routes, and what is left. *)
LEMMA RoutesLeft ==
    ASSUME IsRace(race), race' = race \/ (\E n : race' = [race EXCEPT !.interrupts = n]) \/ (\E n : race' = [race EXCEPT !.cools = n]),
           NEW q, LeftOK(q, race)
    PROVE  LeftOK(q, race')
<1>1. race'.primary = race.primary /\ race'.fallback = race.fallback /\ race'.early = race.early
  BY RoutesStay
<1> QED BY <1>1 DEF LeftOK, FailsOK, Spent, RacesOK, RoutesOK, RestsOK

LEMMA LiveLeft ==
    ASSUME NEW q, IsRecord(q, SendFields), LeftOK(q, race), q.live = "yes", NEW how \in {"aborted", "paused", "gone"},
           NEW r, r = [q EXCEPT !.live = how]
    PROVE  LeftOK(r, race) /\ r.of = q.of /\ r.live = how /\ r.excluded = q.excluded /\ IsRecord(r, SendFields)
<1>1. /\ IsRecord(r, SendFields) /\ r.live = how /\ r.state = q.state /\ r.flag = q.flag /\ r.pending = q.pending /\ r.tried = q.tried
      /\ r.excluded = q.excluded /\ r.shut = q.shut /\ r.lane = q.lane /\ r.blocked = q.blocked /\ r.offline = q.offline /\ r.timer = q.timer
      /\ r.of = q.of
  BY DEF IsRecord, SendFields
<1>2. Stopped(r)
  BY <1>1 DEF Stopped, Current
<1>3. LeftOK(r, race)
  BY <1>1, <1>2 DEF LeftOK, FailsOK, Spent, RacesOK, RoutesOK, RestsOK
<1> QED BY <1>1, <1>3

(* All sends of a publication stop at once. *)
LEMMA TogetherLeft ==
    ASSUME FinalAssumptions, FinalInv, NEW s \in Sends, send[s].of = s, NEW how, IInv',
           \A t \in Sends \ Together(s) : send'[t] = send[t],
           \A t \in Together(s) : /\ LeftOK(send'[t], race) /\ send'[t].of = send[t].of /\ send'[t].live = how
                                  /\ send'[t].excluded = send[t].excluded,
           race' = race \/ (\E n : race' = [race EXCEPT !.interrupts = n])
    PROVE  FinalInv'
<1>1. \A t \in Sends : LeftOK(send'[t], race)
  BY DEF FinalInv
<1>2. \A t \in Sends : LeftOK(send'[t], race')
  BY <1>1, RoutesLeft DEF FinalInv, IInv
<1>3. \A t \in Sends : send'[t].of = send[t].of /\ send'[t].excluded = send[t].excluded /\ send'[t].live = IF send[t].of = s THEN how ELSE send[t].live
  BY DEF Together
<1>4. Together1'
  BY <1>3 DEF FinalInv, Together1
<1> QED BY <1>2, <1>4 DEF FinalInv

LEMMA RemoveLeft ==
    ASSUME FinalAssumptions, FinalInv, NEW s \in Sends, RemoveChannel(s)
    PROVE  FinalInv'
<1>1. /\ \E n : race' = [race EXCEPT !.interrupts = n]
      /\ send' = [t \in Sends |-> IF t \in Together(s) THEN [send[t] EXCEPT !.live = "gone"] ELSE send[t]]
      /\ send[s].of = s /\ send[s].live = "yes"
  BY DEF RemoveChannel, Current
<1>2. IInv'
  BY RemoveKeeps DEF FinalInv, FinalAssumptions
<1>3. ASSUME NEW t \in Together(s)
      PROVE  LeftOK(send'[t], race) /\ send'[t].of = send[t].of /\ send'[t].live = "gone" /\ send'[t].excluded = send[t].excluded
  <2>1. t \in Sends /\ send[t].of = s /\ send[t].live = "yes"
    BY <1>1 DEF Together, FinalInv, Together1, FinalAssumptions
  <2>2. IsRecord(send[t], SendFields) /\ LeftOK(send[t], race)
    BY <2>1 DEF FinalInv, IInv, SendOK, TypedOK
  <2> QED BY <1>1, <2>1, <2>2, LiveLeft
<1>4. \A t \in Sends \ Together(s) : send'[t] = send[t]
  BY <1>1
<1> QED BY <1>1, <1>2, <1>3, <1>4, TogetherLeft

LEMMA InterruptLeft ==
    ASSUME FinalAssumptions, FinalInv, NEW s \in Sends, NEW how \in {"aborted", "paused"}, Interrupt(s, how)
    PROVE  FinalInv'
<1> DEFINE open(t) == {p \in send[t].pubs : p.report = "open"}
           lost(t) == IF race.early THEN {} ELSE UNION {p.relays : p \in {x \in open(t) : ~Accepted(send[t], x)}}
           alive(t) == [send[t] EXCEPT !.live = how]
           stopped(t) == IF Running(alive(t)) /\ (race.early \/ lost(t) # {}) THEN Finish(Cancelled(alive(t)), FALSE) ELSE Cancelled(alive(t))
<1>1. /\ \E n : race' = [race EXCEPT !.interrupts = n]
      /\ send' = [t \in Sends |-> IF t \in Together(s) THEN stopped(t) ELSE send[t]]
      /\ send[s].of = s /\ send[s].live = "yes"
  BY DEF Interrupt, Current
<1>2. IInv'
  BY InterruptKeeps DEF FinalInv, FinalAssumptions
<1>3. ASSUME NEW t \in Together(s)
      PROVE  LeftOK(stopped(t), race) /\ stopped(t).of = send[t].of /\ stopped(t).live = how /\ stopped(t).excluded = send[t].excluded
  <2> DEFINE a == alive(t)
             c == Cancelled(a)
  <2>1. t \in Sends /\ send[t].of = s /\ send[t].live = "yes"
    BY <1>1 DEF Together, FinalInv, Together1, FinalAssumptions
  <2>2. IsRecord(send[t], SendFields) /\ LeftOK(send[t], race)
    BY <2>1 DEF FinalInv, IInv, SendOK, TypedOK
  <2>3. stopped(t) = c \/ stopped(t) = Finish(c, FALSE)
    OBVIOUS
  <2> HIDE DEF stopped
  <2>4. LeftOK(a, race) /\ a.of = send[t].of /\ a.live = how /\ a.excluded = send[t].excluded /\ IsRecord(a, SendFields)
    <3>1. a = [send[t] EXCEPT !.live = how]
      OBVIOUS
    <3> HIDE DEF a
    <3> QED BY <2>1, <2>2, <3>1, LiveLeft
  <2> HIDE DEF a
  <2>5. Same(a, c) /\ IsRecord(c, SendFields) /\ c.excluded = a.excluded
    BY <2>4 DEF IsRecord, SendFields, Cancelled, Same
  <2> HIDE DEF c
  <2>6. LeftOK(c, race) /\ c.of = send[t].of /\ c.live = how /\ c.excluded = send[t].excluded
    BY <2>4, <2>5, SameLeft DEF Evolves, Same
  <2>7. Stopped(c)
    BY <2>6 DEF Stopped, Current
  <2>8. LeftOK(Finish(c, FALSE), race) /\ Evolves(c, Finish(c, FALSE))
    BY <2>5, <2>7, FinishLeft
  <2>9. Finish(c, FALSE).excluded = c.excluded
    BY <2>5 DEF Finish, IsRecord, SendFields
  <2> QED BY <2>3, <2>6, <2>8, <2>9 DEF Evolves
<1> HIDE DEF stopped
<1>4. \A t \in Sends \ Together(s) : send'[t] = send[t]
  BY <1>1
<1>5. \A t \in Together(s) : send'[t] = stopped(t)
  BY <1>1 DEF Together
<1>6. \A t \in Together(s) : LeftOK(send'[t], race) /\ send'[t].of = send[t].of /\ send'[t].live = how /\ send'[t].excluded = send[t].excluded
  BY <1>3, <1>5
<1> QED BY <1>1, <1>2, <1>4, <1>6, TogetherLeft

LEMMA CoolLeft ==
    ASSUME FinalAssumptions, FinalInv, NEW r \in Targets, Cool(r)
    PROVE  FinalInv'
<1>1. (\E n : race' = [race EXCEPT !.cools = n]) /\ send' = send
  BY DEF Cool
<1>2. IInv'
  BY CoolKeeps DEF FinalInv, FinalAssumptions
<1>3. \A t \in Sends : LeftOK(send'[t], race')
  BY <1>1, RoutesLeft DEF FinalInv, IInv
<1> QED BY <1>1, <1>2, <1>3 DEF FinalInv, Together1

--------------------------------------------------------------------------------
LEMMA InitFinal == FinalAssumptions /\ SRInit => FinalInv
<1> SUFFICES ASSUME FinalAssumptions, SRInit PROVE FinalInv
  OBVIOUS
<1>1. IInv
  BY InitIInv DEF FinalAssumptions
<1>2. LeftOK(Unsent, race)
  BY DEF LeftOK, FailsOK, RacesOK, RoutesOK, RestsOK, Unsent, NoLane, Lanes
<1>3. \A s \in Sends : send[s] = Unsent
  BY DEF SRInit
<1>4. Together1
  BY <1>3 DEF Together1, Unsent, FinalAssumptions
<1> QED BY <1>1, <1>2, <1>3, <1>4 DEF FinalInv

LEMMA NextFinal == FinalAssumptions /\ FinalInv /\ [SRNext]_rvars => FinalInv'
<1> SUFFICES ASSUME FinalAssumptions, FinalInv, [SRNext]_rvars PROVE FinalInv'
  OBVIOUS
<1>1. CASE UNCHANGED rvars
  <2>1. IInv'
    BY NextIInv DEF FinalAssumptions, FinalInv
  <2> QED BY <1>1, <2>1 DEF rvars, FinalInv, Together1
<1>2. CASE SRNext
  BY <1>2, ResolveLeft, PublishLeft, TimerLeft, FallbackStartsLeft, ContinueLeft, LaneNextLeft, AnswerLeft, ResignedLeft,
     ResignFailsLeft, ProbeLeft, LateProbeLeft, InterruptLeft, RemoveLeft, CoolLeft DEF SRNext
<1> QED BY <1>1, <1>2

LEMMA FinalInvFinal == FinalInv => FailureIsFinal
<1> SUFFICES ASSUME FinalInv, NEW s \in Sends, send[s].state = "no", send[s].flag = "none", ~Aborted(send[s])
             PROVE  send[s].blocked \/ \A p \in send[s].pending : RoutesOf(p) \subseteq send[s].tried \union send[s].excluded \union send[s].shut
  BY DEF FailureIsFinal
<1>1. send[s].blocked \/ Spent(send[s], race)
  BY DEF FinalInv, LeftOK, FailsOK, Aborted
<1> QED BY <1>1 DEF Spent, RoutesOf, Fallback

(* A failure that nothing will retry has left no route of a receiver untried, whatever the order in which    *)
(* the delay, the two lanes, the answers, the probes and the interruptions came                              *)
(* (send-routing.js:133-188, fallback-race.js:26-153).                                                      *)
THEOREM FailuresAreFinal == SRSpec => []FailureIsFinal
<1>1. SRInit => FinalInv
  BY InitFinal, FinalRaces
<1>2. FinalInv /\ [SRNext]_rvars => FinalInv'
  BY NextFinal, FinalRaces
<1> QED BY <1>1, <1>2, FinalInvFinal, PTL DEF SRSpec

--------------------------------------------------------------------------------
(* The databases of an identity. *)
InstFields == {"main", "initialized", "active", "listens", "handles", "stale", "keep", "rev", "snapshot", "needs", "missed",
               "channels", "applied", "want", "beat", "touch", "crossed", "refresh", "wanted", "care"}
LifeFields == {"time", "policies", "channels", "updates", "broadcast", "locks", "failures", "cares", "closes", "crashes"}

(* The steps at which an instance is in the registry. *)
Present == {"maintaining", "maintained", "updating", "reading", "settling", "flushing", "open", "closing"}

InstOK(s) ==
    /\ IsRecord(s, InstFields)
    /\ s.main \in Present \union {"new", "activating", "closed", "crashed"}
    /\ s.active \in BOOLEAN /\ s.handles \in BOOLEAN /\ s.touch \in BOOLEAN /\ s.crossed \in BOOLEAN
    /\ s.active <=> s.main \in Present
    /\ s.handles => s.active
    /\ s.beat \in Int /\ s.channels \subseteq Channels
    /\ s.main \in {"updating", "reading", "settling"} => s.want.channels \subseteq Channels

(* What waits for the lock: made at this time or the one before, and what the page is at. *)
AskedAt(op) == CASE op = "activate" -> {"activating", "updating"} [] op = "read" -> {"reading"}
                [] op = "maintain" -> {"maintaining"} [] OTHER -> {"closing"}
RequestOK(r, t) ==
    /\ IsRecord(r, {"who", "job", "op", "at", "channels", "policy"})
    /\ r.who \in Insts /\ r.at \in Int /\ t - 1 <= r.at /\ r.at <= t /\ r.channels \subseteq Channels
    /\ r.job \in {"main", "touch", "refresh", "care", "purge", "retry"}
    /\ r.op \in {"activate", "read", "maintain", "release"}
    /\ r.job = "touch" => r.op = "activate"
    /\ r.job = "refresh" => r.op = "read"
    /\ r.job \in {"care", "purge", "retry"} => r.op = "maintain"
KindOK(r, s) ==
    /\ r.job = "main" => s.main \in AskedAt(r.op)
    /\ r.op = "release" => ~s.handles /\ ~s.touch
    /\ r.job = "touch" => s.touch /\ s.active

IsQueue(Q) == Len(Q) \in Nat /\ Q = [n \in 1..Len(Q) |-> Q[n]]
QueueOK(Q, it, t) ==
    /\ IsQueue(Q)
    /\ \A n \in 1..Len(Q) : RequestOK(Q[n], t) /\ KindOK(Q[n], it[Q[n].who])
    /\ \A m, n \in 1..Len(Q) : m < n =>
          /\ Q[m].at <= Q[n].at
          /\ Q[m].who = Q[n].who /\ Q[m].job = Q[n].job => Q[m].job \notin {"main", "touch"}

(* The lease of an instance lasts, or is renewed before the n-th request. *)
Renews(r, i) == r.who = i /\ r.op = "activate"
Lasts(i, at, ls) == ls[i] # None /\ ls[i].until > at
HeldOrRenewed(i, at, n, Q, ls) == Lasts(i, at, ls) \/ \E k \in 1..(n - 1) : Renews(Q[k], i)
LeaseOK(i, Q, ls, s, t) ==
    /\ ls[i] # None =>
          /\ IsRecord(ls[i], {"until", "channels"}) /\ ls[i].until \in Int /\ ls[i].channels \subseteq Channels
          /\ ls[i].until <= t + Lease /\ \A n \in 1..Len(Q) : ls[i].until <= Q[n].at + Lease
    /\ s.active =>
          /\ HeldOrRenewed(i, t, Len(Q) + 1, Q, ls)
          /\ \A n \in 1..Len(Q) : HeldOrRenewed(i, Q[n].at, n, Q, ls)
          /\ \/ Lasts(i, s.beat + 1, ls)
             \/ \E k \in 1..Len(Q) : Renews(Q[k], i) /\ Q[k].at >= s.beat

(* The channels of an instance are in its lease, or in the request that will write it. *)
IsTouch(r, i) == r.who = i /\ r.job = "touch"
IsMain(r, i) == r.who = i /\ r.job = "main"
Untouched(i, Q) == \A n \in 1..Len(Q) : ~IsTouch(Q[n], i)
ChannelsOK(i, Q, ls, s) ==
    /\ s.main = "updating" => \A n \in 1..Len(Q) : IsMain(Q[n], i) => s.want.channels \subseteq Q[n].channels
    /\ ~s.crossed =>
          /\ s.main = "updating" => \A m, n \in 1..Len(Q) : IsTouch(Q[m], i) /\ IsMain(Q[n], i) => m < n
          /\ s.main = "settling" => Untouched(i, Q) /\ s.want.channels \subseteq ls[i].channels
          /\ s.main = "flushing" => Untouched(i, Q) /\ s.channels \subseteq ls[i].channels
          /\ s.main = "open" =>
                /\ Untouched(i, Q) => s.channels \subseteq ls[i].channels
                /\ \A n \in 1..Len(Q) : IsTouch(Q[n], i) => s.channels \subseteq Q[n].channels

(* Who holds the lock for a maintenance is first; while it deletes nobody is present. *)
HoldOK(Q, hd, it) ==
    /\ \A j \in Insts : hd[j] # "free" => Len(Q) >= 1 /\ Q[1].who = j /\ Q[1].op = "maintain"
    /\ \A j \in Insts : hd[j] = "deleting" => \A i \in Insts : ~it[i].active

ShapeOK ==
    /\ IsRecord(life, LifeFields) /\ life.time \in Nat /\ life.locks /\ life.channels \subseteq Channels
    /\ \A u \in life.updates : u.channels \subseteq Channels /\ IsRecord(u, {"channels", "policy", "named"})
    /\ now \in 0..life.time /\ files \in BOOLEAN /\ retry \subseteq Insts
    /\ set # None => IsRecord(set, {"used", "status", "stale", "keep", "rev"}) /\ set.status \in {"ready", "delete_pending"}
    /\ hold \in [Insts -> {"free", "deleting", "deleted", "failed"}]
    /\ leases = [i \in Insts |-> leases[i]] /\ inst = [i \in Insts |-> inst[i]]

RegInv ==
    /\ ShapeOK /\ QueueOK(requests, inst, now) /\ HoldOK(requests, hold, inst)
    /\ \A i \in Insts : InstOK(inst[i]) /\ LeaseOK(i, requests, leases, inst[i], now) /\ ChannelsOK(i, requests, leases, inst[i])

--------------------------------------------------------------------------------
(* The queue of requests: what is taken out, and what is added. *)

LEMMA RanksAreDense ==
    ASSUME NEW K, K \subseteq Int, IsFiniteSet(K), NEW rank, rank = [n \in K |-> Cardinality({m \in K : m <= n})]
    PROVE  /\ Cardinality(K) \in Nat
           /\ \A n \in K : rank[n] \in 1..Cardinality(K)
           /\ \A m, n \in K : m < n => rank[m] < rank[n]
           /\ \A k \in 1..Cardinality(K) : \E n \in K : rank[n] = k
<1> DEFINE upto(n) == {m \in K : m <= n}
<1>1. \A n \in K : IsFiniteSet(upto(n)) /\ Cardinality(upto(n)) \in Nat /\ Cardinality(upto(n)) <= Cardinality(K) /\ Cardinality(K) \in Nat
  BY FS_Subset, FS_CardinalityType
<1>2. ASSUME NEW n \in K PROVE Cardinality(upto(n)) # 0
  BY <1>1, FS_EmptySet
<1>3. \A n \in K : rank[n] \in 1..Cardinality(K)
  BY <1>1, <1>2
<1>4. ASSUME NEW m \in K, NEW n \in K, m < n PROVE rank[m] < rank[n]
  <2>1. upto(m) \subseteq upto(n) /\ n \in upto(n) /\ n \notin upto(m)
    <3>1. m \in Int /\ n \in Int /\ \A x \in K : x \in Int
      OBVIOUS
    <3>2. \A x \in K : x <= m => x <= n
      BY <3>1, <1>4
    <3>3. ~(n <= m) /\ n <= n
      BY <3>1, <1>4
    <3> QED BY <3>2, <3>3
  <2>2. Cardinality(upto(m)) < Cardinality(upto(n))
    BY <1>1, <2>1, FS_Subset
  <2> QED BY <2>2
<1>5. rank \in Injection(K, 1..Cardinality(K))
  <2>1. rank \in [K -> 1..Cardinality(K)]
    BY <1>3
  <2>2. \A m, n \in K : rank[m] = rank[n] => m = n
    <3> SUFFICES ASSUME NEW m \in K, NEW n \in K, rank[m] = rank[n], m # n PROVE FALSE
      OBVIOUS
    <3>1. m < n \/ n < m
      OBVIOUS
    <3> QED BY <1>3, <1>4, <3>1
  <2> QED BY <2>1, <2>2 DEF Injection, IsInjective
<1>6. Cardinality(1..Cardinality(K)) = Cardinality(K) /\ Cardinality(K) \in Nat
  BY FS_Interval, FS_CardinalityType
<1>7. rank \in Surjection(K, 1..Cardinality(K))
  <2>1. IsFiniteSet(1..Cardinality(K)) => (Cardinality(K) = Cardinality(1..Cardinality(K)) <=> rank \in Surjection(K, 1..Cardinality(K)))
    BY <1>5, FS_Injection, IsFiniteSet(K)
  <2> QED BY <1>6, <2>1, FS_Interval
<1>8. \A k \in 1..Cardinality(K) : \E n \in K : rank[n] = k
  BY <1>7 DEF Surjection
<1> QED BY <1>3, <1>4, <1>6, <1>8

(* M is Q without some of its requests. *)
IsPart(M, Q, h) ==
    /\ IsQueue(M) /\ Len(Q) \in Nat
    /\ \A k \in 1..Len(M) : h[k] \in 1..Len(Q) /\ M[k] = Q[h[k]]
    /\ \A j, k \in 1..Len(M) : j < k => h[j] < h[k]
Keeps(M, Q, h, n) == \E k \in 1..Len(M) : h[k] = n

LEMMA OthersRemain ==
    ASSUME NEW i \in Insts, IsQueue(requests)
    PROVE  \E h : /\ IsPart(Others(i), requests, h)
                  /\ \A k \in 1..Len(Others(i)) : Others(i)[k].who # i
                  /\ \A n \in 1..Len(requests) : requests[n].who # i => Keeps(Others(i), requests, h, n)
<1> DEFINE K == {n \in 1..Len(requests) : requests[n].who # i}
           rank == [n \in K |-> Cardinality({m \in K : m <= n})]
           h == [k \in 1..Cardinality(K) |-> CHOOSE n \in K : rank[n] = k]
<1>1. Len(requests) \in Nat /\ K \subseteq Int /\ IsFiniteSet(K)
  <2>0. Len(requests) \in Nat
    BY DEF IsQueue
  <2>1. IsFiniteSet(1..Len(requests))
    BY <2>0, FS_Interval
  <2> QED BY <2>0, <2>1, FS_Subset
<1>2. /\ Cardinality(K) \in Nat
      /\ \A n \in K : rank[n] \in 1..Cardinality(K)
      /\ \A m, n \in K : m < n => rank[m] < rank[n]
      /\ \A k \in 1..Cardinality(K) : \E n \in K : rank[n] = k
  <2> HIDE DEF K
  <2> QED BY <1>1, RanksAreDense
<1>3. \A k \in 1..Cardinality(K) : h[k] \in K /\ rank[h[k]] = k
  BY <1>2
<1>4. Others(i) = [k \in 1..Cardinality(K) |-> requests[h[k]]]
  <2>1. \A k \in 1..Cardinality(K) : h[k] = CHOOSE n \in K : Cardinality({m \in K : m <= n}) = k
    <3> SUFFICES ASSUME NEW k \in 1..Cardinality(K) PROVE (CHOOSE n \in K : rank[n] = k) = CHOOSE n \in K : Cardinality({m \in K : m <= n}) = k
      OBVIOUS
    <3>1. \A n \in K : (rank[n] = k) <=> (Cardinality({m \in K : m <= n}) = k)
      OBVIOUS
    <3> QED BY <3>1
  <2>2. Others(i) = [k \in 1..Cardinality(K) |-> requests[CHOOSE n \in K : Cardinality({m \in K : m <= n}) = k]]
    BY DEF Others
  <2> HIDE DEF K, h
  <2> QED BY <2>1, <2>2
<1>5. Len(Others(i)) = Cardinality(K)
  BY <1>2, <1>4
<1>6. ASSUME NEW j \in 1..Cardinality(K), NEW k \in 1..Cardinality(K), j < k PROVE h[j] < h[k]
  <2>1. h[j] \in K /\ h[k] \in K /\ rank[h[j]] = j /\ rank[h[k]] = k
    BY <1>3
  <2> HIDE DEF K, h, rank
  <2>2. ~(h[k] < h[j]) /\ h[k] # h[j]
    BY <1>2, <1>6, <2>1
  <2>3. h[j] \in Int /\ h[k] \in Int
    BY <1>1, <2>1
  <2> QED BY <2>2, <2>3
<1>7. \A n \in K : h[rank[n]] = n
  <2> SUFFICES ASSUME NEW n \in K PROVE h[rank[n]] = n
    OBVIOUS
  <2>1. rank[n] \in 1..Cardinality(K)
    BY <1>2
  <2>2. h[rank[n]] \in K /\ rank[h[rank[n]]] = rank[n]
    BY <1>3, <2>1
  <2> HIDE DEF K, h, rank
  <2>3. ~(h[rank[n]] < n) /\ ~(n < h[rank[n]])
    BY <1>2, <2>1, <2>2
  <2>4. n \in Int /\ h[rank[n]] \in Int
    BY <1>1, <2>2
  <2> QED BY <2>3, <2>4
<1>8. IsPart(Others(i), requests, h)
  BY <1>1, <1>2, <1>3, <1>4, <1>5, <1>6 DEF IsPart, IsQueue
<1>9. \A n \in 1..Len(requests) : requests[n].who # i => Keeps(Others(i), requests, h, n)
  <2> SUFFICES ASSUME NEW n \in 1..Len(requests), requests[n].who # i PROVE Keeps(Others(i), requests, h, n)
    OBVIOUS
  <2> HIDE DEF rank, h
  <2>1. n \in K
    OBVIOUS
  <2>2. rank[n] \in 1..Len(Others(i)) /\ h[rank[n]] = n
    BY <1>2, <1>5, <1>7, <2>1
  <2> QED BY <2>2 DEF Keeps
<1>10. \A k \in 1..Len(Others(i)) : Others(i)[k].who # i
  <2>1. \A k \in 1..Cardinality(K) : requests[h[k]].who # i
    BY <1>3
  <2> HIDE DEF K, h
  <2> QED BY <2>1, <1>4, <1>5
<1> QED BY <1>8, <1>9, <1>10

LEMMA RestRemains ==
    ASSUME IsQueue(requests), 1 \in 1..Len(requests)
    PROVE  \E h : /\ IsPart(Dequeued(1), requests, h)
                  /\ \A k \in 1..Len(Dequeued(1)) : h[k] # 1
                  /\ \A n \in 1..Len(requests) : n # 1 => Keeps(Dequeued(1), requests, h, n)
<1> DEFINE S == {requests[n] : n \in 1..Len(requests)}
           N == Len(requests)
           h == [k \in 1..(N - 1) |-> k + 1]
<1>1. requests \in Seq(S) /\ N \in Nat /\ N >= 1
  BY DEF IsQueue
<1>2. SubSeq(requests, 1, 0) = <<>>
  BY <1>1, SubSeqEmpty
<1>3. Dequeued(1) = SubSeq(requests, 2, N)
  <2>1. SubSeq(requests, 2, N) \in Seq(S)
    BY <1>1, SubSeqProperties
  <2> QED BY <1>2, <2>1, ConcatEmptySeq DEF Dequeued
<1>4. /\ Len(SubSeq(requests, 2, N)) = N - 1
      /\ \A k \in 1..(N - 1) : SubSeq(requests, 2, N)[k] = requests[k + 1]
      /\ IsQueue(SubSeq(requests, 2, N))
  <2> DEFINE Q == [k \in 1..(N - 1) |-> requests[k + 1]]
  <2>1. SubSeq(requests, 2, N) = Q
    BY <1>1
  <2>2. Len(Q) = N - 1
    BY <1>1
  <2> QED BY <1>1, <2>1, <2>2 DEF IsQueue
<1>5. IsPart(Dequeued(1), requests, h)
  <2>1. \A k \in 1..(N - 1) : h[k] = k + 1 /\ h[k] \in 1..N
    BY <1>1
  <2>2. \A j, k \in 1..(N - 1) : j < k => h[j] < h[k]
    BY <1>1
  <2> HIDE DEF h
  <2> QED BY <1>1, <1>3, <1>4, <2>1, <2>2 DEF IsPart
<1>6. \A n \in 1..N : n # 1 => Keeps(Dequeued(1), requests, h, n)
  <2> SUFFICES ASSUME NEW n \in 1..N, n # 1 PROVE \E k \in 1..(N - 1) : h[k] = n
    BY <1>3, <1>4 DEF Keeps
  <2>1. n - 1 \in 1..(N - 1) /\ h[n - 1] = n
    BY <1>1
  <2> QED BY <2>1
<1> QED BY <1>3, <1>4, <1>5, <1>6

LEMMA QueueGrows ==
    ASSUME NEW Q, IsQueue(Q), NEW r
    PROVE  /\ IsQueue(Append(Q, r)) /\ Len(Append(Q, r)) = Len(Q) + 1
           /\ \A n \in 1..Len(Q) : Append(Q, r)[n] = Q[n]
           /\ Append(Q, r)[Len(Q) + 1] = r
<1> DEFINE S == {Q[n] : n \in 1..Len(Q)} \union {r}
<1>1. Q \in Seq(S) /\ r \in S /\ Len(Q) \in Nat
  BY DEF IsQueue
<1>2. Append(Q, r) \in Seq(S) /\ Len(Append(Q, r)) = Len(Q) + 1
  BY <1>1
<1>3. \A n \in 1..Len(Q) : Append(Q, r)[n] = Q[n]
  BY <1>1
<1>4. Append(Q, r)[Len(Q) + 1] = r
  BY <1>1
<1>5. IsQueue(Append(Q, r))
  <2>1. Append(Q, r) \in [1..Len(Append(Q, r)) -> S] /\ Len(Append(Q, r)) \in Nat
    BY <1>2, LenProperties
  <2> QED BY <2>1 DEF IsQueue
<1> QED BY <1>2, <1>3, <1>4, <1>5

LEMMA PartKeepsQueue ==
    ASSUME NEW M, NEW Q, NEW h, NEW it, NEW t, QueueOK(Q, it, t), IsPart(M, Q, h)
    PROVE  QueueOK(M, it, t)
<1>1. \A k \in 1..Len(M) : h[k] \in 1..Len(Q) /\ M[k] = Q[h[k]]
  BY DEF IsPart
<1>2. \A j, k \in 1..Len(M) : j < k => h[j] < h[k]
  BY DEF IsPart
<1>3. \A n \in 1..Len(Q) : RequestOK(Q[n], t) /\ KindOK(Q[n], it[Q[n].who])
  BY DEF QueueOK
<1>4. \A m, n \in 1..Len(Q) : m < n =>
          /\ Q[m].at <= Q[n].at
          /\ Q[m].who = Q[n].who /\ Q[m].job = Q[n].job => Q[m].job \notin {"main", "touch"}
  BY DEF QueueOK
<1>5. \A j, k \in 1..Len(M) : j < k =>
          /\ M[j].at <= M[k].at
          /\ M[j].who = M[k].who /\ M[j].job = M[k].job => M[j].job \notin {"main", "touch"}
  BY <1>1, <1>2, <1>4
<1>6. \A k \in 1..Len(M) : RequestOK(M[k], t) /\ KindOK(M[k], it[M[k].who])
  BY <1>1, <1>3
<1> QED BY <1>5, <1>6 DEF QueueOK, IsPart

LEMMA PartKeepsLease ==
    ASSUME NEW M, NEW Q, NEW h, NEW i, NEW ls, NEW s, NEW t, LeaseOK(i, Q, ls, s, t), IsPart(M, Q, h),
           \A n \in 1..Len(Q) : Renews(Q[n], i) => Keeps(M, Q, h, n)
    PROVE  LeaseOK(i, M, ls, s, t)
<1>1. Len(M) \in Nat /\ Len(Q) \in Nat
  BY DEF IsPart, IsQueue
<1>2. \A k \in 1..Len(M) : h[k] \in 1..Len(Q) /\ M[k] = Q[h[k]]
  BY DEF IsPart
<1>3. \A j, k \in 1..Len(M) : j < k => h[j] < h[k]
  BY DEF IsPart
<1>4. ASSUME NEW n \in 1..Len(Q), Renews(Q[n], i) PROVE \E k \in 1..Len(M) : h[k] = n /\ M[k] = Q[n]
  BY <1>2, <1>4 DEF Keeps
<1>5. ASSUME s.active PROVE HeldOrRenewed(i, t, Len(M) + 1, M, ls)
  <2>1. HeldOrRenewed(i, t, Len(Q) + 1, Q, ls)
    BY <1>5 DEF LeaseOK
  <2>2. CASE \E n \in 1..Len(Q) : Renews(Q[n], i)
    <3>1. PICK n \in 1..Len(Q) : Renews(Q[n], i)
      BY <2>2
    <3>2. PICK k \in 1..Len(M) : h[k] = n /\ M[k] = Q[n]
      BY <1>4, <3>1
    <3>3. k \in 1..((Len(M) + 1) - 1)
      BY <1>1
    <3> QED BY <3>1, <3>2, <3>3 DEF HeldOrRenewed
  <2>3. CASE ~\E n \in 1..Len(Q) : Renews(Q[n], i)
    BY <1>1, <2>1, <2>3 DEF HeldOrRenewed
  <2> QED BY <2>2, <2>3
<1>6. ASSUME s.active, NEW k \in 1..Len(M) PROVE HeldOrRenewed(i, M[k].at, k, M, ls)
  <2>1. h[k] \in 1..Len(Q) /\ M[k] = Q[h[k]]
    BY <1>2
  <2>2. HeldOrRenewed(i, Q[h[k]].at, h[k], Q, ls)
    BY <1>6, <2>1 DEF LeaseOK
  <2>3. ASSUME NEW n \in 1..(h[k] - 1), Renews(Q[n], i) PROVE \E j \in 1..(k - 1) : Renews(M[j], i)
    <3>1. n \in 1..Len(Q) /\ n < h[k]
      BY <1>1, <2>1
    <3>2. PICK j \in 1..Len(M) : h[j] = n /\ M[j] = Q[n]
      BY <1>4, <2>3, <3>1
    <3>3. ~(k < j) /\ k # j
      BY <1>1, <1>3, <2>1, <3>1, <3>2
    <3>4. j \in 1..(k - 1)
      BY <1>1, <3>3
    <3> QED BY <2>3, <3>2, <3>4
  <2> QED BY <2>1, <2>2, <2>3 DEF HeldOrRenewed
<1>7. ASSUME s.active PROVE Lasts(i, s.beat + 1, ls) \/ \E k \in 1..Len(M) : Renews(M[k], i) /\ M[k].at >= s.beat
  <2>1. Lasts(i, s.beat + 1, ls) \/ \E k \in 1..Len(Q) : Renews(Q[k], i) /\ Q[k].at >= s.beat
    BY <1>7 DEF LeaseOK
  <2> QED BY <1>4, <2>1
<1>8. ls[i] # None =>
          /\ IsRecord(ls[i], {"until", "channels"}) /\ ls[i].until \in Int /\ ls[i].channels \subseteq Channels
          /\ ls[i].until <= t + Lease /\ \A k \in 1..Len(M) : ls[i].until <= M[k].at + Lease
  BY <1>2 DEF LeaseOK
<1> QED BY <1>5, <1>6, <1>7, <1>8 DEF LeaseOK

LEMMA PartKeepsChannels ==
    ASSUME NEW M, NEW Q, NEW h, NEW i, NEW ls, NEW s, ChannelsOK(i, Q, ls, s), IsPart(M, Q, h),
           \A n \in 1..Len(Q) : IsTouch(Q[n], i) => Keeps(M, Q, h, n)
    PROVE  ChannelsOK(i, M, ls, s)
<1>1. Len(M) \in Nat /\ Len(Q) \in Nat
  BY DEF IsPart, IsQueue
<1>2. \A k \in 1..Len(M) : h[k] \in 1..Len(Q) /\ M[k] = Q[h[k]]
  BY DEF IsPart
<1>3. \A j, k \in 1..Len(M) : j < k => h[j] < h[k]
  BY DEF IsPart
<1>4. Untouched(i, Q) <=> Untouched(i, M)
  BY <1>2 DEF Untouched, Keeps
<1>5. ASSUME s.main = "updating", ~s.crossed, NEW j \in 1..Len(M), NEW k \in 1..Len(M), IsTouch(M[j], i), IsMain(M[k], i) PROVE j < k
  <2>1. h[j] < h[k] /\ h[j] \in 1..Len(Q) /\ h[k] \in 1..Len(Q)
    BY <1>2, <1>5 DEF ChannelsOK
  <2>2. ~(k < j) /\ j # k
    BY <1>1, <1>3, <2>1
  <2> QED BY <1>1, <2>2
<1>6. s.main = "updating" => \A k \in 1..Len(M) : IsMain(M[k], i) => s.want.channels \subseteq M[k].channels
  BY <1>2 DEF ChannelsOK
<1>7. ~s.crossed /\ s.main = "open" => \A k \in 1..Len(M) : IsTouch(M[k], i) => s.channels \subseteq M[k].channels
  BY <1>2 DEF ChannelsOK
<1>8. ~s.crossed =>
          /\ s.main = "settling" => Untouched(i, M) /\ s.want.channels \subseteq ls[i].channels
          /\ s.main = "flushing" => Untouched(i, M) /\ s.channels \subseteq ls[i].channels
          /\ s.main = "open" /\ Untouched(i, M) => s.channels \subseteq ls[i].channels
  BY <1>4 DEF ChannelsOK
<1> QED BY <1>5, <1>6, <1>7, <1>8 DEF ChannelsOK

LEMMA MoreKeepsQueue ==
    ASSUME NEW Q, NEW it, NEW t \in Int, NEW r, QueueOK(Q, it, t), RequestOK(r, t), KindOK(r, it[r.who]), r.at = t,
           \A n \in 1..Len(Q) : Q[n].who = r.who /\ Q[n].job = r.job => r.job \notin {"main", "touch"}
    PROVE  QueueOK(Append(Q, r), it, t)
<1> DEFINE M == Append(Q, r)
<1>0. IsQueue(Q) /\ Len(Q) \in Nat
  BY DEF QueueOK, IsQueue
<1>1. IsQueue(M) /\ Len(M) = Len(Q) + 1 /\ (\A n \in 1..Len(Q) : M[n] = Q[n]) /\ M[Len(Q) + 1] = r
  BY <1>0, QueueGrows
<1> HIDE DEF M
<1>2. ASSUME NEW n \in 1..Len(M) PROVE (n \in 1..Len(Q) /\ M[n] = Q[n]) \/ (n = Len(Q) + 1 /\ M[n] = r)
  BY <1>0, <1>1
<1>3. \A n \in 1..Len(Q) : RequestOK(Q[n], t) /\ KindOK(Q[n], it[Q[n].who])
  BY DEF QueueOK
<1>4. \A n \in 1..Len(M) : RequestOK(M[n], t) /\ KindOK(M[n], it[M[n].who])
  BY <1>2, <1>3
<1>5. ASSUME NEW m \in 1..Len(M), NEW n \in 1..Len(M), m < n
      PROVE  /\ M[m].at <= M[n].at
             /\ M[m].who = M[n].who /\ M[m].job = M[n].job => M[m].job \notin {"main", "touch"}
  <2>1. m \in 1..Len(Q) /\ M[m] = Q[m]
    BY <1>0, <1>1, <1>5
  <2>2. CASE n \in 1..Len(Q) /\ M[n] = Q[n]
    BY <1>5, <2>1, <2>2 DEF QueueOK
  <2>3. CASE n = Len(Q) + 1 /\ M[n] = r
    BY <1>3, <2>1, <2>3 DEF RequestOK
  <2> QED BY <1>2, <2>2, <2>3
<1> QED BY <1>1, <1>4, <1>5 DEF QueueOK, M

LEMMA MoreKeepsLease ==
    ASSUME NEW Q, IsQueue(Q), NEW i, NEW ls, NEW s, NEW t, NEW r, r.at = t, LeaseOK(i, Q, ls, s, t)
    PROVE  LeaseOK(i, Append(Q, r), ls, s, t)
<1> DEFINE M == Append(Q, r)
<1>0. Len(Q) \in Nat
  BY DEF IsQueue
<1>1. IsQueue(M) /\ Len(M) = Len(Q) + 1 /\ (\A n \in 1..Len(Q) : M[n] = Q[n]) /\ M[Len(Q) + 1] = r
  BY QueueGrows
<1> HIDE DEF M
<1>2. \A n \in 1..Len(M) : (n \in 1..Len(Q) /\ M[n] = Q[n]) \/ (n = Len(Q) + 1 /\ M[n] = r)
  BY <1>0, <1>1
<1>3. ASSUME s.active PROVE HeldOrRenewed(i, t, Len(M) + 1, M, ls) /\ HeldOrRenewed(i, t, Len(Q) + 1, M, ls)
  <2>1. HeldOrRenewed(i, t, Len(Q) + 1, Q, ls)
    BY <1>3 DEF LeaseOK
  <2>2. ASSUME NEW k \in 1..((Len(Q) + 1) - 1), Renews(Q[k], i)
        PROVE  k \in 1..((Len(M) + 1) - 1) /\ Renews(M[k], i)
    <3>1. k \in 1..Len(Q)
      BY <1>0
    <3> QED BY <1>0, <1>1, <2>2, <3>1
  <2> QED BY <2>1, <2>2 DEF HeldOrRenewed
<1>4. ASSUME s.active, NEW n \in 1..Len(M) PROVE HeldOrRenewed(i, M[n].at, n, M, ls)
  <2>1. CASE n \in 1..Len(Q) /\ M[n] = Q[n]
    <3>1. HeldOrRenewed(i, Q[n].at, n, Q, ls)
      BY <1>4, <2>1 DEF LeaseOK
    <3>2. \A k \in 1..(n - 1) : M[k] = Q[k]
      BY <1>0, <1>1, <2>1
    <3> QED BY <2>1, <3>1, <3>2 DEF HeldOrRenewed
  <2>2. CASE n = Len(Q) + 1 /\ M[n] = r
    BY <1>3, <1>4, <2>2
  <2> QED BY <1>2, <2>1, <2>2
<1>5. ASSUME s.active PROVE Lasts(i, s.beat + 1, ls) \/ \E k \in 1..Len(M) : Renews(M[k], i) /\ M[k].at >= s.beat
  <2>1. Lasts(i, s.beat + 1, ls) \/ \E k \in 1..Len(Q) : Renews(Q[k], i) /\ Q[k].at >= s.beat
    BY <1>5 DEF LeaseOK
  <2>2. \A k \in 1..Len(Q) : k \in 1..Len(M) /\ M[k] = Q[k]
    BY <1>0, <1>1
  <2> QED BY <2>1, <2>2
<1>6. ls[i] # None =>
          /\ IsRecord(ls[i], {"until", "channels"}) /\ ls[i].until \in Int /\ ls[i].channels \subseteq Channels
          /\ ls[i].until <= t + Lease /\ \A k \in 1..Len(M) : ls[i].until <= M[k].at + Lease
  BY <1>2 DEF LeaseOK
<1> QED BY <1>3, <1>4, <1>5, <1>6 DEF LeaseOK, M

LEMMA MoreKeepsChannels ==
    ASSUME NEW Q, IsQueue(Q), NEW i, NEW ls, NEW s, NEW r, ChannelsOK(i, Q, ls, s), ~IsTouch(r, i), ~IsMain(r, i)
    PROVE  ChannelsOK(i, Append(Q, r), ls, s)
<1> DEFINE M == Append(Q, r)
<1>0. Len(Q) \in Nat
  BY DEF IsQueue
<1>1. IsQueue(M) /\ Len(M) = Len(Q) + 1 /\ (\A n \in 1..Len(Q) : M[n] = Q[n]) /\ M[Len(Q) + 1] = r
  BY QueueGrows
<1> HIDE DEF M
<1>2. \A n \in 1..Len(M) : IsTouch(M[n], i) \/ IsMain(M[n], i) => n \in 1..Len(Q) /\ M[n] = Q[n]
  BY <1>0, <1>1
<1>3. \A n \in 1..Len(Q) : n \in 1..Len(M) /\ M[n] = Q[n]
  BY <1>0, <1>1
<1>4. Untouched(i, Q) <=> Untouched(i, M)
  BY <1>2, <1>3 DEF Untouched
<1>5. s.main = "updating" => \A k \in 1..Len(M) : IsMain(M[k], i) => s.want.channels \subseteq M[k].channels
  BY <1>2 DEF ChannelsOK
<1>6. ~s.crossed /\ s.main = "open" => \A k \in 1..Len(M) : IsTouch(M[k], i) => s.channels \subseteq M[k].channels
  BY <1>2 DEF ChannelsOK
<1>7. ~s.crossed /\ s.main = "updating" => \A j, k \in 1..Len(M) : IsTouch(M[j], i) /\ IsMain(M[k], i) => j < k
  BY <1>2 DEF ChannelsOK
<1>8. ~s.crossed =>
          /\ s.main = "settling" => Untouched(i, M) /\ s.want.channels \subseteq ls[i].channels
          /\ s.main = "flushing" => Untouched(i, M) /\ s.channels \subseteq ls[i].channels
          /\ s.main = "open" /\ Untouched(i, M) => s.channels \subseteq ls[i].channels
  BY <1>4 DEF ChannelsOK
<1> QED BY <1>5, <1>6, <1>7, <1>8 DEF ChannelsOK, M

(* Leases are dropped, but none of an instance that is present. *)
LEMMA PrunedKeepsLease ==
    ASSUME NEW Q, NEW i, NEW ls, NEW other, NEW s, NEW t, LeaseOK(i, Q, ls, s, t),
           other[i] \in {ls[i], None}, s.active => other[i] = ls[i]
    PROVE  LeaseOK(i, Q, other, s, t)
<1>1. ASSUME s.active PROVE other[i] = ls[i]
  BY <1>1
<1>2. ASSUME s.active PROVE \A at, n : HeldOrRenewed(i, at, n, Q, ls) <=> HeldOrRenewed(i, at, n, Q, other)
  BY <1>1, <1>2 DEF HeldOrRenewed, Lasts
<1>3. ASSUME s.active PROVE Lasts(i, s.beat + 1, ls) <=> Lasts(i, s.beat + 1, other)
  BY <1>1, <1>3 DEF Lasts
<1>4. other[i] # None => other[i] = ls[i]
  OBVIOUS
<1> QED BY <1>2, <1>3, <1>4 DEF LeaseOK

LEMMA PrunedKeepsChannels ==
    ASSUME NEW Q, NEW i, NEW ls, NEW other, NEW s, ChannelsOK(i, Q, ls, s), InstOK(s),
           s.active => other[i] = ls[i]
    PROVE  ChannelsOK(i, Q, other, s)
  BY DEF ChannelsOK, InstOK, Present

--------------------------------------------------------------------------------
(* Instances. *)

(* What the invariant asks of an instance is the same of both. *)
AlikeInst(s, q) ==
    /\ IsRecord(q, InstFields)
    /\ q.main = s.main /\ q.active = s.active /\ q.handles = s.handles /\ q.beat = s.beat /\ q.touch = s.touch
    /\ q.crossed = s.crossed /\ q.channels = s.channels /\ q.want = s.want

LEMMA ToldIsAlike == ASSUME NEW s, NEW p, InstOK(s) PROVE AlikeInst(s, Told(s, p))
  BY DEF InstOK, AlikeInst, Told, IsRecord, InstFields
LEMMA AppliedIsAlike == ASSUME NEW s, NEW cs, IsRecord(s, InstFields) PROVE AlikeInst(s, Applied(s, cs))
  BY DEF AlikeInst, Applied, IsRecord, InstFields
LEMMA PendingIsAlike == ASSUME NEW s, IsRecord(s, InstFields) PROVE AlikeInst(s, PendingApplied(s))
<1> DEFINE q == [s EXCEPT !.needs = FALSE, !.missed = FALSE]
<1>1. AlikeInst(s, q)
  BY DEF AlikeInst, IsRecord, InstFields
<1>2. AlikeInst(q, Applied(q, s.channels))
  BY <1>1, AppliedIsAlike DEF AlikeInst
<1>3. AlikeInst(s, Applied(q, s.channels)) /\ AlikeInst(s, s)
  BY <1>1, <1>2 DEF AlikeInst
<1> QED BY <1>3 DEF PendingApplied

LEMMA AlikeKeeps ==
    ASSUME NEW s, NEW q, InstOK(s), AlikeInst(s, q)
    PROVE  /\ InstOK(q)
           /\ \A i, Q, ls, t : LeaseOK(i, Q, ls, s, t) => LeaseOK(i, Q, ls, q, t)
           /\ \A i, Q, ls : ChannelsOK(i, Q, ls, s) => ChannelsOK(i, Q, ls, q)
           /\ \A r : KindOK(r, s) => KindOK(r, q)
<1>1. InstOK(q)
  BY DEF InstOK, AlikeInst
<1>2. \A i, Q, ls, t : LeaseOK(i, Q, ls, s, t) => LeaseOK(i, Q, ls, q, t)
  BY DEF LeaseOK, AlikeInst
<1>3. \A i, Q, ls : ChannelsOK(i, Q, ls, s) => ChannelsOK(i, Q, ls, q)
  BY DEF ChannelsOK, AlikeInst
<1>4. \A r : KindOK(r, s) => KindOK(r, q)
  BY DEF KindOK, AlikeInst
<1> QED BY <1>1, <1>2, <1>3, <1>4

(* The queue, when one instance changes. *)
LEMMA OneChangesQueue ==
    ASSUME NEW Q, NEW it, NEW t, NEW i \in Insts, NEW s, QueueOK(Q, it, t), it = [j \in Insts |-> it[j]],
           \A n \in 1..Len(Q) : Q[n].who = i => KindOK(Q[n], s)
    PROVE  QueueOK(Q, [it EXCEPT ![i] = s], t)
<1>1. \A n \in 1..Len(Q) : Q[n].who \in Insts
  BY DEF QueueOK, RequestOK
<1>2. \A n \in 1..Len(Q) : KindOK(Q[n], [it EXCEPT ![i] = s][Q[n].who])
  BY <1>1 DEF QueueOK
<1> QED BY <1>2 DEF QueueOK

--------------------------------------------------------------------------------
(* Steps that leave the lock alone. *)

(* An instance changes, and may ask for the lock. *)
LEMMA AskingKeeps ==
    ASSUME RegInv, ShapeOK', NEW i \in Insts, NEW s, InstOK(s), s.active => inst[i].active,
           now' = now, leases' = leases, hold' = hold, inst' = [inst EXCEPT ![i] = s],
           \A n \in 1..Len(requests) : requests[n].who = i => KindOK(requests[n], s),
           LeaseOK(i, requests, leases, s, now) \/ LeaseOK(i, requests', leases, s, now), ChannelsOK(i, requests', leases, s),
           \/ requests' = requests
           \/ \E r : /\ requests' = Append(requests, r)
                     /\ RequestOK(r, now) /\ KindOK(r, s) /\ r.at = now /\ r.who = i
                     /\ \A n \in 1..Len(requests) : requests[n].who = i /\ requests[n].job = r.job => r.job \notin {"main", "touch"}
    PROVE  RegInv'
<1> DEFINE it == [inst EXCEPT ![i] = s]
<1>0. /\ QueueOK(requests, inst, now) /\ HoldOK(requests, hold, inst) /\ inst = [j \in Insts |-> inst[j]] /\ now \in Int
      /\ IsQueue(requests) /\ Len(requests) \in Nat
  BY DEF RegInv, ShapeOK, QueueOK, IsQueue
<1>1. QueueOK(requests, it, now)
  BY <1>0, OneChangesQueue
<1>2. it[i] = s /\ \A j \in Insts \ {i} : it[j] = inst[j]
  BY <1>0
<1>3. QueueOK(requests', it, now) /\ Len(requests') \in Nat /\ Len(requests') >= Len(requests)
      /\ \A n \in 1..Len(requests) : requests'[n] = requests[n]
  <2>1. CASE requests' = requests
    BY <1>0, <1>1, <2>1
  <2>2. CASE \E r : /\ requests' = Append(requests, r)
                    /\ RequestOK(r, now) /\ KindOK(r, s) /\ r.at = now /\ r.who = i
                    /\ \A n \in 1..Len(requests) : requests[n].who = i /\ requests[n].job = r.job => r.job \notin {"main", "touch"}
    <3>1. PICK r : /\ requests' = Append(requests, r)
                   /\ RequestOK(r, now) /\ KindOK(r, s) /\ r.at = now /\ r.who = i
                   /\ \A n \in 1..Len(requests) : requests[n].who = i /\ requests[n].job = r.job => r.job \notin {"main", "touch"}
      BY <2>2
    <3> HIDE DEF it
    <3>2. QueueOK(requests', it, now)
      BY <1>0, <1>1, <1>2, <3>1, MoreKeepsQueue
    <3> QED BY <1>0, <3>1, <3>2, QueueGrows
  <2> QED BY <2>1, <2>2
<1>4. ASSUME NEW j \in Insts, j # i
      PROVE  InstOK(inst[j]) /\ LeaseOK(j, requests', leases, inst[j], now) /\ ChannelsOK(j, requests', leases, inst[j])
  <2>1. InstOK(inst[j]) /\ LeaseOK(j, requests, leases, inst[j], now) /\ ChannelsOK(j, requests, leases, inst[j])
    BY DEF RegInv
  <2>2. ASSUME NEW r, requests' = Append(requests, r), r.at = now, r.who = i
        PROVE LeaseOK(j, requests', leases, inst[j], now) /\ ChannelsOK(j, requests', leases, inst[j])
    <3>1. ~IsTouch(r, j) /\ ~IsMain(r, j)
      BY <1>4, <2>2 DEF IsTouch, IsMain
    <3> QED BY <1>0, <2>1, <2>2, <3>1, MoreKeepsLease, MoreKeepsChannels
  <2> QED BY <2>1, <2>2
<1>5. LeaseOK(i, requests', leases, s, now)
  BY <1>0, MoreKeepsLease
<1>6. HoldOK(requests', hold, it)
  <2>1. \A j \in Insts : hold[j] # "free" => Len(requests') >= 1 /\ requests'[1].who = j /\ requests'[1].op = "maintain"
    BY <1>0, <1>3 DEF HoldOK
  <2>2. \A j \in Insts : hold[j] = "deleting" => \A k \in Insts : ~it[k].active
    BY <1>0, <1>2 DEF HoldOK
  <2> QED BY <2>1, <2>2 DEF HoldOK
<1>7. \A j \in Insts : InstOK(it[j]) /\ LeaseOK(j, requests', leases, it[j], now) /\ ChannelsOK(j, requests', leases, it[j])
  BY <1>2, <1>4, <1>5
<1> HIDE DEF it
<1>8. inst' = it
  BY DEF it
<1> QED BY <1>3, <1>6, <1>7, <1>8 DEF RegInv

(* Bounds that count down, and steps of the instance alone. *)
SameBounds(e) ==
    /\ IsRecord(e, LifeFields) /\ e.time = life.time /\ e.locks = life.locks /\ e.channels = life.channels
    /\ e.updates \subseteq life.updates
LEMMA ShapeKept ==
    ASSUME ShapeOK, SameBounds(life'), now' = now, set' = set, files' \in BOOLEAN, retry' \subseteq Insts, hold' = hold,
           leases' = leases, NEW i \in Insts, NEW s, inst' = [inst EXCEPT ![i] = s]
    PROVE  ShapeOK'
  BY DEF ShapeOK, SameBounds
LEMMA NobodyOutlives == ASSUME ShapeOK PROVE SameBounds(life)
  BY DEF ShapeOK, SameBounds

(* The facts of an instance that the steps below start from. *)
LEMMA InstanceFacts ==
    ASSUME RegInv, NEW i \in Insts
    PROVE  /\ InstOK(inst[i]) /\ LeaseOK(i, requests, leases, inst[i], now) /\ ChannelsOK(i, requests, leases, inst[i])
           /\ \A n \in 1..Len(requests) : requests[n].who = i => RequestOK(requests[n], now) /\ KindOK(requests[n], inst[i])
           /\ ShapeOK /\ now \in Int /\ IsQueue(requests) /\ Len(requests) \in Nat /\ SameBounds(life)
  BY NobodyOutlives DEF RegInv, QueueOK, ShapeOK, IsQueue

(* A request that was made now and names no channels. *)
LEMMA RequestMade ==
    ASSUME NEW i \in Insts, now \in Int, NEW job, NEW op,
           \/ job = "main" /\ op \in {"activate", "read", "release"}
           \/ job = "refresh" /\ op = "read"
           \/ job \in {"main", "care", "purge", "retry"} /\ op = "maintain"
    PROVE  LET r == LockRequest(i, job, op) IN RequestOK(r, now) /\ r.at = now /\ r.who = i /\ r.job = job /\ r.op = op
<1> DEFINE r == LockRequest(i, job, op)
<1>1. IsRecord(r, {"who", "job", "op", "at", "channels", "policy"})
  BY DEF LockRequest, IsRecord
<1>2. r.who = i /\ r.job = job /\ r.op = op /\ r.at = now /\ r.channels = {}
  BY DEF LockRequest
<1> HIDE DEF r
<1>3. r.channels \subseteq Channels
  BY <1>2
<1>4. RequestOK(r, now)
  BY <1>1, <1>2, <1>3 DEF RequestOK
<1> QED BY <1>2, <1>4 DEF r

LEMMA StartKeeps == ASSUME RegInv, NEW i \in Insts, StartPage(i) PROVE RegInv'
<1> DEFINE p == life.policies[i]
           r == [LockRequest(i, "main", "activate") EXCEPT !.policy = p]
           s == [inst[i] EXCEPT !.main = "activating", !.stale = p.stale, !.keep = p.keep]
<1>0. /\ inst[i].main = "new" /\ requests' = Append(requests, r) /\ inst' = [inst EXCEPT ![i] = s]
      /\ UNCHANGED <<life, now, set, leases, hold, files, retry, news>>
  BY DEF StartPage, Asks
<1>1. /\ InstOK(inst[i]) /\ LeaseOK(i, requests, leases, inst[i], now) /\ ChannelsOK(i, requests, leases, inst[i])
      /\ \A n \in 1..Len(requests) : requests[n].who = i => RequestOK(requests[n], now) /\ KindOK(requests[n], inst[i])
      /\ ShapeOK /\ now \in Int /\ IsQueue(requests) /\ Len(requests) \in Nat /\ SameBounds(life)
  BY InstanceFacts
<1>2. RequestOK(r, now) /\ r.at = now /\ r.who = i /\ r.job = "main" /\ r.op = "activate"
  <2> DEFINE m == LockRequest(i, "main", "activate")
  <2>1. RequestOK(m, now) /\ m.at = now /\ m.who = i /\ m.job = "main" /\ m.op = "activate"
    BY <1>1, RequestMade
  <2> HIDE DEF m
  <2>2. r = [m EXCEPT !.policy = p]
    BY DEF m
  <2> QED BY <2>1, <2>2 DEF RequestOK, IsRecord
<1>3. InstOK(s) /\ ~s.active /\ s.main = "activating"
  BY <1>0, <1>1 DEF InstOK, IsRecord, InstFields, Present
<1> HIDE DEF r, s
<1>4. KindOK(r, s)
  BY <1>2, <1>3 DEF KindOK, AskedAt
<1>5. ASSUME NEW n \in 1..Len(requests), requests[n].who = i PROVE requests[n].job \notin {"main", "touch"} /\ requests[n].op # "release"
  BY <1>0, <1>1, <1>5 DEF InstOK, RequestOK, KindOK, AskedAt, Present
<1>6. \A n \in 1..Len(requests) : requests[n].who = i => KindOK(requests[n], s)
  BY <1>5 DEF KindOK
<1>7. LeaseOK(i, requests, leases, s, now)
  BY <1>1, <1>3 DEF LeaseOK
<1>8. ChannelsOK(i, requests', leases, s)
  BY <1>3 DEF ChannelsOK
<1>9. ShapeOK'
  BY <1>0, <1>1, ShapeKept, files \in BOOLEAN, retry \subseteq Insts DEF SameBounds, ShapeOK
<1> QED BY <1>0, <1>2, <1>3, <1>4, <1>5, <1>6, <1>7, <1>8, <1>9, AskingKeeps

LEMMA OpensKeeps == ASSUME RegInv, NEW i \in Insts, Opens(i) PROVE RegInv'
<1> DEFINE r == [LockRequest(i, "main", "activate") EXCEPT !.channels = life.channels]
           s == [inst[i] EXCEPT !.main = "updating", !.handles = TRUE, !.beat = now,
                                !.want = [channels |-> life.channels, policy |-> None, named |-> {}]]
<1>0. /\ inst[i].main = "maintained" /\ requests' = Append(requests, r) /\ inst' = [inst EXCEPT ![i] = s]
      /\ UNCHANGED <<life, now, set, leases, hold, retry, news>> /\ files' = TRUE
  BY DEF Opens
<1>1. /\ InstOK(inst[i]) /\ LeaseOK(i, requests, leases, inst[i], now) /\ ChannelsOK(i, requests, leases, inst[i])
      /\ \A n \in 1..Len(requests) : requests[n].who = i => RequestOK(requests[n], now) /\ KindOK(requests[n], inst[i])
      /\ ShapeOK /\ now \in Int /\ IsQueue(requests) /\ Len(requests) \in Nat /\ SameBounds(life)
  BY InstanceFacts
<1>2. RequestOK(r, now) /\ r.at = now /\ r.who = i /\ r.job = "main" /\ r.op = "activate" /\ r.channels = life.channels
  BY <1>1 DEF LockRequest, RequestOK, IsRecord, ShapeOK
<1>3. /\ InstOK(s) /\ s.active /\ inst[i].active /\ s.main = "updating" /\ s.touch = inst[i].touch /\ s.crossed = inst[i].crossed
      /\ s.beat = now /\ s.want.channels = life.channels
  BY <1>0, <1>1 DEF InstOK, IsRecord, InstFields, Present, ShapeOK
<1> HIDE DEF r, s
<1>4. KindOK(r, s)
  BY <1>2, <1>3 DEF KindOK, AskedAt
<1>5. ASSUME NEW n \in 1..Len(requests), requests[n].who = i PROVE requests[n].job # "main" /\ requests[n].op # "release"
  BY <1>0, <1>1, <1>5 DEF InstOK, RequestOK, KindOK, AskedAt, Present
<1>6. \A n \in 1..Len(requests) : requests[n].who = i => KindOK(requests[n], s)
  BY <1>1, <1>3, <1>5 DEF KindOK
<1>a. /\ Len(requests') = Len(requests) + 1 /\ (\A n \in 1..Len(requests) : requests'[n] = requests[n])
      /\ requests'[Len(requests) + 1] = r
  BY <1>0, <1>1, QueueGrows
<1>7. LeaseOK(i, requests', leases, s, now)
  <2>1. LeaseOK(i, requests', leases, inst[i], now)
    BY <1>0, <1>1, <1>2, MoreKeepsLease
  <2>2. \E k \in 1..Len(requests') : Renews(requests'[k], i) /\ requests'[k].at >= s.beat
    BY <1>1, <1>2, <1>3, <1>a DEF Renews
  <2> QED BY <1>3, <2>1, <2>2 DEF LeaseOK
<1>8. ChannelsOK(i, requests', leases, s)
  <2>1. \A n \in 1..Len(requests') : IsMain(requests'[n], i) => n = Len(requests) + 1 /\ requests'[n] = r
    BY <1>1, <1>5, <1>a DEF IsMain
  <2>2. \A n \in 1..Len(requests') : IsTouch(requests'[n], i) => n < Len(requests) + 1
    BY <1>1, <1>2, <1>a DEF IsTouch
  <2> QED BY <1>2, <1>3, <2>1, <2>2 DEF ChannelsOK
<1>9. ShapeOK'
  BY <1>0, <1>1, ShapeKept, retry \subseteq Insts DEF SameBounds, ShapeOK
<1> QED BY <1>0, <1>2, <1>3, <1>4, <1>5, <1>6, <1>7, <1>8, <1>9, AskingKeeps

LEMMA UpdateKeeps == ASSUME RegInv, NEW i \in Insts, NEW u \in life.updates, Update(i, u) PROVE RegInv'
<1>0. /\ inst[i].main = "open" /\ life' = [life EXCEPT !.updates = @ \ {u}]
      /\ UNCHANGED <<now, set, leases, hold, files, retry, news>>
  BY DEF Update, Asks
<1>1. /\ InstOK(inst[i]) /\ LeaseOK(i, requests, leases, inst[i], now) /\ ChannelsOK(i, requests, leases, inst[i])
      /\ \A n \in 1..Len(requests) : requests[n].who = i => RequestOK(requests[n], now) /\ KindOK(requests[n], inst[i])
      /\ ShapeOK /\ now \in Int /\ IsQueue(requests) /\ Len(requests) \in Nat /\ SameBounds(life)
  BY InstanceFacts
<1>2. u.channels \subseteq Channels /\ IsRecord(u, {"channels", "policy", "named"}) /\ files \in BOOLEAN /\ retry \subseteq Insts
  BY <1>1 DEF ShapeOK
<1>3. SameBounds(life')
  BY <1>0, <1>1 DEF SameBounds, IsRecord, LifeFields
<1>4. \A s : inst' = [inst EXCEPT ![i] = s] => ShapeOK'
  BY <1>0, <1>1, <1>2, <1>3, ShapeKept
<1>5. ASSUME NEW n \in 1..Len(requests), requests[n].who = i PROVE requests[n].job # "main" /\ requests[n].op # "release"
  BY <1>0, <1>1, <1>5 DEF InstOK, RequestOK, KindOK, AskedAt, Present
<1>6. ASSUME NEW r, NEW s, Asks(i, r, s), RequestOK(r, now), r.at = now, r.who = i, r.job = "main", r.op \in {"activate", "read"},
             InstOK(s), s.main \in AskedAt(r.op), s.main \in {"updating", "reading"}, s.active = inst[i].active, s.touch = inst[i].touch,
             s.handles = inst[i].handles, s.beat = inst[i].beat, s.main = "updating" => s.want.channels \subseteq r.channels
      PROVE  RegInv'
  <2>1. requests' = Append(requests, r) /\ inst' = [inst EXCEPT ![i] = s]
    BY <1>6 DEF Asks
  <2>2. /\ Len(requests') = Len(requests) + 1 /\ (\A n \in 1..Len(requests) : requests'[n] = requests[n])
        /\ requests'[Len(requests) + 1] = r
    BY <2>1, <1>1, QueueGrows
  <2>3. KindOK(r, s)
    BY <1>6 DEF KindOK
  <2>4. \A n \in 1..Len(requests) : requests[n].who = i => KindOK(requests[n], s)
    BY <1>1, <1>5, <1>6 DEF KindOK
  <2>5. LeaseOK(i, requests, leases, s, now)
    BY <1>1, <1>6 DEF LeaseOK
  <2>6. ChannelsOK(i, requests', leases, s)
    <3>1. \A n \in 1..Len(requests') : IsMain(requests'[n], i) => n = Len(requests) + 1 /\ requests'[n] = r
      BY <1>1, <1>5, <2>2 DEF IsMain
    <3>2. \A n \in 1..Len(requests') : IsTouch(requests'[n], i) => n < Len(requests) + 1
      BY <1>1, <1>6, <2>2 DEF IsTouch
    <3> QED BY <1>6, <3>1, <3>2 DEF ChannelsOK
  <2> QED BY <1>0, <1>4, <1>5, <1>6, <2>1, <2>3, <2>4, <2>5, <2>6, AskingKeeps
<1>7. CASE u.policy = None
  <2> DEFINE r == [LockRequest(i, "main", "activate") EXCEPT !.channels = u.channels]
             s == [inst[i] EXCEPT !.main = "updating", !.want = u]
  <2>1. Asks(i, r, s)
    BY <1>7 DEF Update
  <2>2. RequestOK(r, now) /\ r.at = now /\ r.who = i /\ r.job = "main" /\ r.op = "activate" /\ r.channels = u.channels
    BY <1>1, <1>2 DEF LockRequest, RequestOK, IsRecord
  <2>3. /\ InstOK(s) /\ s.main = "updating" /\ s.active = inst[i].active /\ s.touch = inst[i].touch
        /\ s.handles = inst[i].handles /\ s.beat = inst[i].beat /\ s.want = u
    BY <1>0, <1>1, <1>2 DEF InstOK, IsRecord, InstFields, Present
  <2> HIDE DEF r, s
  <2>4. s.main \in AskedAt(r.op)
    BY <2>2, <2>3 DEF AskedAt
  <2> QED BY <2>1, <2>2, <2>3, <2>4, <1>6
<1>8. CASE u.policy # None
  <2> DEFINE r == LockRequest(i, "main", "read")
             w == [u EXCEPT !.channels = inst[i].channels]
             s == [inst[i] EXCEPT !.main = "reading", !.want = w]
  <2>1. Asks(i, r, s)
    BY <1>8 DEF Update
  <2>2. RequestOK(r, now) /\ r.at = now /\ r.who = i /\ r.job = "main" /\ r.op = "read"
    BY <1>1, RequestMade
  <2>3. w.channels \subseteq Channels
    BY <1>1, <1>2 DEF IsRecord, InstOK
  <2> HIDE DEF w
  <2>4. /\ InstOK(s) /\ s.main = "reading" /\ s.active = inst[i].active /\ s.touch = inst[i].touch
        /\ s.handles = inst[i].handles /\ s.beat = inst[i].beat
    BY <1>0, <1>1, <2>3 DEF InstOK, IsRecord, InstFields, Present
  <2> HIDE DEF r, s
  <2>5. s.main \in AskedAt(r.op)
    BY <2>2, <2>4 DEF AskedAt
  <2> QED BY <2>1, <2>2, <2>4, <2>5, <1>6
<1> QED BY <1>7, <1>8

(* Steps that change an instance in what the invariant does not see, or not the queue. *)
LEMMA BecomesKeeps ==
    ASSUME RegInv, NEW i \in Insts, NEW s, InstOK(s), s.active => inst[i].active, inst' = [inst EXCEPT ![i] = s],
           now' = now, set' = set, leases' = leases, requests' = requests, hold' = hold, files' = files, retry' = retry, SameBounds(life'),
           \A n \in 1..Len(requests) : requests[n].who = i => KindOK(requests[n], s),
           LeaseOK(i, requests, leases, s, now), ChannelsOK(i, requests, leases, s)
    PROVE  RegInv'
<1>1. ShapeOK /\ files \in BOOLEAN /\ retry \subseteq Insts
  BY DEF RegInv, ShapeOK
<1>2. ShapeOK'
  BY <1>1, ShapeKept
<1> QED BY <1>2, AskingKeeps

LEMMA SettleKeeps == ASSUME RegInv, NEW i \in Insts, SettleUpdate(i) PROVE RegInv'
<1> DEFINE q == [inst[i] EXCEPT !.channels = inst[i].want.channels, !.main = "flushing"]
           cs == IF inst[i].want.policy # None THEN inst[i].want.channels ELSE inst[i].want.channels \ inst[i].channels
           s == Applied(q, cs)
<1>0. inst[i].main = "settling" /\ inst' = [inst EXCEPT ![i] = s] /\ UNCHANGED <<life, now, set, leases, requests, hold, files, retry>>
  BY DEF SettleUpdate, Becomes
<1>1. /\ InstOK(inst[i]) /\ LeaseOK(i, requests, leases, inst[i], now) /\ ChannelsOK(i, requests, leases, inst[i])
      /\ \A n \in 1..Len(requests) : requests[n].who = i => RequestOK(requests[n], now) /\ KindOK(requests[n], inst[i])
      /\ SameBounds(life)
  BY InstanceFacts
<1>2. /\ InstOK(q) /\ q.main = "flushing" /\ q.active = inst[i].active /\ q.touch = inst[i].touch /\ q.handles = inst[i].handles
      /\ q.beat = inst[i].beat /\ q.crossed = inst[i].crossed /\ q.channels = inst[i].want.channels
  BY <1>0, <1>1 DEF InstOK, IsRecord, InstFields, Present
<1> HIDE DEF q, cs
<1>3. ASSUME NEW n \in 1..Len(requests), requests[n].who = i PROVE KindOK(requests[n], q)
  BY <1>0, <1>1, <1>2, <1>3 DEF KindOK, RequestOK, AskedAt
<1>4. LeaseOK(i, requests, leases, q, now)
  BY <1>1, <1>2 DEF LeaseOK
<1>5. ChannelsOK(i, requests, leases, q)
  BY <1>0, <1>1, <1>2 DEF ChannelsOK
<1>6. AlikeInst(q, s)
  BY <1>2, AppliedIsAlike DEF InstOK
<1> HIDE DEF s
<1>7. InstOK(s) /\ s.active = inst[i].active
  BY <1>2, <1>6, AlikeKeeps DEF AlikeInst
<1>8. LeaseOK(i, requests, leases, s, now) /\ ChannelsOK(i, requests, leases, s)
      /\ \A n \in 1..Len(requests) : requests[n].who = i => KindOK(requests[n], s)
  BY <1>2, <1>3, <1>4, <1>5, <1>6, AlikeKeeps
<1> QED BY <1>0, <1>1, <1>7, <1>8, BecomesKeeps

LEMMA FlushKeeps == ASSUME RegInv, NEW i \in Insts, Flush(i) PROVE RegInv'
<1>0. /\ inst[i].main = "flushing" /\ UNCHANGED <<life, now, set, leases, requests, hold, files, retry>>
      /\ \E s \in {Flushed(inst[i]), [Flushed(inst[i]) EXCEPT !.wanted = TRUE]} : inst' = [inst EXCEPT ![i] = s]
  BY DEF Flush, Becomes
<1>1. PICK s \in {Flushed(inst[i]), [Flushed(inst[i]) EXCEPT !.wanted = TRUE]} : inst' = [inst EXCEPT ![i] = s]
  BY <1>0
<1>2. /\ InstOK(inst[i]) /\ LeaseOK(i, requests, leases, inst[i], now) /\ ChannelsOK(i, requests, leases, inst[i])
      /\ \A n \in 1..Len(requests) : requests[n].who = i => RequestOK(requests[n], now) /\ KindOK(requests[n], inst[i])
      /\ SameBounds(life)
  BY InstanceFacts
<1>3. /\ InstOK(s) /\ s.main = "open" /\ s.active = inst[i].active /\ s.touch = inst[i].touch /\ s.handles = inst[i].handles
      /\ s.beat = inst[i].beat /\ s.crossed = inst[i].crossed /\ s.channels = inst[i].channels
  <2> DEFINE f == Flushed(inst[i])
  <2>1. /\ InstOK(f) /\ f.main = "open" /\ f.active = inst[i].active /\ f.touch = inst[i].touch /\ f.handles = inst[i].handles
        /\ f.beat = inst[i].beat /\ f.crossed = inst[i].crossed /\ f.channels = inst[i].channels
    BY <1>0, <1>2 DEF InstOK, IsRecord, InstFields, Present, Flushed
  <2>2. AlikeInst(f, f) /\ AlikeInst(f, [f EXCEPT !.wanted = TRUE])
    <3> HIDE DEF f
    <3> QED BY <2>1 DEF AlikeInst, InstOK, IsRecord, InstFields
  <2> HIDE DEF f
  <2>3. AlikeInst(f, s)
    BY <1>1, <2>2 DEF f
  <2> QED BY <2>1, <2>3, AlikeKeeps DEF AlikeInst
<1>4. ASSUME NEW n \in 1..Len(requests), requests[n].who = i PROVE KindOK(requests[n], s)
  BY <1>0, <1>2, <1>3, <1>4 DEF KindOK, RequestOK, AskedAt
<1>5. LeaseOK(i, requests, leases, s, now)
  BY <1>2, <1>3 DEF LeaseOK
<1>6. ChannelsOK(i, requests, leases, s)
  BY <1>0, <1>2, <1>3 DEF ChannelsOK, Untouched
<1> QED BY <1>0, <1>1, <1>2, <1>3, <1>4, <1>5, <1>6, BecomesKeeps

LEMMA HearKeeps == ASSUME RegInv, NEW i \in Insts, Hear(i) PROVE RegInv'
<1> DEFINE s == [inst[i] EXCEPT !.wanted = @ \/ (inst[i].listens /\ news[i] > inst[i].rev)]
<1>0. inst' = [inst EXCEPT ![i] = s] /\ UNCHANGED <<life, now, set, leases, requests, hold, files, retry>>
  BY DEF Hear, Becomes
<1>1. /\ InstOK(inst[i]) /\ LeaseOK(i, requests, leases, inst[i], now) /\ ChannelsOK(i, requests, leases, inst[i])
      /\ \A n \in 1..Len(requests) : requests[n].who = i => RequestOK(requests[n], now) /\ KindOK(requests[n], inst[i])
      /\ SameBounds(life)
  BY InstanceFacts
<1>2. AlikeInst(inst[i], s)
  BY <1>1 DEF AlikeInst, InstOK, IsRecord, InstFields
<1> HIDE DEF s
<1>3. InstOK(s) /\ s.active = inst[i].active /\ LeaseOK(i, requests, leases, s, now) /\ ChannelsOK(i, requests, leases, s)
      /\ \A n \in 1..Len(requests) : requests[n].who = i => KindOK(requests[n], s)
  BY <1>1, <1>2, AlikeKeeps DEF AlikeInst
<1> QED BY <1>0, <1>1, <1>3, BecomesKeeps

LEMMA RefreshKeeps == ASSUME RegInv, NEW i \in Insts, Refresh(i) PROVE RegInv'
<1> DEFINE r == LockRequest(i, "refresh", "read")
           s == [inst[i] EXCEPT !.refresh = TRUE, !.wanted = FALSE]
<1>0. /\ requests' = Append(requests, r) /\ inst' = [inst EXCEPT ![i] = s]
      /\ UNCHANGED <<life, now, set, leases, hold, files, retry, news>>
  BY DEF Refresh, Asks
<1>1. /\ InstOK(inst[i]) /\ LeaseOK(i, requests, leases, inst[i], now) /\ ChannelsOK(i, requests, leases, inst[i])
      /\ \A n \in 1..Len(requests) : requests[n].who = i => RequestOK(requests[n], now) /\ KindOK(requests[n], inst[i])
      /\ ShapeOK /\ now \in Int /\ IsQueue(requests) /\ SameBounds(life)
  BY InstanceFacts
<1>2. RequestOK(r, now) /\ r.at = now /\ r.who = i /\ r.job = "refresh" /\ r.op = "read"
  BY <1>1, RequestMade
<1>3. AlikeInst(inst[i], s)
  BY <1>1 DEF AlikeInst, InstOK, IsRecord, InstFields
<1> HIDE DEF r, s
<1>4. KindOK(r, s)
  BY <1>2 DEF KindOK
<1>5. InstOK(s) /\ s.active = inst[i].active /\ LeaseOK(i, requests, leases, s, now) /\ ChannelsOK(i, requests, leases, s)
      /\ \A n \in 1..Len(requests) : requests[n].who = i => KindOK(requests[n], s)
  BY <1>1, <1>3, AlikeKeeps DEF AlikeInst
<1>6. ChannelsOK(i, requests', leases, s)
  BY <1>0, <1>1, <1>2, <1>5, MoreKeepsChannels DEF IsTouch, IsMain
<1>7. ShapeOK'
  BY <1>0, <1>1, ShapeKept, files \in BOOLEAN, retry \subseteq Insts DEF SameBounds, ShapeOK
<1> QED BY <1>0, <1>2, <1>4, <1>5, <1>6, <1>7, AskingKeeps

LEMMA MaintainKeeps == ASSUME RegInv, NEW i \in Insts, Maintain(i) PROVE RegInv'
<1> DEFINE r == LockRequest(i, "care", "maintain")
           s == [inst[i] EXCEPT !.care = TRUE]
<1>0. /\ requests' = Append(requests, r) /\ inst' = [inst EXCEPT ![i] = s] /\ life' = [life EXCEPT !.cares = @ - 1]
      /\ UNCHANGED <<now, set, leases, hold, files, retry, news>>
  BY DEF Maintain, Asks
<1>1. /\ InstOK(inst[i]) /\ LeaseOK(i, requests, leases, inst[i], now) /\ ChannelsOK(i, requests, leases, inst[i])
      /\ \A n \in 1..Len(requests) : requests[n].who = i => RequestOK(requests[n], now) /\ KindOK(requests[n], inst[i])
      /\ ShapeOK /\ now \in Int /\ IsQueue(requests) /\ SameBounds(life)
  BY InstanceFacts
<1>2. RequestOK(r, now) /\ r.at = now /\ r.who = i /\ r.job = "care" /\ r.op = "maintain"
  BY <1>1, RequestMade
<1>3. AlikeInst(inst[i], s)
  BY <1>1 DEF AlikeInst, InstOK, IsRecord, InstFields
<1> HIDE DEF r, s
<1>4. KindOK(r, s)
  BY <1>2 DEF KindOK
<1>5. InstOK(s) /\ s.active = inst[i].active /\ LeaseOK(i, requests, leases, s, now) /\ ChannelsOK(i, requests, leases, s)
      /\ \A n \in 1..Len(requests) : requests[n].who = i => KindOK(requests[n], s)
  BY <1>1, <1>3, AlikeKeeps DEF AlikeInst
<1>6. ChannelsOK(i, requests', leases, s)
  BY <1>0, <1>1, <1>2, <1>5, MoreKeepsChannels DEF IsTouch, IsMain
<1>7. SameBounds(life') /\ files \in BOOLEAN /\ retry \subseteq Insts
  BY <1>0, <1>1 DEF SameBounds, IsRecord, LifeFields, ShapeOK
<1>8. ShapeOK'
  BY <1>0, <1>1, <1>7, ShapeKept
<1> QED BY <1>0, <1>2, <1>4, <1>5, <1>6, <1>8, AskingKeeps

LEMMA RetryKeeps == ASSUME RegInv, NEW i \in Insts, RetryTimer(i) PROVE RegInv'
<1> DEFINE r == LockRequest(i, "retry", "maintain")
<1>0. /\ requests' = Append(requests, r) /\ retry' = retry \ {i}
      /\ UNCHANGED <<life, now, set, leases, hold, files, inst, news>>
  BY DEF RetryTimer
<1>1. /\ InstOK(inst[i]) /\ LeaseOK(i, requests, leases, inst[i], now) /\ ChannelsOK(i, requests, leases, inst[i])
      /\ \A n \in 1..Len(requests) : requests[n].who = i => RequestOK(requests[n], now) /\ KindOK(requests[n], inst[i])
      /\ ShapeOK /\ now \in Int /\ IsQueue(requests) /\ SameBounds(life)
  BY InstanceFacts
<1>2. RequestOK(r, now) /\ r.at = now /\ r.who = i /\ r.job = "retry" /\ r.op = "maintain"
  BY <1>1, RequestMade
<1> HIDE DEF r
<1>3. KindOK(r, inst[i])
  BY <1>2 DEF KindOK
<1>4. inst' = [inst EXCEPT ![i] = inst[i]]
  BY <1>0, <1>1 DEF ShapeOK
<1>5. ChannelsOK(i, requests', leases, inst[i])
  BY <1>0, <1>1, <1>2, MoreKeepsChannels DEF IsTouch, IsMain
<1>6. ShapeOK'
  BY <1>0, <1>1 DEF ShapeOK
<1> QED BY <1>0, <1>1, <1>2, <1>3, <1>4, <1>5, <1>6, AskingKeeps

LEMMA HeartbeatKeeps == ASSUME RegInv, NEW i \in Insts, Heartbeat(i) PROVE RegInv'
<1> DEFINE m == LockRequest(i, "touch", "activate")
           r == [m EXCEPT !.channels = inst[i].channels]
           s == [inst[i] EXCEPT !.touch = TRUE, !.beat = now, !.crossed = inst[i].main # "open"]
<1>0. /\ requests' = Append(requests, r) /\ inst' = [inst EXCEPT ![i] = s]
      /\ inst[i].handles /\ inst[i].main # "closing" /\ ~inst[i].touch
      /\ UNCHANGED <<life, now, set, leases, hold, files, retry, news>>
  BY DEF Heartbeat, Asks
<1>1. /\ InstOK(inst[i]) /\ LeaseOK(i, requests, leases, inst[i], now) /\ ChannelsOK(i, requests, leases, inst[i])
      /\ \A n \in 1..Len(requests) : requests[n].who = i => RequestOK(requests[n], now) /\ KindOK(requests[n], inst[i])
      /\ ShapeOK /\ now \in Int /\ IsQueue(requests) /\ Len(requests) \in Nat /\ SameBounds(life)
  BY InstanceFacts
<1>2. RequestOK(r, now) /\ r.at = now /\ r.who = i /\ r.job = "touch" /\ r.op = "activate" /\ r.channels = inst[i].channels
  <2>1. IsRecord(m, {"who", "job", "op", "at", "channels", "policy"})
    BY DEF LockRequest, IsRecord
  <2>2. m.who = i /\ m.job = "touch" /\ m.op = "activate" /\ m.at = now
    BY DEF LockRequest
  <2> HIDE DEF m
  <2> QED BY <1>1, <2>1, <2>2 DEF RequestOK, IsRecord, InstOK
<1>3. /\ InstOK(s) /\ s.main = inst[i].main /\ s.active /\ inst[i].active /\ s.touch /\ s.crossed = (inst[i].main # "open")
      /\ s.beat = now /\ s.channels = inst[i].channels /\ s.want = inst[i].want /\ s.handles
  BY <1>0, <1>1 DEF InstOK, IsRecord, InstFields, Present
<1> HIDE DEF m, r, s
<1>4. KindOK(r, s)
  BY <1>2, <1>3 DEF KindOK
<1>5. ASSUME NEW n \in 1..Len(requests), requests[n].who = i PROVE requests[n].job # "touch" /\ requests[n].op # "release"
  BY <1>0, <1>1, <1>5 DEF RequestOK, KindOK, AskedAt
<1>6. \A n \in 1..Len(requests) : requests[n].who = i => KindOK(requests[n], s)
  BY <1>1, <1>3, <1>5 DEF KindOK
<1>a. /\ Len(requests') = Len(requests) + 1 /\ (\A n \in 1..Len(requests) : requests'[n] = requests[n])
      /\ requests'[Len(requests) + 1] = r
  BY <1>0, <1>1, QueueGrows
<1>7. LeaseOK(i, requests', leases, s, now)
  <2>1. LeaseOK(i, requests', leases, inst[i], now)
    BY <1>0, <1>1, <1>2, MoreKeepsLease
  <2>2. \E k \in 1..Len(requests') : Renews(requests'[k], i) /\ requests'[k].at >= s.beat
    BY <1>1, <1>2, <1>3, <1>a DEF Renews
  <2> QED BY <1>3, <2>1, <2>2 DEF LeaseOK
<1>8. ChannelsOK(i, requests', leases, s)
  <2>1. \A n \in 1..Len(requests') : IsMain(requests'[n], i) => n \in 1..Len(requests) /\ requests'[n] = requests[n]
    BY <1>1, <1>2, <1>a DEF IsMain
  <2>2. \A n \in 1..Len(requests') : IsTouch(requests'[n], i) => requests'[n] = r
    BY <1>1, <1>5, <1>a DEF IsTouch
  <2>3. ~Untouched(i, requests')
    BY <1>1, <1>2, <1>a DEF Untouched, IsTouch
  <2>4. s.main = "updating" => \A n \in 1..Len(requests') : IsMain(requests'[n], i) => s.want.channels \subseteq requests'[n].channels
    BY <1>1, <1>3, <2>1 DEF ChannelsOK
  <2> QED BY <1>2, <1>3, <2>2, <2>3, <2>4 DEF ChannelsOK
<1>9. ShapeOK'
  BY <1>0, <1>1, ShapeKept, files \in BOOLEAN, retry \subseteq Insts DEF SameBounds, ShapeOK
<1>10. \E x : /\ requests' = Append(requests, x)
              /\ RequestOK(x, now) /\ KindOK(x, s) /\ x.at = now /\ x.who = i
              /\ \A n \in 1..Len(requests) : requests[n].who = i /\ requests[n].job = x.job => x.job \notin {"main", "touch"}
  BY <1>0, <1>2, <1>4, <1>5
<1> QED BY <1>0, <1>3, <1>6, <1>7, <1>8, <1>9, <1>10, AskingKeeps

LEMMA CloseKeeps == ASSUME RegInv, NEW i \in Insts, Close(i) PROVE RegInv'
<1> DEFINE s == [inst[i] EXCEPT !.main = "closing", !.listens = FALSE, !.wanted = FALSE]
<1>0. /\ inst[i].main = "open" /\ inst' = [inst EXCEPT ![i] = s] /\ life' = [life EXCEPT !.closes = @ - 1]
      /\ UNCHANGED <<now, set, leases, requests, hold, files, retry, news>>
  BY DEF Close
<1>1. /\ InstOK(inst[i]) /\ LeaseOK(i, requests, leases, inst[i], now) /\ ChannelsOK(i, requests, leases, inst[i])
      /\ \A n \in 1..Len(requests) : requests[n].who = i => RequestOK(requests[n], now) /\ KindOK(requests[n], inst[i])
      /\ SameBounds(life)
  BY InstanceFacts
<1>2. /\ InstOK(s) /\ s.main = "closing" /\ s.active = inst[i].active /\ s.touch = inst[i].touch /\ s.handles = inst[i].handles
      /\ s.beat = inst[i].beat
  BY <1>0, <1>1 DEF InstOK, IsRecord, InstFields, Present
<1> HIDE DEF s
<1>3. ASSUME NEW n \in 1..Len(requests), requests[n].who = i PROVE KindOK(requests[n], s)
  BY <1>0, <1>1, <1>2, <1>3 DEF KindOK, RequestOK, AskedAt
<1>4. LeaseOK(i, requests, leases, s, now) /\ ChannelsOK(i, requests, leases, s)
  BY <1>1, <1>2 DEF LeaseOK, ChannelsOK
<1>5. SameBounds(life')
  BY <1>0, <1>1 DEF SameBounds, IsRecord, LifeFields
<1> QED BY <1>0, <1>2, <1>3, <1>4, <1>5, BecomesKeeps

LEMMA ReleaseKeeps == ASSUME RegInv, NEW i \in Insts, Release(i) PROVE RegInv'
<1> DEFINE r == LockRequest(i, "main", "release")
           s == [inst[i] EXCEPT !.handles = FALSE]
<1>0. /\ inst[i].main = "closing" /\ ~inst[i].touch /\ \A n \in 1..Len(requests) : ~(requests[n].who = i /\ requests[n].op = "release")
      /\ requests' = Append(requests, r) /\ inst' = [inst EXCEPT ![i] = s]
      /\ UNCHANGED <<life, now, set, leases, hold, files, retry, news>>
  BY DEF Release, Asks
<1>1. /\ InstOK(inst[i]) /\ LeaseOK(i, requests, leases, inst[i], now) /\ ChannelsOK(i, requests, leases, inst[i])
      /\ \A n \in 1..Len(requests) : requests[n].who = i => RequestOK(requests[n], now) /\ KindOK(requests[n], inst[i])
      /\ ShapeOK /\ now \in Int /\ IsQueue(requests) /\ SameBounds(life)
  BY InstanceFacts
<1>2. RequestOK(r, now) /\ r.at = now /\ r.who = i /\ r.job = "main" /\ r.op = "release"
  BY <1>1, RequestMade
<1>3. /\ InstOK(s) /\ s.main = "closing" /\ s.active = inst[i].active /\ s.touch = inst[i].touch /\ ~s.handles
      /\ s.beat = inst[i].beat
  BY <1>0, <1>1 DEF InstOK, IsRecord, InstFields, Present
<1> HIDE DEF r, s
<1>4. KindOK(r, s)
  BY <1>0, <1>2, <1>3 DEF KindOK, AskedAt
<1>5. ASSUME NEW n \in 1..Len(requests), requests[n].who = i PROVE requests[n].job # "main" /\ KindOK(requests[n], s)
  BY <1>0, <1>1, <1>3, <1>5 DEF KindOK, RequestOK, AskedAt
<1>6. LeaseOK(i, requests, leases, s, now) /\ ChannelsOK(i, requests', leases, s)
  BY <1>1, <1>3 DEF LeaseOK, ChannelsOK
<1>7. ShapeOK'
  BY <1>0, <1>1, ShapeKept, files \in BOOLEAN, retry \subseteq Insts DEF SameBounds, ShapeOK
<1> QED BY <1>0, <1>2, <1>3, <1>4, <1>5, <1>6, <1>7, AskingKeeps

--------------------------------------------------------------------------------
(* Time, and pages that die. *)

LEMMA TickKeeps == ASSUME RegInv, Tick PROVE RegInv'
<1>0. /\ now' = now + 1 /\ now < life.time
      /\ (\A i \in Insts : inst[i].active => inst[i].beat = now) /\ (\A n \in 1..Len(requests) : requests[n].at = now)
      /\ UNCHANGED <<life, set, leases, requests, hold, files, retry, inst, news>>
  BY DEF Tick
<1>1. ShapeOK /\ QueueOK(requests, inst, now) /\ now \in Int /\ Len(requests) \in Nat
  BY DEF RegInv, ShapeOK, QueueOK, IsQueue
<1>2. ShapeOK'
  BY <1>0, <1>1 DEF ShapeOK
<1>3. QueueOK(requests, inst, now + 1)
  <2>1. ASSUME NEW n \in 1..Len(requests) PROVE RequestOK(requests[n], now + 1) /\ KindOK(requests[n], inst[requests[n].who])
    <3>1. RequestOK(requests[n], now) /\ KindOK(requests[n], inst[requests[n].who]) /\ requests[n].at = now
      BY <1>0, <1>1 DEF QueueOK
    <3> QED BY <1>1, <3>1 DEF RequestOK
  <2> QED BY <1>1, <2>1 DEF QueueOK
<1>4. ASSUME NEW i \in Insts PROVE LeaseOK(i, requests, leases, inst[i], now + 1)
  <2>1. LeaseOK(i, requests, leases, inst[i], now)
    BY DEF RegInv
  <2>2. ASSUME inst[i].active PROVE HeldOrRenewed(i, now + 1, Len(requests) + 1, requests, leases)
    <3>1. inst[i].beat = now
      BY <1>0, <2>2
    <3>2. Lasts(i, now + 1, leases) \/ \E k \in 1..Len(requests) : Renews(requests[k], i)
      BY <2>1, <2>2, <3>1 DEF LeaseOK
    <3>3. \A k \in 1..Len(requests) : k \in 1..((Len(requests) + 1) - 1)
      BY <1>1
    <3> QED BY <3>2, <3>3 DEF HeldOrRenewed
  <2>3. leases[i] # None => leases[i].until <= (now + 1) + Lease
    BY <1>1, <2>1 DEF LeaseOK, Lease
  <2> QED BY <2>1, <2>2, <2>3 DEF LeaseOK
<1> QED BY <1>0, <1>2, <1>3, <1>4 DEF RegInv

LEMMA CrashKeeps == ASSUME RegInv, NEW i \in Insts, CrashPage(i) PROVE RegInv'
<1> DEFINE s == [Nobody EXCEPT !.main = "crashed"]
           M == Others(i)
<1>0. /\ inst' = [inst EXCEPT ![i] = s] /\ requests' = M /\ hold' = [hold EXCEPT ![i] = "free"] /\ retry' = retry \ {i}
      /\ life' = [life EXCEPT !.crashes = @ - 1] /\ UNCHANGED <<now, set, leases, files, news>>
  BY DEF CrashPage
<1>1. ShapeOK /\ QueueOK(requests, inst, now) /\ HoldOK(requests, hold, inst) /\ IsQueue(requests) /\ Len(requests) \in Nat /\ SameBounds(life)
  BY NobodyOutlives DEF RegInv, QueueOK, IsQueue
<1>2. InstOK(s) /\ ~s.active /\ s.main = "crashed" /\ s.channels = {}
  <2>1. /\ IsRecord(s, InstFields) /\ s.main = "crashed" /\ s.active = FALSE /\ s.handles = FALSE /\ s.touch = FALSE
        /\ s.crossed = FALSE /\ s.beat = 0 /\ s.channels = {}
    BY DEF Nobody, IsRecord, InstFields
  <2> HIDE DEF s
  <2>2. s.channels \subseteq Channels
    BY <2>1
  <2>3. s.active \in BOOLEAN /\ s.handles \in BOOLEAN /\ s.touch \in BOOLEAN /\ s.crossed \in BOOLEAN /\ ~s.active /\ ~s.handles
    BY <2>1
  <2>4. s.main \notin Present /\ s.main \notin {"updating", "reading", "settling"} /\ s.beat \in Int
    BY <2>1 DEF Present
  <2>5. InstOK(s)
    BY <2>1, <2>2, <2>3, <2>4 DEF InstOK
  <2> QED BY <2>1, <2>3, <2>5
<1>3. PICK h : /\ IsPart(M, requests, h)
               /\ \A k \in 1..Len(M) : M[k].who # i
               /\ \A n \in 1..Len(requests) : requests[n].who # i => Keeps(M, requests, h, n)
  BY <1>1, OthersRemain
<1> HIDE DEF s, M
<1>4. QueueOK(M, [inst EXCEPT ![i] = s], now)
  <2>1. QueueOK(M, inst, now)
    BY <1>1, <1>3, PartKeepsQueue
  <2> QED BY <1>1, <1>3, <2>1, OneChangesQueue DEF ShapeOK
<1>5. ASSUME NEW j \in Insts, j # i
      PROVE  InstOK(inst[j]) /\ LeaseOK(j, M, leases, inst[j], now) /\ ChannelsOK(j, M, leases, inst[j])
  <2>1. InstOK(inst[j]) /\ LeaseOK(j, requests, leases, inst[j], now) /\ ChannelsOK(j, requests, leases, inst[j])
    BY DEF RegInv
  <2>2. \A n \in 1..Len(requests) : Renews(requests[n], j) \/ IsTouch(requests[n], j) => Keeps(M, requests, h, n)
    BY <1>3, <1>5 DEF Renews, IsTouch
  <2> QED BY <1>3, <2>1, <2>2, PartKeepsLease, PartKeepsChannels
<1>6. LeaseOK(i, M, leases, s, now) /\ ChannelsOK(i, M, leases, s)
  <2>1. LeaseOK(i, requests, leases, inst[i], now)
    BY DEF RegInv
  <2>2. \A k \in 1..Len(M) : h[k] \in 1..Len(requests) /\ M[k] = requests[h[k]]
    BY <1>3 DEF IsPart
  <2>3. LeaseOK(i, M, leases, s, now)
    BY <1>2, <2>1, <2>2 DEF LeaseOK
  <2> QED BY <1>2, <2>3 DEF ChannelsOK
<1>7. HoldOK(M, [hold EXCEPT ![i] = "free"], [inst EXCEPT ![i] = s])
  <2>1. ASSUME NEW j \in Insts, j # i, hold[j] # "free" PROVE Len(M) >= 1 /\ M[1].who = j /\ M[1].op = "maintain"
    <3>1. Len(requests) >= 1 /\ requests[1].who = j /\ requests[1].op = "maintain"
      BY <1>1, <2>1 DEF HoldOK
    <3>2. PICK k \in 1..Len(M) : h[k] = 1
      BY <1>1, <1>3, <2>1, <3>1 DEF Keeps
    <3>3. Len(M) \in Nat /\ (\A m \in 1..Len(M) : h[m] \in 1..Len(requests) /\ M[m] = requests[h[m]])
          /\ \A m, n \in 1..Len(M) : m < n => h[m] < h[n]
      BY <1>3 DEF IsPart, IsQueue
    <3>4. 1 \in 1..Len(M) /\ ~(1 < k)
      BY <1>1, <3>2, <3>3
    <3>5. k = 1
      BY <3>2, <3>3, <3>4
    <3> QED BY <3>1, <3>2, <3>3, <3>4, <3>5
  <2>2. ASSUME NEW j \in Insts, j # i, hold[j] = "deleting", NEW k \in Insts PROVE ~[inst EXCEPT ![i] = s][k].active
    BY <1>1, <1>2, <2>2 DEF HoldOK, ShapeOK
  <2>3. \A j \in Insts : [hold EXCEPT ![i] = "free"][j] # "free" => j # i /\ [hold EXCEPT ![i] = "free"][j] = hold[j]
    BY <1>1 DEF ShapeOK
  <2> QED BY <2>1, <2>2, <2>3 DEF HoldOK
<1>8. ShapeOK'
  <2>1. SameBounds(life')
    BY <1>0, <1>1 DEF SameBounds, IsRecord, LifeFields
  <2> QED BY <1>0, <1>1, <2>1 DEF ShapeOK, SameBounds
<1>9. \A j \in Insts : LET q == [inst EXCEPT ![i] = s][j] IN InstOK(q) /\ LeaseOK(j, M, leases, q, now) /\ ChannelsOK(j, M, leases, q)
  BY <1>1, <1>2, <1>5, <1>6 DEF ShapeOK
<1> QED BY <1>0, <1>4, <1>7, <1>8, <1>9 DEF RegInv

--------------------------------------------------------------------------------
(* Steps under the lock: its first request. *)

LEMMA OnlyTheFirst ==
    ASSUME RegInv, NEW n \in 1..Len(requests), First(n)
    PROVE  n = 1 /\ 1 \in 1..Len(requests)
<1>1. life.locks /\ Len(requests) \in Nat
  BY DEF RegInv, ShapeOK, QueueOK, IsQueue
<1>2. 1 \in 1..Len(requests) /\ n >= 1
  BY <1>1
<1>3. n <= 1
  BY <1>1, <1>2 DEF First
<1> QED BY <1>1, <1>2, <1>3

LEMMA FirstFacts ==
    ASSUME RegInv, 1 \in 1..Len(requests)
    PROVE  LET r == requests[1] IN
           /\ r.who \in Insts /\ RequestOK(r, now) /\ KindOK(r, inst[r.who])
           /\ InstOK(inst[r.who]) /\ LeaseOK(r.who, requests, leases, inst[r.who], now) /\ ChannelsOK(r.who, requests, leases, inst[r.who])
           /\ hold[r.who] = "free" => \A j \in Insts : hold[j] = "free"
           /\ \A j \in Insts : hold[j] # "free" => j = r.who
           /\ \A j \in Insts : inst[j].active => Lasts(j, r.at, leases)
<1>1. QueueOK(requests, inst, now) /\ HoldOK(requests, hold, inst) /\ requests[1].who \in Insts /\ RequestOK(requests[1], now)
  BY DEF RegInv, QueueOK, RequestOK
<1>2. KindOK(requests[1], inst[requests[1].who])
  BY <1>1 DEF QueueOK
<1>3. \A j \in Insts : hold[j] # "free" => j = requests[1].who
  BY <1>1 DEF HoldOK
<1>4. ASSUME NEW j \in Insts, inst[j].active PROVE Lasts(j, requests[1].at, leases)
  <2>1. HeldOrRenewed(j, requests[1].at, 1, requests, leases)
    BY <1>4 DEF RegInv, LeaseOK
  <2>2. ~\E k \in 1..(1 - 1) : TRUE
    OBVIOUS
  <2> QED BY <2>1, <2>2 DEF HeldOrRenewed
<1> QED BY <1>1, <1>2, <1>3, <1>4 DEF RegInv

(* What remains when the first request is granted. *)
LEMMA RestFacts ==
    ASSUME RegInv, 1 \in 1..Len(requests), NEW M, M = Dequeued(1)
    PROVE  /\ QueueOK(M, inst, now) /\ IsQueue(M) /\ Len(M) \in Nat
           /\ \A k \in 1..Len(M) : /\ M[k].at >= requests[1].at
                                   /\ \E n \in 1..Len(requests) : n > 1 /\ M[k] = requests[n]
                                   /\ M[k].who = requests[1].who /\ M[k].job = requests[1].job => M[k].job \notin {"main", "touch"}
           /\ \A n \in 1..Len(requests) : n # 1 => \E k \in 1..Len(M) : M[k] = requests[n]
           /\ \A j \in Insts : ~Renews(requests[1], j) => LeaseOK(j, M, leases, inst[j], now)
           /\ \A j \in Insts : ~IsTouch(requests[1], j) => ChannelsOK(j, M, leases, inst[j])
<1>1. QueueOK(requests, inst, now) /\ IsQueue(requests) /\ Len(requests) \in Nat
  BY DEF RegInv, QueueOK, IsQueue
<1>2. PICK h : /\ IsPart(M, requests, h)
               /\ \A k \in 1..Len(M) : h[k] # 1
               /\ \A n \in 1..Len(requests) : n # 1 => Keeps(M, requests, h, n)
  BY <1>1, RestRemains
<1>3. \A k \in 1..Len(M) : h[k] \in 1..Len(requests) /\ M[k] = requests[h[k]] /\ h[k] > 1
  BY <1>1, <1>2 DEF IsPart
<1>4. QueueOK(M, inst, now) /\ IsQueue(M) /\ Len(M) \in Nat
  BY <1>1, <1>2, PartKeepsQueue DEF QueueOK, IsQueue
<1>5. ASSUME NEW k \in 1..Len(M)
      PROVE  /\ M[k].at >= requests[1].at
             /\ \E n \in 1..Len(requests) : n > 1 /\ M[k] = requests[n]
             /\ M[k].who = requests[1].who /\ M[k].job = requests[1].job => M[k].job \notin {"main", "touch"}
  <2>1. /\ requests[1].at <= requests[h[k]].at
        /\ requests[1].who = requests[h[k]].who /\ requests[1].job = requests[h[k]].job => requests[1].job \notin {"main", "touch"}
    BY <1>1, <1>3 DEF QueueOK
  <2>2. RequestOK(requests[1], now) /\ RequestOK(requests[h[k]], now)
    BY <1>1, <1>3 DEF QueueOK
  <2> QED BY <1>3, <2>1, <2>2 DEF RequestOK
<1>6. \A n \in 1..Len(requests) : n # 1 => \E k \in 1..Len(M) : M[k] = requests[n]
  BY <1>2, <1>3 DEF Keeps
<1>7. ASSUME NEW j \in Insts, ~Renews(requests[1], j) PROVE LeaseOK(j, M, leases, inst[j], now)
  <2>1. LeaseOK(j, requests, leases, inst[j], now)
    BY DEF RegInv
  <2>2. \A n \in 1..Len(requests) : Renews(requests[n], j) => Keeps(M, requests, h, n)
    BY <1>2, <1>7
  <2> QED BY <1>2, <2>1, <2>2, PartKeepsLease
<1>8. ASSUME NEW j \in Insts, ~IsTouch(requests[1], j) PROVE ChannelsOK(j, M, leases, inst[j])
  <2>1. ChannelsOK(j, requests, leases, inst[j])
    BY DEF RegInv
  <2>2. \A n \in 1..Len(requests) : IsTouch(requests[n], j) => Keeps(M, requests, h, n)
    BY <1>2, <1>8
  <2> QED BY <1>2, <2>1, <2>2, PartKeepsChannels
<1> QED BY <1>4, <1>5, <1>6, <1>7, <1>8

LEMMA GrantKeeps ==
    ASSUME RegInv, 1 \in 1..Len(requests), ShapeOK', NEW i, i = requests[1].who, NEW s, InstOK(s), NEW M, M = Dequeued(1),
           now' = now, inst' = [inst EXCEPT ![i] = s], \A j \in Insts : hold'[j] = "free",
           \A k \in 1..Len(M) : M[k].who = i => KindOK(M[k], s),
           \A j \in Insts \ {i} : leases'[j] \in {leases[j], None} /\ (inst[j].active => leases'[j] = leases[j]),
           LeaseOK(i, M, leases', s, now), ChannelsOK(i, requests', leases', s),
           \/ requests' = M
           \/ \E r : /\ requests' = Append(M, r)
                     /\ RequestOK(r, now) /\ KindOK(r, s) /\ r.at = now /\ r.who = i
                     /\ \A k \in 1..Len(M) : M[k].who = i /\ M[k].job = r.job => r.job \notin {"main", "touch"}
    PROVE  RegInv'
<1> DEFINE it == [inst EXCEPT ![i] = s]
<1>0. /\ i \in Insts /\ inst = [j \in Insts |-> inst[j]] /\ now \in Int
      /\ QueueOK(M, inst, now) /\ IsQueue(M) /\ Len(M) \in Nat
  BY FirstFacts, RestFacts DEF RegInv, ShapeOK
<1>1. QueueOK(M, it, now)
  BY <1>0, OneChangesQueue
<1>2. it[i] = s /\ \A j \in Insts \ {i} : it[j] = inst[j]
  BY <1>0
<1>3. inst' = it
  OBVIOUS
<1> HIDE DEF it
<1>4. QueueOK(requests', it, now) /\ LeaseOK(i, requests', leases', s, now)
  <2>1. CASE requests' = M
    BY <1>1, <2>1
  <2>2. CASE \E r : /\ requests' = Append(M, r)
                    /\ RequestOK(r, now) /\ KindOK(r, s) /\ r.at = now /\ r.who = i
                    /\ \A k \in 1..Len(M) : M[k].who = i /\ M[k].job = r.job => r.job \notin {"main", "touch"}
    <3>1. PICK r : /\ requests' = Append(M, r)
                   /\ RequestOK(r, now) /\ KindOK(r, s) /\ r.at = now /\ r.who = i
                   /\ \A k \in 1..Len(M) : M[k].who = i /\ M[k].job = r.job => r.job \notin {"main", "touch"}
      BY <2>2
    <3>2. QueueOK(requests', it, now)
      BY <1>0, <1>1, <1>2, <3>1, MoreKeepsQueue
    <3>3. LeaseOK(i, requests', leases', s, now)
      BY <1>0, <3>1, MoreKeepsLease
    <3> QED BY <3>2, <3>3
  <2> QED BY <2>1, <2>2
<1>5. ASSUME NEW j \in Insts, j # i
      PROVE  InstOK(inst[j]) /\ LeaseOK(j, requests', leases', inst[j], now) /\ ChannelsOK(j, requests', leases', inst[j])
  <2>1. ~Renews(requests[1], j) /\ ~IsTouch(requests[1], j)
    BY <1>5 DEF Renews, IsTouch
  <2>2. InstOK(inst[j]) /\ LeaseOK(j, M, leases, inst[j], now) /\ ChannelsOK(j, M, leases, inst[j])
    BY <2>1, RestFacts DEF RegInv
  <2>3. LeaseOK(j, M, leases', inst[j], now) /\ ChannelsOK(j, M, leases', inst[j])
    BY <1>5, <2>2, PrunedKeepsLease, PrunedKeepsChannels
  <2>4. ASSUME NEW r, requests' = Append(M, r), r.at = now, r.who = i
        PROVE LeaseOK(j, requests', leases', inst[j], now) /\ ChannelsOK(j, requests', leases', inst[j])
    <3>1. ~IsTouch(r, j) /\ ~IsMain(r, j)
      BY <1>5, <2>4 DEF IsTouch, IsMain
    <3> QED BY <1>0, <2>3, <2>4, <3>1, MoreKeepsLease, MoreKeepsChannels
  <2> QED BY <2>2, <2>3, <2>4
<1>6. HoldOK(requests', hold', it)
  BY DEF HoldOK
<1>7. \A j \in Insts : InstOK(it[j]) /\ LeaseOK(j, requests', leases', it[j], now) /\ ChannelsOK(j, requests', leases', it[j])
  BY <1>2, <1>4, <1>5
<1> QED BY <1>3, <1>4, <1>6, <1>7 DEF RegInv

(* Leases that ran out are dropped; none of them is of an instance that is present. *)
Pruned(ls) ==
    /\ ls = [j \in Insts |-> ls[j]]
    /\ \A j \in Insts : ls[j] \in {leases[j], None} /\ (inst[j].active => ls[j] = leases[j])
LEMMA ExpiryPrunes ==
    ASSUME RegInv, 1 \in 1..Len(requests)
    PROVE  Pruned(Unexpired(leases, requests[1].at)) /\ Pruned(leases)
<1>1. \A j \in Insts : inst[j].active => Lasts(j, requests[1].at, leases)
  BY FirstFacts
<1>2. leases = [j \in Insts |-> leases[j]]
  BY DEF RegInv, ShapeOK
<1> QED BY <1>1, <1>2 DEF Pruned, Unexpired, Lasts

LEMMA ReadKeeps == ASSUME RegInv, NEW n \in 1..Len(requests), GrantRead(n) PROVE RegInv'
<1> DEFINE r == requests[1]
           i == r.who
           p == Policy(set)
           u == inst[i].want
           M == Dequeued(1)
<1>0. n = 1 /\ 1 \in 1..Len(requests)
  BY OnlyTheFirst DEF GrantRead, Granted
<1>1. /\ hold[i] = "free" /\ r.op = "read" /\ set # None
      /\ leases' = Unexpired(leases, r.at)
      /\ inst' = [inst EXCEPT ![i] = ReadBy(@, r, p)]
      /\ requests' = IF r.job = "refresh" THEN M
                     ELSE Append(M, [LockRequest(i, "main", "activate") EXCEPT !.channels = u.channels, !.policy = Filled(u.policy, p)])
      /\ UNCHANGED <<life, now, set, hold, files, retry, news>>
  BY <1>0 DEF GrantRead, Granted
<1>2. /\ i \in Insts /\ RequestOK(r, now) /\ KindOK(r, inst[i]) /\ InstOK(inst[i]) /\ \A j \in Insts : hold[j] = "free"
  BY <1>0, <1>1, FirstFacts
<1>3. ShapeOK /\ now \in Int
  BY DEF RegInv, ShapeOK
<1>4. Pruned(leases')
  BY <1>0, <1>1, ExpiryPrunes
<1> HIDE DEF M
<1>5. /\ QueueOK(M, inst, now) /\ IsQueue(M) /\ Len(M) \in Nat
      /\ \A k \in 1..Len(M) : M[k].who = i /\ M[k].job = r.job => M[k].job \notin {"main", "touch"}
  BY <1>0, RestFacts DEF M
<1>6. ~Renews(r, i) /\ ~IsTouch(r, i)
  BY <1>1, <1>2 DEF Renews, IsTouch, RequestOK
<1>7. LeaseOK(i, M, leases', inst[i], now) /\ ChannelsOK(i, M, leases', inst[i])
  <2>1. LeaseOK(i, M, leases, inst[i], now) /\ ChannelsOK(i, M, leases, inst[i])
    BY <1>0, <1>2, <1>6, RestFacts DEF M
  <2> QED BY <1>2, <1>4, <2>1, PrunedKeepsLease, PrunedKeepsChannels DEF Pruned
<1>8. \A k \in 1..Len(M) : M[k].who = i => RequestOK(M[k], now) /\ KindOK(M[k], inst[i])
  BY <1>5 DEF QueueOK
<1>9. \A s : inst' = [inst EXCEPT ![i] = s] => ShapeOK'
  BY <1>1, <1>2, <1>3, <1>4 DEF ShapeOK, Pruned
<1>10. \A j \in Insts \ {i} : leases'[j] \in {leases[j], None} /\ (inst[j].active => leases'[j] = leases[j])
  BY <1>4 DEF Pruned
<1>11. AlikeInst(inst[i], Told(inst[i], p))
  BY <1>2, ToldIsAlike
<1>12. inst' = [inst EXCEPT ![i] = ReadBy(inst[i], r, p)]
  BY <1>1, <1>2, <1>3 DEF ShapeOK
<1>13. CASE r.job = "refresh"
  <2> DEFINE q == PendingApplied(Told(inst[i], p))
             s == [q EXCEPT !.refresh = FALSE]
  <2>1. inst' = [inst EXCEPT ![i] = s] /\ requests' = M
    BY <1>1, <1>12, <1>13 DEF ReadBy
  <2>2. AlikeInst(Told(inst[i], p), q)
    BY <1>11, PendingIsAlike DEF AlikeInst
  <2> HIDE DEF q
  <2>3. AlikeInst(inst[i], s)
    BY <1>11, <2>2 DEF AlikeInst, IsRecord, InstFields
  <2> HIDE DEF s
  <2>4. InstOK(s) /\ LeaseOK(i, M, leases', s, now) /\ ChannelsOK(i, M, leases', s) /\ \A k \in 1..Len(M) : M[k].who = i => KindOK(M[k], s)
    BY <1>2, <1>7, <1>8, <2>3, AlikeKeeps
  <2> QED BY <1>0, <1>1, <1>2, <1>9, <1>10, <2>1, <2>4, GrantKeeps DEF M
<1>14. CASE r.job # "refresh"
  <2> DEFINE q == Told(inst[i], p)
             s == [q EXCEPT !.main = "updating"]
             m == LockRequest(i, "main", "activate")
             c == [m EXCEPT !.channels = u.channels, !.policy = Filled(u.policy, p)]
  <2>1. inst' = [inst EXCEPT ![i] = s] /\ requests' = Append(M, c)
    BY <1>1, <1>12, <1>14 DEF ReadBy
  <2>2. r.job = "main" /\ inst[i].main = "reading"
    BY <1>1, <1>2, <1>14 DEF RequestOK, KindOK, AskedAt
  <2>3. u.channels \subseteq Channels
    BY <1>2, <2>2 DEF InstOK
  <2>4. RequestOK(c, now) /\ c.at = now /\ c.who = i /\ c.job = "main" /\ c.op = "activate" /\ c.channels = u.channels
    <3>1. RequestOK(m, now) /\ m.at = now /\ m.who = i /\ m.job = "main" /\ m.op = "activate"
      BY <1>2, <1>3, RequestMade
    <3> HIDE DEF m, u, p
    <3> QED BY <2>3, <3>1 DEF RequestOK, IsRecord
  <2> HIDE DEF q
  <2>5. /\ IsRecord(s, InstFields) /\ s.main = "updating" /\ s.active = inst[i].active /\ s.handles = inst[i].handles /\ s.beat = inst[i].beat
        /\ s.touch = inst[i].touch /\ s.crossed = inst[i].crossed /\ s.channels = inst[i].channels /\ s.want = u
    BY <1>11 DEF q, AlikeInst, IsRecord, InstFields
  <2> HIDE DEF s, m, c
  <2>6. InstOK(s)
    BY <1>2, <2>2, <2>3, <2>5 DEF InstOK, Present
  <2>7. KindOK(c, s)
    BY <2>4, <2>5 DEF KindOK, AskedAt
  <2>8. \A k \in 1..Len(M) : M[k].who = i => M[k].job # "main"
    BY <1>5, <2>2
  <2>9. \A k \in 1..Len(M) : M[k].who = i => KindOK(M[k], s)
    BY <1>8, <2>5, <2>8 DEF KindOK, RequestOK
  <2>10. LeaseOK(i, M, leases', s, now)
    BY <1>7, <2>5 DEF LeaseOK
  <2>11. ChannelsOK(i, requests', leases', s)
    <3>1. Len(requests') = Len(M) + 1 /\ (\A k \in 1..Len(M) : requests'[k] = M[k]) /\ requests'[Len(M) + 1] = c
      BY <1>5, <2>1, QueueGrows
    <3>2. \A k \in 1..Len(requests') : IsMain(requests'[k], i) => k = Len(M) + 1 /\ requests'[k] = c
      BY <1>5, <2>8, <3>1 DEF IsMain
    <3>3. \A k \in 1..Len(requests') : IsTouch(requests'[k], i) => k < Len(M) + 1
      BY <1>5, <2>4, <3>1 DEF IsTouch
    <3> QED BY <2>4, <2>5, <3>2, <3>3 DEF ChannelsOK
  <2>12. \E x : /\ requests' = Append(M, x)
                /\ RequestOK(x, now) /\ KindOK(x, s) /\ x.at = now /\ x.who = i
                /\ \A k \in 1..Len(M) : M[k].who = i /\ M[k].job = x.job => x.job \notin {"main", "touch"}
    BY <2>1, <2>4, <2>7, <2>8
  <2> QED BY <1>0, <1>1, <1>2, <1>9, <1>10, <2>1, <2>6, <2>9, <2>10, <2>11, <2>12, GrantKeeps DEF M
<1> QED BY <1>13, <1>14

LEMMA ReleasedKeeps == ASSUME RegInv, NEW n \in 1..Len(requests), GrantRelease(n) PROVE RegInv'
<1> DEFINE r == requests[1]
           i == r.who
           s == [inst[i] EXCEPT !.main = "closed", !.active = FALSE]
           M == Dequeued(1)
           c == LockRequest(i, "purge", "maintain")
<1>0. n = 1 /\ 1 \in 1..Len(requests)
  BY OnlyTheFirst DEF GrantRelease, Granted
<1>1. /\ hold[i] = "free" /\ r.op = "release"
      /\ IF set = None THEN UNCHANGED <<leases, set>>
         ELSE /\ leases' = Unexpired([leases EXCEPT ![i] = None], r.at)
              /\ set' = [set EXCEPT !.used = r.at, !.status = "ready"]
      /\ inst' = [inst EXCEPT ![i].main = "closed", ![i].active = FALSE]
      /\ requests' = IF inst[i].keep = 0 THEN Append(M, c) ELSE M
      /\ UNCHANGED <<life, now, hold, files, retry, news>>
  BY <1>0 DEF GrantRelease, Granted
<1>2. /\ i \in Insts /\ RequestOK(r, now) /\ KindOK(r, inst[i]) /\ InstOK(inst[i]) /\ \A j \in Insts : hold[j] = "free"
  BY <1>0, <1>1, FirstFacts
<1>3. ShapeOK /\ now \in Int
  BY DEF RegInv, ShapeOK
<1>4. inst' = [inst EXCEPT ![i] = s]
  BY <1>1, <1>2, <1>3 DEF ShapeOK
<1>5. r.job = "main" /\ inst[i].main = "closing" /\ ~inst[i].handles /\ ~inst[i].touch
  BY <1>1, <1>2 DEF RequestOK, KindOK, AskedAt
<1>6. InstOK(s) /\ s.main = "closed" /\ ~s.active /\ ~s.handles /\ ~s.touch
  BY <1>2, <1>5 DEF InstOK, IsRecord, InstFields, Present
<1> HIDE DEF s, M
<1>7. /\ QueueOK(M, inst, now) /\ IsQueue(M) /\ Len(M) \in Nat
      /\ \A k \in 1..Len(M) : M[k].who = i /\ M[k].job = r.job => M[k].job \notin {"main", "touch"}
  BY <1>0, RestFacts DEF M
<1>8. ASSUME NEW k \in 1..Len(M), M[k].who = i PROVE KindOK(M[k], s) /\ M[k].job \notin {"main", "touch"}
  <2>1. RequestOK(M[k], now) /\ KindOK(M[k], inst[i]) /\ M[k].job # "main"
    BY <1>5, <1>7, <1>8 DEF QueueOK
  <2> QED BY <1>5, <1>6, <2>1 DEF KindOK, RequestOK
<1>9. /\ \A j \in Insts : leases'[j] \in {leases[j], None}
      /\ \A j \in Insts \ {i} : inst[j].active => leases'[j] = leases[j]
      /\ leases' = [j \in Insts |-> leases'[j]]
  <2>1. \A j \in Insts : inst[j].active => Lasts(j, r.at, leases)
    BY <1>0, FirstFacts
  <2> QED BY <1>1, <1>2, <1>3, <2>1 DEF ShapeOK, Unexpired, Lasts
<1>10. LeaseOK(i, M, leases', s, now)
  <2>1. LeaseOK(i, M, leases, inst[i], now)
    BY <1>0, <1>1, <1>2, RestFacts DEF M, Renews
  <2>2. LeaseOK(i, M, leases, s, now)
    BY <1>6, <2>1 DEF LeaseOK
  <2> QED BY <1>2, <1>6, <1>9, <2>2, PrunedKeepsLease
<1>11. ChannelsOK(i, requests', leases', s)
  BY <1>6 DEF ChannelsOK
<1>12. ShapeOK'
  <2>1. set' # None => IsRecord(set', {"used", "status", "stale", "keep", "rev"}) /\ set'.status \in {"ready", "delete_pending"}
    <3>1. CASE set = None
      BY <1>1, <3>1
    <3>2. CASE set # None
      <4>1. IsRecord(set, {"used", "status", "stale", "keep", "rev"}) /\ set' = [set EXCEPT !.used = r.at, !.status = "ready"]
        BY <1>1, <1>3, <3>2 DEF ShapeOK
      <4> HIDE DEF r
      <4> QED BY <4>1 DEF IsRecord
    <3> QED BY <3>1, <3>2
  <2> QED BY <1>1, <1>3, <1>4, <1>9, <2>1 DEF ShapeOK
<1>13. \/ requests' = M
       \/ \E x : /\ requests' = Append(M, x)
                 /\ RequestOK(x, now) /\ KindOK(x, s) /\ x.at = now /\ x.who = i
                 /\ \A k \in 1..Len(M) : M[k].who = i /\ M[k].job = x.job => x.job \notin {"main", "touch"}
  <2>1. RequestOK(c, now) /\ c.at = now /\ c.who = i /\ c.job = "purge" /\ c.op = "maintain"
    BY <1>2, <1>3, RequestMade
  <2> HIDE DEF c
  <2>2. KindOK(c, s)
    BY <2>1 DEF KindOK
  <2> QED BY <1>1, <2>1, <2>2
<1> QED BY <1>0, <1>1, <1>2, <1>4, <1>6, <1>8, <1>9, <1>10, <1>11, <1>12, <1>13, GrantKeeps DEF M

(* The lease an activation writes, as long as nobody asked later. *)
LEMMA NewLeaseLasts ==
    ASSUME RegInv, 1 \in 1..Len(requests), NEW i, i = requests[1].who, requests[1].op = "activate",
           NEW M, M = Dequeued(1), NEW s, s.beat \in Int, s.beat <= requests[1].at \/ (inst[i].active /\ s.beat = inst[i].beat)
    PROVE  LeaseOK(i, M, LeaseWritten(requests[1]), s, now)
<1> DEFINE r == requests[1]
           ls == LeaseWritten(r)
           l == [until |-> r.at + Lease, channels |-> r.channels]
<1>1. i \in Insts /\ RequestOK(r, now) /\ leases = [j \in Insts |-> leases[j]] /\ now \in Int
  BY FirstFacts DEF RegInv, ShapeOK
<1>2. ls[i] = l
  BY <1>1 DEF LeaseWritten
<1>3. r.at \in Int /\ now - 1 <= r.at /\ r.at <= now /\ r.channels \subseteq Channels
  BY <1>1 DEF RequestOK
<1>4. l.until = r.at + 2 /\ l.channels = r.channels /\ IsRecord(l, {"until", "channels"}) /\ l # None
  <2>1. l \in [until: Int, channels: SUBSET Channels]
    BY <1>3 DEF Lease
  <2>2. l # None
    BY <2>1, RegistryAssumption
  <2> QED BY <2>2 DEF Lease, IsRecord
<1> HIDE DEF l, ls
<1>5. /\ QueueOK(M, inst, now) /\ Len(M) \in Nat
      /\ \A k \in 1..Len(M) : M[k].at >= r.at /\ RequestOK(M[k], now)
      /\ \A n \in 1..Len(requests) : n # 1 => \E k \in 1..Len(M) : M[k] = requests[n]
  BY RestFacts DEF QueueOK
<1>6. \A k \in 1..Len(M) : M[k].at \in Int /\ M[k].at <= now /\ r.at <= M[k].at
  BY <1>3, <1>5 DEF RequestOK
<1>7. HeldOrRenewed(i, now, Len(M) + 1, M, ls) /\ \A k \in 1..Len(M) : HeldOrRenewed(i, M[k].at, k, M, ls)
  BY <1>1, <1>2, <1>3, <1>4, <1>6 DEF HeldOrRenewed, Lasts
<1>8. Lasts(i, s.beat + 1, ls) \/ \E k \in 1..Len(M) : Renews(M[k], i) /\ M[k].at >= s.beat
  <2>1. CASE s.beat <= r.at
    BY <1>2, <1>3, <1>4, <2>1 DEF Lasts
  <2>2. CASE inst[i].active /\ s.beat = inst[i].beat /\ ~(s.beat <= r.at)
    <3>1. LeaseOK(i, requests, leases, inst[i], now)
      BY <1>1 DEF RegInv
    <3>2. Lasts(i, s.beat + 1, leases) \/ \E k \in 1..Len(requests) : Renews(requests[k], i) /\ requests[k].at >= s.beat
      BY <2>2, <3>1 DEF LeaseOK
    <3>3. leases[i] # None => leases[i].until \in Int /\ leases[i].until <= r.at + 2
      BY <3>1 DEF LeaseOK, Lease
    <3>4. ~Lasts(i, s.beat + 1, leases)
      BY <1>3, <2>2, <3>3 DEF Lasts
    <3>5. PICK k \in 1..Len(requests) : Renews(requests[k], i) /\ requests[k].at >= s.beat
      BY <3>2, <3>4
    <3>6. k # 1
      BY <1>3, <2>2, <3>5
    <3> QED BY <1>5, <3>5, <3>6
  <2> QED BY <2>1, <2>2
<1>9. /\ IsRecord(ls[i], {"until", "channels"}) /\ ls[i].until \in Int /\ ls[i].channels \subseteq Channels
      /\ ls[i].until <= now + Lease /\ \A k \in 1..Len(M) : ls[i].until <= M[k].at + Lease
  <2>1. IsRecord(ls[i], {"until", "channels"}) /\ ls[i].channels \subseteq Channels /\ ls[i].until = r.at + 2
    BY <1>2, <1>3, <1>4
  <2>2. \A k \in 1..Len(M) : r.at + 2 <= M[k].at + 2
    BY <1>3, <1>6
  <2>3. r.at + 2 \in Int /\ r.at + 2 <= now + 2
    BY <1>1, <1>3
  <2> QED BY <2>1, <2>2, <2>3 DEF Lease
<1>10. LeaseOK(i, M, ls, s, now)
  BY <1>7, <1>8, <1>9 DEF LeaseOK
<1> QED BY <1>10 DEF ls

LEMMA ActivateKeeps == ASSUME RegInv, NEW n \in 1..Len(requests), GrantActivate(n) PROVE RegInv'
<1> DEFINE r == requests[1]
           i == r.who
           p == Revised(r)
           M == Dequeued(1)
           c == LockRequest(i, "main", "maintain")
           s == Activated(inst[i], r, p)
<1>0. n = 1 /\ 1 \in 1..Len(requests)
  BY OnlyTheFirst DEF GrantActivate, Granted
<1>1. /\ hold[i] = "free" /\ r.op = "activate"
      /\ leases' = LeaseWritten(r) /\ set' = SetWritten(r)
      /\ requests' = IF inst[i].main = "activating" THEN Append(M, c) ELSE M
      /\ inst' = [inst EXCEPT ![i] = Activated(@, r, p)]
      /\ UNCHANGED <<life, now, hold, files, retry>>
  BY <1>0 DEF GrantActivate, Granted
<1>2. /\ i \in Insts /\ RequestOK(r, now) /\ KindOK(r, inst[i]) /\ InstOK(inst[i]) /\ \A j \in Insts : hold[j] = "free"
      /\ ChannelsOK(i, requests, leases, inst[i])
  BY <1>0, <1>1, FirstFacts
<1>3. ShapeOK /\ now \in Int
  BY DEF RegInv, ShapeOK
<1>4. inst' = [inst EXCEPT ![i] = s]
  BY <1>1, <1>2, <1>3 DEF ShapeOK
<1>5. ShapeOK'
  <2>1. set' # None => IsRecord(set', {"used", "status", "stale", "keep", "rev"}) /\ set'.status \in {"ready", "delete_pending"}
    BY <1>1 DEF SetWritten, IsRecord
  <2>2. leases' = [j \in Insts |-> leases'[j]] /\ inst' = [j \in Insts |-> inst'[j]]
    BY <1>1, <1>3 DEF LeaseWritten, ShapeOK
  <2> QED BY <1>1, <1>3, <2>1, <2>2 DEF ShapeOK
<1>6. \A j \in Insts \ {i} : leases'[j] \in {leases[j], None} /\ (inst[j].active => leases'[j] = leases[j])
  BY <1>1, <1>2, <1>3 DEF LeaseWritten, ShapeOK
<1>7. leases'[i].channels = r.channels
  BY <1>1, <1>2, <1>3 DEF LeaseWritten, ShapeOK
<1> HIDE DEF M
<1>8. /\ QueueOK(M, inst, now) /\ IsQueue(M) /\ Len(M) \in Nat
      /\ \A k \in 1..Len(M) : /\ M[k].who = i /\ M[k].job = r.job => M[k].job \notin {"main", "touch"}
                              /\ \E m \in 1..Len(requests) : m > 1 /\ M[k] = requests[m]
  BY <1>0, RestFacts DEF M
<1>9. \A k \in 1..Len(M) : M[k].who = i => RequestOK(M[k], now) /\ KindOK(M[k], inst[i])
  BY <1>8 DEF QueueOK
<1>10. r.job \in {"main", "touch"}
  BY <1>1, <1>2 DEF RequestOK
<1>11. AlikeInst(inst[i], Told(inst[i], p))
  BY <1>2, ToldIsAlike
<1>12. CASE r.job = "touch"
  <2> DEFINE q == PendingApplied(Told(inst[i], p))
  <2>0. inst[i].main # "activating"
    BY <1>2, <1>12 DEF KindOK, InstOK, Present
  <2>1. s = [q EXCEPT !.touch = FALSE]
    BY <1>12, <2>0 DEF Activated
  <2>2. AlikeInst(Told(inst[i], p), q)
    BY <1>11, PendingIsAlike DEF AlikeInst
  <2> HIDE DEF q, s
  <2>3. /\ IsRecord(s, InstFields) /\ s.main = inst[i].main /\ s.active = inst[i].active /\ s.handles = inst[i].handles
        /\ s.beat = inst[i].beat /\ ~s.touch /\ s.touch \in BOOLEAN /\ s.crossed = inst[i].crossed /\ s.channels = inst[i].channels /\ s.want = inst[i].want
    BY <1>11, <2>1, <2>2 DEF AlikeInst, IsRecord, InstFields
  <2>4. InstOK(s)
    BY <1>2, <2>3 DEF InstOK
  <2>5. inst[i].active /\ inst[i].main # "activating" /\ requests' = M
    BY <1>1, <1>2, <1>12 DEF KindOK, InstOK, Present
  <2>6. \A k \in 1..Len(M) : M[k].who = i => M[k].job # "touch"
    BY <1>8, <1>12
  <2>7. \A k \in 1..Len(M) : M[k].who = i => KindOK(M[k], s)
    BY <1>9, <2>3, <2>6 DEF KindOK, RequestOK
  <2>8. LeaseOK(i, M, leases', s, now)
    BY <1>0, <1>1, <1>2, <2>3, <2>5, NewLeaseLasts DEF M, InstOK
  <2>9. ChannelsOK(i, M, leases', s)
    <3>1. IsTouch(r, i) /\ ~Untouched(i, requests) /\ Untouched(i, M)
      BY <1>0, <1>12, <2>6 DEF IsTouch, Untouched
    <3>2. s.main = "updating" => \A k \in 1..Len(M) : IsMain(M[k], i) => s.want.channels \subseteq M[k].channels
      BY <1>2, <1>8, <2>3 DEF ChannelsOK
    <3>3. ~s.crossed => s.main # "settling" /\ s.main # "flushing" /\ (s.main = "open" => s.channels \subseteq r.channels)
      BY <1>0, <1>2, <2>3, <3>1 DEF ChannelsOK
    <3> QED BY <1>7, <3>1, <3>2, <3>3 DEF ChannelsOK, Untouched
  <2>10. ChannelsOK(i, requests', leases', s)
    BY <2>5, <2>9
  <2>11. now' = now /\ \A j \in Insts : hold'[j] = "free"
    BY <1>1, <1>2
  <2>12. 1 \in 1..Len(requests) /\ M = Dequeued(1) /\ i = requests[1].who /\ inst' = [inst EXCEPT ![i] = s] /\ requests' = M
    BY <1>0, <1>4, <2>5 DEF M
  <2> HIDE DEF i, r
  <2> QED BY <1>5, <1>6, <2>4, <2>7, <2>8, <2>10, <2>11, <2>12, GrantKeeps
<1>13. CASE r.job = "main" /\ inst[i].main = "activating"
  <2> DEFINE q == Told(inst[i], p)
  <2>1. s = [q EXCEPT !.main = "maintaining", !.active = TRUE, !.listens = TRUE, !.beat = r.at]
    BY <1>13 DEF Activated
  <2> HIDE DEF q, s
  <2>2. /\ IsRecord(s, InstFields) /\ s.main = "maintaining" /\ s.active = TRUE /\ s.handles = inst[i].handles
        /\ s.beat = r.at /\ s.touch = inst[i].touch /\ s.crossed = inst[i].crossed /\ s.channels = inst[i].channels
    BY <1>11, <2>1 DEF q, AlikeInst, IsRecord, InstFields
  <2>3. InstOK(s)
    BY <1>2, <2>2 DEF InstOK, RequestOK, Present
  <2>4. RequestOK(c, now) /\ c.at = now /\ c.who = i /\ c.job = "main" /\ c.op = "maintain"
    BY <1>2, <1>3, RequestMade
  <2>5. requests' = Append(M, c)
    BY <1>1, <1>13
  <2> HIDE DEF c
  <2>6. KindOK(c, s)
    BY <2>2, <2>4 DEF KindOK, AskedAt
  <2>7. \A k \in 1..Len(M) : M[k].who = i => M[k].job # "main"
    BY <1>8, <1>13
  <2>8. \A k \in 1..Len(M) : M[k].who = i => KindOK(M[k], s)
    BY <1>9, <2>2, <2>7 DEF KindOK, RequestOK
  <2>9. LeaseOK(i, M, leases', s, now)
    BY <1>0, <1>1, <1>2, <2>2, NewLeaseLasts DEF M, RequestOK
  <2>10. ChannelsOK(i, requests', leases', s)
    BY <2>2 DEF ChannelsOK
  <2>11. \E x : /\ requests' = Append(M, x)
                /\ RequestOK(x, now) /\ KindOK(x, s) /\ x.at = now /\ x.who = i
                /\ \A k \in 1..Len(M) : M[k].who = i /\ M[k].job = x.job => x.job \notin {"main", "touch"}
    BY <2>4, <2>5, <2>6, <2>7
  <2> QED BY <1>0, <1>1, <1>2, <1>4, <1>5, <1>6, <2>3, <2>8, <2>9, <2>10, <2>11, GrantKeeps DEF M
<1>14. CASE r.job = "main" /\ inst[i].main # "activating"
  <2> DEFINE q == Told(inst[i], p)
  <2>1. s = [q EXCEPT !.main = "settling", !.snapshot = p.rev]
    BY <1>14 DEF Activated
  <2>2. inst[i].main = "updating" /\ requests' = M
    BY <1>1, <1>2, <1>14 DEF KindOK, AskedAt
  <2> HIDE DEF q, s, p
  <2>3. /\ IsRecord(s, InstFields) /\ s.main = "settling" /\ s.active = inst[i].active /\ s.handles = inst[i].handles
        /\ s.beat = inst[i].beat /\ s.touch = inst[i].touch /\ s.crossed = inst[i].crossed /\ s.channels = inst[i].channels /\ s.want = inst[i].want
    BY <1>11, <2>1 DEF q, AlikeInst, IsRecord, InstFields
  <2>4. InstOK(s) /\ inst[i].active
    BY <1>2, <2>2, <2>3 DEF InstOK, Present
  <2>5. \A k \in 1..Len(M) : M[k].who = i => M[k].job # "main"
    BY <1>8, <1>14
  <2>6. \A k \in 1..Len(M) : M[k].who = i => KindOK(M[k], s)
    BY <1>9, <2>3, <2>5 DEF KindOK, RequestOK
  <2>7. LeaseOK(i, M, leases', s, now)
    BY <1>0, <1>1, <1>2, <2>3, <2>4, NewLeaseLasts DEF M, InstOK
  <2>8. ChannelsOK(i, M, leases', s)
    <3>1. IsMain(r, i) /\ inst[i].want.channels \subseteq r.channels
      BY <1>0, <1>2, <1>14, <2>2 DEF ChannelsOK, IsMain
    <3>2. ASSUME ~s.crossed PROVE Untouched(i, M)
      <4>1. ASSUME NEW k \in 1..Len(M), IsTouch(M[k], i) PROVE FALSE
        <5>1. PICK m \in 1..Len(requests) : m > 1 /\ M[k] = requests[m]
          BY <1>8
        <5>2. m < 1
          BY <1>0, <1>2, <2>2, <2>3, <3>1, <3>2, <4>1, <5>1 DEF ChannelsOK
        <5> QED BY <5>1, <5>2
      <4> QED BY <4>1 DEF Untouched
    <3> QED BY <1>7, <2>3, <3>1, <3>2 DEF ChannelsOK
  <2>9. ChannelsOK(i, requests', leases', s)
    BY <2>2, <2>8
  <2>10. now' = now /\ \A j \in Insts : hold'[j] = "free"
    BY <1>1, <1>2
  <2>11. 1 \in 1..Len(requests) /\ M = Dequeued(1) /\ i = requests[1].who /\ inst' = [inst EXCEPT ![i] = s] /\ requests' = M
    BY <1>0, <1>4, <2>2 DEF M
  <2> HIDE DEF i, r
  <2> QED BY <1>5, <1>6, <2>4, <2>6, <2>7, <2>9, <2>10, <2>11, GrantKeeps
<1> QED BY <1>10, <1>12, <1>13, <1>14

(* A maintenance ends; the leases it drops are of nobody who is present. *)
LEMMA EndsKeeps ==
    ASSUME RegInv, 1 \in 1..Len(requests), requests[1].op = "maintain", Ends(1), Pruned(leases'),
           set' # None => IsRecord(set', {"used", "status", "stale", "keep", "rev"}) /\ set'.status \in {"ready", "delete_pending"},
           now' = now, life' = life, files' = files, hold' \in [Insts -> {"free"}]
    PROVE  RegInv'
<1> DEFINE r == requests[1]
           i == r.who
           M == Dequeued(1)
           s == MaintainedBy(inst[i], r.job)
<1>1. /\ i \in Insts /\ RequestOK(r, now) /\ KindOK(r, inst[i]) /\ InstOK(inst[i])
  BY FirstFacts
<1>2. ShapeOK
  BY DEF RegInv
<1>3. inst' = [inst EXCEPT ![i] = s] /\ requests' = M /\ retry' = RetrySet(i, set')
  BY DEF Ends
<1>4. ShapeOK'
  <2>1. retry' \subseteq Insts
    BY <1>1, <1>2, <1>3 DEF RetrySet, ShapeOK
  <2>2. leases' = [j \in Insts |-> leases'[j]] /\ inst' = [j \in Insts |-> inst'[j]]
    BY <1>2, <1>3 DEF ShapeOK, Pruned
  <2>3. hold' \in [Insts -> {"free", "deleting", "deleted", "failed"}]
    OBVIOUS
  <2> QED BY <1>2, <2>1, <2>2, <2>3 DEF ShapeOK
<1> HIDE DEF M
<1>5. /\ QueueOK(M, inst, now)
      /\ \A k \in 1..Len(M) : M[k].who = i /\ M[k].job = r.job => M[k].job \notin {"main", "touch"}
      /\ LeaseOK(i, M, leases, inst[i], now) /\ ChannelsOK(i, M, leases, inst[i])
  <2>1. ~Renews(r, i) /\ ~IsTouch(r, i)
    BY <1>1 DEF Renews, IsTouch, RequestOK
  <2> QED BY <1>1, <2>1, RestFacts DEF M
<1>6. \A k \in 1..Len(M) : M[k].who = i => RequestOK(M[k], now) /\ KindOK(M[k], inst[i])
  BY <1>5 DEF QueueOK
<1>7. InstOK(s) /\ LeaseOK(i, M, leases, s, now) /\ ChannelsOK(i, M, leases, s) /\ \A k \in 1..Len(M) : M[k].who = i => KindOK(M[k], s)
  <2>1. CASE r.job # "main"
    <3>1. AlikeInst(inst[i], s)
      BY <1>1, <2>1 DEF MaintainedBy, AlikeInst, InstOK, IsRecord, InstFields
    <3> HIDE DEF s, i, r
    <3> QED BY <1>1, <1>5, <1>6, <3>1, AlikeKeeps
  <2>2. CASE r.job = "main"
    <3>1. inst[i].main = "maintaining"
      BY <1>1, <2>2 DEF KindOK, AskedAt
    <3>2. s = [inst[i] EXCEPT !.main = "maintained"]
      BY <2>2 DEF MaintainedBy
    <3> HIDE DEF s
    <3>3. /\ IsRecord(s, InstFields) /\ s.main = "maintained" /\ s.active = inst[i].active /\ s.handles = inst[i].handles
          /\ s.beat = inst[i].beat /\ s.touch = inst[i].touch /\ s.crossed = inst[i].crossed /\ s.channels = inst[i].channels
      BY <1>1, <3>2 DEF InstOK, IsRecord, InstFields
    <3>4. InstOK(s)
      BY <1>1, <3>1, <3>3 DEF InstOK, Present
    <3>5. \A k \in 1..Len(M) : M[k].who = i => M[k].job # "main"
      BY <1>5, <2>2
    <3>6. \A k \in 1..Len(M) : M[k].who = i => KindOK(M[k], s)
      BY <1>6, <3>3, <3>5 DEF KindOK, RequestOK
    <3>7. LeaseOK(i, M, leases, s, now)
      BY <1>5, <3>3 DEF LeaseOK
    <3>8. ChannelsOK(i, M, leases, s)
      BY <3>3 DEF ChannelsOK
    <3> QED BY <3>4, <3>6, <3>7, <3>8
  <2> QED BY <2>1, <2>2
<1>8. s.active <=> inst[i].active
  BY DEF MaintainedBy
<1>9. LeaseOK(i, M, leases', s, now) /\ ChannelsOK(i, M, leases', s)
  <2>1. leases'[i] \in {leases[i], None} /\ (s.active => leases'[i] = leases[i])
    BY <1>1, <1>8 DEF Pruned
  <2> HIDE DEF s, i, r
  <2> QED BY <1>7, <2>1, PrunedKeepsLease, PrunedKeepsChannels
<1>10. ChannelsOK(i, requests', leases', s)
  BY <1>3, <1>9
<1>11. \A j \in Insts \ {i} : leases'[j] \in {leases[j], None} /\ (inst[j].active => leases'[j] = leases[j])
  BY DEF Pruned
<1>12. M = Dequeued(1) /\ i = requests[1].who /\ \A j \in Insts : hold'[j] = "free"
  BY DEF M
<1> HIDE DEF s, i, r
<1> QED BY <1>3, <1>4, <1>7, <1>9, <1>10, <1>11, <1>12, GrantKeeps

LEMMA MaintainedKeeps == ASSUME RegInv, NEW n \in 1..Len(requests), GrantMaintain(n) PROVE RegInv'
<1> DEFINE r == requests[1]
           i == r.who
<1>0. n = 1 /\ 1 \in 1..Len(requests)
  BY OnlyTheFirst DEF GrantMaintain, Granted
<1>1. /\ hold[i] = "free" /\ r.op = "maintain" /\ set' = Marked(r.at)
      /\ leases' = IF set = None THEN leases ELSE Unexpired(leases, r.at)
      /\ IF Due(r.at) THEN hold' = [hold EXCEPT ![i] = "deleting"] /\ UNCHANGED <<requests, retry, inst>>
         ELSE Ends(1) /\ UNCHANGED hold
      /\ UNCHANGED <<life, now, files, news>>
  BY <1>0 DEF GrantMaintain, Granted
<1>2. /\ i \in Insts /\ (\A j \in Insts : hold[j] = "free") /\ \A j \in Insts : inst[j].active => Lasts(j, r.at, leases)
  BY <1>0, <1>1, FirstFacts
<1>3. ShapeOK /\ QueueOK(requests, inst, now) /\ Len(requests) \in Nat
  BY DEF RegInv, QueueOK, IsQueue
<1>4. Pruned(leases')
  BY <1>0, <1>1, ExpiryPrunes
<1>5. set' # None => IsRecord(set', {"used", "status", "stale", "keep", "rev"}) /\ set'.status \in {"ready", "delete_pending"}
  <2>1. CASE set = None
    BY <1>1, <2>1 DEF Marked
  <2>2. CASE set # None
    <3>1. IsRecord(set, {"used", "status", "stale", "keep", "rev"})
      BY <1>3, <2>2 DEF ShapeOK
    <3>2. \E st \in {"ready", "delete_pending"} : set' = [set EXCEPT !.status = st]
      BY <1>1, <2>2 DEF Marked
    <3> QED BY <3>1, <3>2 DEF IsRecord
  <2> QED BY <2>1, <2>2
<1>6. CASE ~Due(r.at)
  <2>1. Ends(1) /\ hold' \in [Insts -> {"free"}]
    <3>1. hold' = hold /\ hold \in [Insts -> {"free", "deleting", "deleted", "failed"}]
      BY <1>1, <1>3, <1>6 DEF ShapeOK
    <3> QED BY <1>1, <1>2, <1>6, <3>1
  <2> QED BY <1>0, <1>1, <1>4, <1>5, <2>1, EndsKeeps
<1>7. CASE Due(r.at)
  <2>1. \A j \in Insts : ~inst[j].active
    BY <1>2, <1>7 DEF Due, Leased, Lasts
  <2>2. hold' = [hold EXCEPT ![i] = "deleting"] /\ UNCHANGED <<requests, retry, inst, life, now, files>>
    BY <1>1, <1>7
  <2>3. ShapeOK'
    BY <1>2, <1>3, <1>4, <1>5, <2>2 DEF ShapeOK, Pruned
  <2>4. HoldOK(requests, hold', inst)
    <3>1. \A j \in Insts : hold'[j] # "free" => j = i
      BY <1>2, <1>3, <2>2 DEF ShapeOK
    <3> QED BY <1>0, <1>1, <1>3, <2>1, <3>1 DEF HoldOK
  <2>5. \A j \in Insts : InstOK(inst[j]) /\ LeaseOK(j, requests, leases', inst[j], now) /\ ChannelsOK(j, requests, leases', inst[j])
    <3> SUFFICES ASSUME NEW j \in Insts
                 PROVE  InstOK(inst[j]) /\ LeaseOK(j, requests, leases', inst[j], now) /\ ChannelsOK(j, requests, leases', inst[j])
      OBVIOUS
    <3>1. InstOK(inst[j]) /\ LeaseOK(j, requests, leases, inst[j], now) /\ ChannelsOK(j, requests, leases, inst[j])
      BY DEF RegInv
    <3>2. leases'[j] \in {leases[j], None} /\ (inst[j].active => leases'[j] = leases[j])
      BY <1>4 DEF Pruned
    <3> QED BY <3>1, <3>2, PrunedKeepsLease, PrunedKeepsChannels
  <2> QED BY <1>3, <2>2, <2>3, <2>4, <2>5 DEF RegInv
<1> QED BY <1>6, <1>7

(* While a page deletes the databases nobody has them open. *)
LEMMA DeletesUnused ==
    ASSUME RegInv, NEW n \in 1..Len(requests), Holds(n, "deleting")
    PROVE  n = 1 /\ InUse = {} /\ requests[1].who \in Insts
<1>1. n = 1 /\ 1 \in 1..Len(requests)
  BY OnlyTheFirst DEF Holds
<1>2. requests[1].who \in Insts /\ hold[requests[1].who] = "deleting"
  BY <1>1, FirstFacts DEF Holds
<1>3. \A j \in Insts : ~inst[j].active /\ InstOK(inst[j])
  BY <1>2 DEF RegInv, HoldOK
<1>4. \A j \in Insts : ~inst[j].handles
  BY <1>3 DEF InstOK
<1> QED BY <1>1, <1>2, <1>4 DEF InUse

(* The maintenance goes on under the lock, and the rest does not change. *)
LEMMA DeletionKeeps ==
    ASSUME RegInv, NEW n \in 1..Len(requests), Holds(n, "deleting"), NEW st \in {"deleted", "failed"},
           hold' = [hold EXCEPT ![requests[n].who] = st], SameBounds(life'), life'.time = life.time, files' \in BOOLEAN,
           UNCHANGED <<now, set, leases, requests, retry, inst>>
    PROVE  RegInv'
<1>1. n = 1 /\ requests[1].who \in Insts
  BY DeletesUnused
<1>2. ShapeOK /\ HoldOK(requests, hold, inst)
  BY DEF RegInv
<1>3. ShapeOK'
  BY <1>1, <1>2 DEF ShapeOK, SameBounds
<1>4. HoldOK(requests, hold', inst)
  <2>1. \A j \in Insts : hold'[j] # "free" => hold[j] # "free"
    BY <1>1, <1>2 DEF ShapeOK, Holds
  <2>2. \A j \in Insts : hold'[j] = "deleting" => hold[j] = "deleting"
    BY <1>1, <1>2 DEF ShapeOK, Holds
  <2> QED BY <1>2, <2>1, <2>2 DEF HoldOK
<1> QED BY <1>3, <1>4 DEF RegInv

LEMMA DeleteKeeps == ASSUME RegInv, NEW n \in 1..Len(requests), Delete(n) PROVE RegInv' /\ InUse = {}
<1>1. Holds(n, "deleting") /\ InUse = {}
  BY DeletesUnused DEF Delete
<1>2. inst' = inst
  <2>1. \A j \in Insts : [inst[j] EXCEPT !.handles = FALSE] = inst[j]
    <3> SUFFICES ASSUME NEW j \in Insts PROVE [inst[j] EXCEPT !.handles = FALSE] = inst[j]
      OBVIOUS
    <3>1. InstOK(inst[j]) /\ ~inst[j].handles
      BY <1>1 DEF RegInv, InUse
    <3>2. IsRecord(inst[j], InstFields) /\ inst[j].handles = FALSE
      BY <3>1 DEF InstOK
    <3> QED BY <3>2 DEF IsRecord, InstFields
  <2>2. inst' = [j \in Insts |-> inst[j]] /\ inst = [j \in Insts |-> inst[j]]
    BY <2>1 DEF Delete, RegInv, ShapeOK
  <2> QED BY <2>2
<1>3. SameBounds(life') /\ life'.time = life.time
  BY NobodyOutlives DEF Delete, RegInv
<1> QED BY <1>1, <1>2, <1>3, DeletionKeeps DEF Delete

LEMMA DeleteFailsKeeps == ASSUME RegInv, NEW n \in 1..Len(requests), DeleteFails(n) PROVE RegInv'
<1>1. SameBounds(life)
  BY NobodyOutlives DEF RegInv
<1>2. SameBounds(life') /\ life'.time = life.time
  BY <1>1 DEF DeleteFails, SameBounds, IsRecord, LifeFields
<1>3. files' \in BOOLEAN
  BY DEF DeleteFails, RegInv, ShapeOK
<1> QED BY <1>2, <1>3, DeletionKeeps DEF DeleteFails

LEMMA FinishKeeps == ASSUME RegInv, NEW n \in 1..Len(requests), FinishDelete(n) PROVE RegInv'
<1> DEFINE r == requests[1]
<1>0. n = 1 /\ 1 \in 1..Len(requests) /\ r.op = "maintain"
  BY OnlyTheFirst DEF FinishDelete, Holds
<1>1. Ends(1) /\ hold' = [hold EXCEPT ![r.who] = "free"] /\ UNCHANGED <<life, now, files, news>>
  BY <1>0 DEF FinishDelete
<1>2. /\ r.who \in Insts /\ (\A j \in Insts : hold[j] # "free" => j = r.who) /\ \A j \in Insts : inst[j].active => Lasts(j, r.at, leases)
  BY <1>0, FirstFacts
<1>3. ShapeOK
  BY DEF RegInv
<1>4. hold' \in [Insts -> {"free"}]
  BY <1>1, <1>2, <1>3 DEF ShapeOK
<1>5. Pruned(leases')
  <2>1. leases' \in {leases, Unexpired(leases, r.at)} \/ (Leased(r.at) = {} /\ leases' = [j \in Insts |-> None])
    BY <1>0 DEF FinishDelete
  <2>2. ASSUME Leased(r.at) = {}, leases' = [j \in Insts |-> None] PROVE Pruned(leases')
    BY <1>2, <2>2 DEF Pruned, Leased, Lasts
  <2> QED BY <1>0, <2>1, <2>2, ExpiryPrunes
<1>6. set' # None => IsRecord(set', {"used", "status", "stale", "keep", "rev"}) /\ set'.status \in {"ready", "delete_pending"}
  <2>1. set' \in {set, None} \/ (set # None /\ set' = [set EXCEPT !.status = "ready"])
    BY DEF FinishDelete, Pending
  <2> QED BY <1>3, <2>1 DEF ShapeOK, IsRecord
<1> QED BY <1>0, <1>1, <1>4, <1>5, <1>6, EndsKeeps

--------------------------------------------------------------------------------
(* The theorems. *)

LEMMA InitRegInv == ASSUME RegInit, \A p \in Lives : p.locks PROVE RegInv
<1>1. /\ life \in Lives /\ now = 0 /\ set = None /\ files = FALSE /\ requests = <<>> /\ retry = {}
      /\ leases = [i \in Insts |-> None] /\ hold = [i \in Insts |-> "free"] /\ inst = [i \in Insts |-> Nobody]
  BY DEF RegInit
<1>2. ShapeOK
  <2>1. /\ life \in [time: Nat, policies: [Insts -> Policies], channels: SUBSET Channels,
                     updates: SUBSET [channels: SUBSET Channels, policy: Policies \union {None}, named: SUBSET {"stale", "keep"}],
                     broadcast: BOOLEAN, locks: BOOLEAN, failures: Nat, cares: Nat, closes: Nat, crashes: Nat]
        /\ life.locks
    BY <1>1, RegistryAssumption
  <2>2. IsRecord(life, LifeFields) /\ life.time \in Nat /\ life.channels \subseteq Channels
    BY <2>1 DEF IsRecord, LifeFields
  <2>3. life.updates \subseteq [channels: SUBSET Channels, policy: Policies \union {None}, named: SUBSET {"stale", "keep"}]
    BY <2>1
  <2>4. \A u \in life.updates : u.channels \subseteq Channels /\ IsRecord(u, {"channels", "policy", "named"})
    BY <2>3 DEF IsRecord
  <2>5. now \in 0..life.time /\ files \in BOOLEAN /\ retry \subseteq Insts /\ set = None
    <3>1. now \in 0..life.time
      BY <1>1, <2>2
    <3>2. files \in BOOLEAN
      BY <1>1
    <3> QED BY <1>1, <3>1, <3>2
  <2>6. hold \in [Insts -> {"free", "deleting", "deleted", "failed"}]
    BY <1>1
  <2>7. leases = [i \in Insts |-> leases[i]] /\ inst = [i \in Insts |-> inst[i]]
    BY <1>1
  <2> QED BY <2>1, <2>2, <2>4, <2>5, <2>6, <2>7 DEF ShapeOK
<1>3. Len(requests) = 0 /\ IsQueue(requests)
  BY <1>1 DEF IsQueue
<1>4. QueueOK(requests, inst, now) /\ HoldOK(requests, hold, inst)
  BY <1>1, <1>3 DEF QueueOK, HoldOK
<1>5. InstOK(Nobody) /\ ~Nobody.active /\ Nobody.main = "new"
  <2>1. /\ IsRecord(Nobody, InstFields) /\ Nobody.main = "new" /\ Nobody.active = FALSE /\ Nobody.handles = FALSE /\ Nobody.touch = FALSE
        /\ Nobody.crossed = FALSE /\ Nobody.beat = 0 /\ Nobody.channels = {}
    BY DEF Nobody, IsRecord, InstFields
  <2> DEFINE s == Nobody
  <2>0. s = Nobody
    OBVIOUS
  <2> HIDE DEF s
  <2>2. s.active \in BOOLEAN /\ s.handles \in BOOLEAN /\ s.touch \in BOOLEAN /\ s.crossed \in BOOLEAN /\ ~s.active /\ ~s.handles
    BY <2>0, <2>1
  <2>3. s.main \notin Present /\ s.main \notin {"updating", "reading", "settling"} /\ s.beat \in Int /\ s.channels \subseteq Channels
    BY <2>0, <2>1 DEF Present
  <2>4. IsRecord(s, InstFields) /\ s.main = "new"
    BY <2>0, <2>1
  <2>5. InstOK(s)
    BY <2>2, <2>3, <2>4 DEF InstOK
  <2> QED BY <2>0, <2>1, <2>5
<1>6. ASSUME NEW i \in Insts PROVE InstOK(inst[i]) /\ LeaseOK(i, requests, leases, inst[i], now) /\ ChannelsOK(i, requests, leases, inst[i])
  <2>1. inst[i] = Nobody /\ leases[i] = None
    BY <1>1
  <2>2. LeaseOK(i, requests, leases, inst[i], now) /\ ChannelsOK(i, requests, leases, inst[i])
    BY <1>5, <2>1 DEF LeaseOK, ChannelsOK
  <2> QED BY <1>5, <2>1, <2>2
<1> QED BY <1>2, <1>4, <1>6 DEF RegInv

LEMMA NextKeeps == ASSUME RegInv, [RegNext]_regVars PROVE RegInv'
<1>1. CASE UNCHANGED regVars
  BY <1>1 DEF regVars, RegInv, ShapeOK, InUse
<1>2. ASSUME NEW n \in 1..Len(requests),
             \/ GrantActivate(n) \/ GrantRead(n) \/ GrantRelease(n) \/ GrantMaintain(n)
             \/ Delete(n) \/ FinishDelete(n) \/ DeleteFails(n)
      PROVE  RegInv'
  BY <1>2, ActivateKeeps, ReadKeeps, ReleasedKeeps, MaintainedKeeps, DeleteKeeps, FinishKeeps, DeleteFailsKeeps
<1>3. ASSUME NEW i \in Insts, Goes(i) PROVE RegInv'
  BY <1>3, OpensKeeps, SettleKeeps, FlushKeeps, RefreshKeeps, HearKeeps, ReleaseKeeps, RetryKeeps DEF Goes
<1>4. ASSUME NEW i \in Insts, Heartbeat(i) \/ Maintain(i) \/ Close(i) \/ CrashPage(i) \/ StartPage(i) PROVE RegInv'
  BY <1>4, HeartbeatKeeps, MaintainKeeps, CloseKeeps, CrashKeeps, StartKeeps
<1>5. ASSUME NEW i \in Insts, NEW u \in life.updates, Update(i, u) PROVE RegInv'
  BY <1>5, UpdateKeeps
<1>6. CASE Tick
  BY <1>6, TickKeeps
<1> QED BY <1>1, <1>2, <1>3, <1>4, <1>5, <1>6 DEF RegNext, AnyRequest

LEMMA RegInvHolds == ASSUME \A p \in Lives : p.locks PROVE RegSpec => []RegInv
<1>1. RegInit => RegInv
  BY InitRegInv
<1>2. RegInv /\ [RegNext]_regVars => RegInv'
  BY NextKeeps
<1> QED BY <1>1, <1>2, PTL DEF RegSpec

LEMMA InvIsNamed == ASSUME RegInv PROVE Named
<1>1. ShapeOK /\ \A i \in Insts : InstOK(inst[i]) /\ LeaseOK(i, requests, leases, inst[i], now) /\ ChannelsOK(i, requests, leases, inst[i])
  BY DEF RegInv
<1>2. RegTypeOK
  BY <1>1 DEF RegTypeOK, ShapeOK, InstOK, LeaseOK
<1>3. ASSUME NEW i \in Insts, inst[i].main = "open", ~inst[i].touch, ~inst[i].crossed
      PROVE  leases[i] # None /\ leases[i].until > now /\ inst[i].channels \subseteq leases[i].channels
  <2>1. inst[i].active /\ QueueOK(requests, inst, now) /\ now \in Int
    BY <1>1, <1>3 DEF InstOK, Present, RegInv, ShapeOK
  <2>2. ASSUME NEW k \in 1..Len(requests), requests[k].who = i PROVE requests[k].op # "activate" /\ requests[k].job # "touch"
    <3>1. RequestOK(requests[k], now) /\ KindOK(requests[k], inst[i])
      BY <2>1, <2>2 DEF QueueOK
    <3> QED BY <1>3, <3>1 DEF RequestOK, KindOK, AskedAt
  <2>3. Untouched(i, requests)
    BY <2>2 DEF Untouched, IsTouch
  <2>4. inst[i].channels \subseteq leases[i].channels
    BY <1>1, <1>3, <2>3 DEF ChannelsOK
  <2>5. HeldOrRenewed(i, now, Len(requests) + 1, requests, leases)
    BY <1>1, <2>1 DEF LeaseOK
  <2>6. \A k \in 1..((Len(requests) + 1) - 1) : ~Renews(requests[k], i)
    <3>1. Len(requests) \in Nat
      BY <2>1 DEF QueueOK, IsQueue
    <3> QED BY <2>2, <3>1 DEF Renews
  <2> QED BY <2>4, <2>5, <2>6 DEF HeldOrRenewed, Lasts
<1> QED BY <1>2, <1>3 DEF Named

(* A channel an instance administers is in its lease, and the lease has not run out, *)
(* with any number of pages and channels; the pages have Web Locks                    *)
(* (storage-maintenance.js:225-278).                                                  *)
THEOREM ChannelsStayNamed == ASSUME \A p \in Lives : p.locks PROVE RegSpec => []Named
<1>1. RegInv => Named
  BY InvIsNamed
<1> QED BY <1>1, RegInvHolds, PTL

(* The databases of an identity are not deleted while an instance has them open: when  *)
(* a maintenance finds no lease that lasts, nobody is present; and while it deletes,     *)
(* whoever comes waits for the lock (storage-maintenance.js:225-297).                    *)
THEOREM DatabasesInUseStay == ASSUME \A p \in Lives : p.locks PROVE RegSpec => InUseKept
<1>1. ASSUME RegInv, [RegNext]_regVars PROVE [files /\ ~files' => InUse = {}]_regVars
  <2>1. ASSUME RegNext, files, ~files' PROVE \E n \in 1..Len(requests) : Delete(n)
    BY <2>1 DEF RegNext, AnyRequest, Goes, Tick, GrantActivate, GrantRead, GrantRelease, GrantMaintain, FinishDelete, DeleteFails,
       Opens, SettleUpdate, Flush, Refresh, Hear, Release, RetryTimer, Heartbeat, Maintain, Close, CrashPage, StartPage, Update, Asks, Becomes
  <2>2. ASSUME RegNext, files, ~files' PROVE InUse = {}
    BY <1>1, <2>1, <2>2, DeleteKeeps
  <2> QED BY <1>1, <2>2
<1>2. RegInv /\ [RegNext]_regVars => [files /\ ~files' => InUse = {}]_regVars
  BY <1>1
<1> QED BY <1>2, RegInvHolds, PTL DEF RegSpec, InUseKept
================================================================================
