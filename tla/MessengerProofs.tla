----------------------------- MODULE MessengerProofs -----------------------------
(***************************************************************************)
(* Messenger, for any plan, any clock and any skew: a subscription is kept  *)
(* only while its channel is wanted, and what the application paused it     *)
(* alone resumes.                                                           *)
(***************************************************************************)
EXTENDS Messenger, NaturalsLemmas

Instants == 0..MaxTime
StoredStates == [seen : Instants, through : Instants, open : 0..Never, ranges : SUBSET Instants]
Entries == [ev : Times, src : {"live", "history", "stray"}, storing : BOOLEAN]
Calls == [by : {"nobody", "app", "job", "refresh"}, stage : {"none", "flush", "open"}, window : Instants]
Watches == [held : BOOLEAN, call : Calls, job : {"none", "setup", "watch", "history", "recovering"},
            gap : 0..Never, recover : BOOLEAN, told : 0..Never, closing : BOOLEAN, retrying : BOOLEAN,
            refresh : BOOLEAN]
Subs == [owner : {"nobody", "call", "held", "orphan"}, state : {"none", "opening", "live", "cut"},
         window : Instants, since : Instants, told : BOOLEAN]
Passes == [stage : {"none", "pick", "read", "finalize", "flush"}, snap : SUBSET Instants, left : SUBSET Instants,
           run : SUBSET Instants, done : SUBSET Instants, todo : SUBSET Times, waiting : Instants,
           aborted : BOOLEAN, changed : BOOLEAN, failed : BOOLEAN, offline : BOOLEAN,
           for : SUBSET {"job", "gap", "timer"}]
PauseReasons == {"app", "storage", "network", "capacity"}
ResumeCalls == [reason : PauseReasons, by : {"app", "task", "monitor"}, valid : BOOLEAN, closing : BOOLEAN]

(* The shape of the channel's memory, the events in it and the stored state. *)
ShapeOK ==
    /\ plan \in Bounds /\ now \in Times
    /\ st \in StoredStates /\ disk \in StoredStates
    /\ incoming \in Seq(Entries)
    /\ w \in Watches /\ sub \in Subs /\ rec \in Passes
    /\ up \in {"down", "open", "closing"} /\ desired \in BOOLEAN /\ online \in BOOLEAN

(* Every event anywhere was published. *)
EventsOK ==
    /\ published \subseteq Times /\ unheard \subseteq published
    /\ accepted \subseteq published /\ inbox \subseteq accepted /\ unsaved \subseteq published
    /\ \A i \in DOMAIN incoming : incoming[i].ev \in published
    /\ rec.todo \subseteq published

(* A reason of the application is neither automatic nor about to be lifted. *)
PausesOK ==
    /\ pauses \subseteq PauseReasons /\ resumes \subseteq ResumeCalls
    /\ owned \subseteq pauses /\ owned \subseteq {"app", "storage"}
    /\ auto \subseteq pauses /\ auto \intersect owned = {}
    /\ \A c \in resumes : c.valid => c.reason \notin owned

(* A watch exists, or is being made, only while the channel is wanted. *)
WatchOK ==
    /\ w.held => Wanted
    /\ w.call.stage # "none" => Wanted
    /\ w.call.stage = "none" => w.call = NoCall
    /\ sub.owner = "held" => w.held
    /\ sub.owner = "call" => w.call.stage = "open"

(* A process that is down holds nothing. *)
DownOK ==
    up = "down" => /\ st = Fresh /\ ~desired /\ incoming = <<>> /\ unsaved = {}
                   /\ pauses = {} /\ auto = {} /\ resumes = {} /\ owned = {}
                   /\ w = NoWatch /\ sub = NoSub /\ rec = NoPass

IInv == ShapeOK /\ EventsOK /\ PausesOK /\ WatchOK /\ DownOK
--------------------------------------------------------------------------------
(* What the application owns. *)

LEMMA PausingKeeps ==
    ASSUME PausesOK, NEW r \in PauseReasons, NEW s, NEW waiters, Pausing(r, s, waiters)
    PROVE  /\ pauses' = pauses \union {r} /\ resumes' \subseteq ResumeCalls
           /\ \A c \in resumes' : c.valid => c.reason \notin owned /\ c.reason # r
<1>1. \A c \in resumes : [c EXCEPT !.valid = FALSE] \in ResumeCalls /\ ~[c EXCEPT !.valid = FALSE].valid
  BY DEF PausesOK, ResumeCalls
<1>2. resumes' = {IF c.reason = r THEN [c EXCEPT !.valid = FALSE] ELSE c : c \in resumes} /\ pauses' = pauses \union {r}
  BY DEF Pausing
<1>3. resumes \subseteq ResumeCalls /\ \A c \in resumes : c.valid => c.reason \notin owned
  BY DEF PausesOK
<1> QED BY <1>1, <1>2, <1>3

LEMMA RepairingKeeps ==
    ASSUME PausesOK, NEW r \in PauseReasons, NEW by \in {"app", "task", "monitor"}, Repairing(r, by),
           owned' \subseteq owned \ {r}
    PROVE  PausesOK'
<1>1. /\ resumes' = {c \in resumes : ~(c.reason = r /\ c.by = by)}
                       \union {[reason |-> r, by |-> by, valid |-> TRUE, closing |-> FALSE]}
      /\ pauses' = pauses /\ auto' = auto
  BY DEF Repairing, Resuming
<1>2. [reason |-> r, by |-> by, valid |-> TRUE, closing |-> FALSE] \in ResumeCalls
  BY DEF ResumeCalls
<1>3. [reason |-> r, by |-> by, valid |-> TRUE, closing |-> FALSE].reason = r
  OBVIOUS
<1> HIDE DEF ResumeCalls, PauseReasons
<1>4. \A c \in resumes' : c \in ResumeCalls /\ (c.valid => c.reason \notin owned')
  <2> SUFFICES ASSUME NEW c \in resumes' PROVE c \in ResumeCalls /\ (c.valid => c.reason \notin owned')
    OBVIOUS
  <2>1. CASE c \in resumes
    BY <2>1 DEF PausesOK
  <2>2. CASE c = [reason |-> r, by |-> by, valid |-> TRUE, closing |-> FALSE]
    BY <2>2, <1>2, <1>3
  <2> QED BY <1>1, <2>1, <2>2
<1> QED BY <1>1, <1>4 DEF PausesOK

LEMMA PausesNext ==
    ASSUME IInv, [Next]_vars
    PROVE  PausesOK'
<1> USE DEF IInv
<1>1. CASE GoOffline
  <2>1. CASE PauseInternally("network", st, {})
    <3>1. Pausing("network", st, {}) /\ auto' = (IF "network" \notin pauses THEN auto \union {"network"} ELSE auto)
      BY <2>1 DEF PauseInternally
    <3>2. owned' = owned
      BY <1>1 DEF GoOffline
    <3> QED BY <3>1, <3>2, PausingKeeps DEF PausesOK, PauseReasons
  <2>2. CASE UNCHANGED <<pauses, auto, resumes>>
    BY <1>1, <2>2 DEF GoOffline, PausesOK
  <2> QED BY <1>1, <2>1, <2>2 DEF GoOffline
<1>2. CASE Refused
  <2>1. CASE PauseExplicitly("capacity", st, {})
    <3>1. Pausing("capacity", st, {}) /\ auto' = auto \ {"capacity"}
      BY <2>1 DEF PauseExplicitly
    <3>2. owned' = owned
      BY <1>2 DEF Refused
    <3> QED BY <3>1, <3>2, PausingKeeps DEF PausesOK, PauseReasons
  <2>2. CASE UNCHANGED <<pauses, auto, resumes>>
    BY <1>2, <2>2 DEF Refused, PausesOK
  <2> QED BY <1>2, <2>1, <2>2 DEF Refused
<1>3. CASE StoreFails
  <2>1. CASE owned' = owned /\ PauseExplicitly("capacity", Interrupted(st, First.ev), {})
    <3>1. Pausing("capacity", Interrupted(st, First.ev), {}) /\ auto' = auto \ {"capacity"}
      BY <2>1 DEF PauseExplicitly
    <3> QED BY <2>1, <3>1, PausingKeeps DEF PausesOK, PauseReasons
  <2>2. CASE /\ owned' = owned \union ({"storage"} \intersect (pauses \ auto))
             /\ PauseInternally("storage", Interrupted(st, First.ev), {})
    <3>1. /\ Pausing("storage", Interrupted(st, First.ev), {})
          /\ auto' = (IF "storage" \notin pauses THEN auto \union {"storage"} ELSE auto)
      BY <2>2 DEF PauseInternally
    <3> QED BY <2>2, <3>1, PausingKeeps DEF PausesOK, PauseReasons
  <2>3. CASE owned' = owned \union {"storage"} /\ PauseExplicitly("storage", Interrupted(st, First.ev), {})
    <3>1. Pausing("storage", Interrupted(st, First.ev), {}) /\ auto' = auto \ {"storage"}
      BY <2>3 DEF PauseExplicitly
    <3> QED BY <2>3, <3>1, PausingKeeps DEF PausesOK, PauseReasons
  <2> QED BY <1>3, <2>1, <2>2, <2>3 DEF StoreFails
<1>4. CASE Start
  BY <1>4 DEF Start, PausesOK, DownOK, PauseReasons
<1>5. CASE Close
  BY <1>5 DEF Close, PausesOK
<1>6. CASE Closed \/ Crash
  BY <1>6 DEF Closed, Crash, Down, PausesOK
<1>7. ASSUME NEW r \in Reasons, AppPauses(r) PROVE PausesOK'
  <2>1. Pausing(r, st, {}) /\ auto' = auto \ {r} /\ owned' = owned \union {r}
    BY <1>7 DEF AppPauses, PauseExplicitly
  <2>2. r \in {"app", "storage"} /\ r \in PauseReasons
    BY DEF Reasons, PauseReasons
  <2> QED BY <2>1, <2>2, PausingKeeps DEF PausesOK
<1>8. ASSUME NEW r \in Reasons, AppResumes(r) PROVE PausesOK'
  <2>1. Repairing(r, "app") /\ owned' = owned \ {r} /\ r \in PauseReasons
    BY <1>8 DEF AppResumes, Reasons, PauseReasons
  <2> QED BY <2>1, RepairingKeeps
<1>9. ASSUME NEW r \in {"network", "storage"}, TaskResumes(r) PROVE PausesOK'
  <2>1. Repairing(r, "task") /\ owned' = owned /\ r \in auto /\ r \in PauseReasons
    BY <1>9 DEF TaskResumes, PauseReasons
  <2>2. owned' \subseteq owned \ {r}
    BY <2>1 DEF PausesOK
  <2> QED BY <2>1, <2>2, RepairingKeeps
<1>10. CASE MonitorResumes
  <2>1. Repairing("capacity", "monitor") /\ owned' = owned /\ "capacity" \in PauseReasons
    BY <1>10 DEF MonitorResumes, PauseReasons
  <2>2. owned' \subseteq owned \ {"capacity"}
    BY <2>1 DEF PausesOK
  <2> QED BY <2>1, <2>2, RepairingKeeps
<1>11. ASSUME NEW c \in resumes, ResumeRepaired(c) PROVE PausesOK'
  <2>1. owned' = owned /\ c \in ResumeCalls /\ resumes \subseteq ResumeCalls
    BY <1>11 DEF ResumeRepaired, PausesOK
  <2>2. CASE ~c.valid
    BY <1>11, <2>1, <2>2 DEF ResumeRepaired, PausesOK
  <2>3. CASE c.valid
    <3>1. pauses' = pauses \ {c.reason} /\ auto' = auto \ {c.reason} /\ c.reason \notin owned
      BY <1>11, <2>3 DEF ResumeRepaired, PausesOK
    <3>2. [c EXCEPT !.closing = TRUE] \in ResumeCalls /\ [c EXCEPT !.closing = TRUE].reason = c.reason
      BY <2>1 DEF ResumeCalls
    <3>3. resumes' \subseteq resumes \union {[c EXCEPT !.closing = TRUE]}
      BY <1>11, <2>3 DEF ResumeRepaired
    <3>4. \A x \in resumes' : x \in ResumeCalls /\ (x.valid => x.reason \notin owned)
      BY <2>1, <3>1, <3>2, <3>3 DEF PausesOK
    <3> QED BY <2>1, <3>1, <3>4 DEF PausesOK
  <2> QED BY <2>2, <2>3
<1>12. ASSUME NEW c \in resumes, ResumeClosed(c) PROVE PausesOK'
  BY <1>12 DEF ResumeClosed, PausesOK
<1>13. CASE UNCHANGED pausing
  BY <1>13 DEF pausing, PausesOK
<1>15. /\ Tick \/ Publish \/ Cut \/ Update \/ Watch \/ Refresh \/ Unwatch \/ CallFails \/ FetchFails => UNCHANGED pausing
       /\ Taken \/ Live \/ Watching \/ Pass \/ TimerFires \/ Persist \/ Consume \/ GoOnline => UNCHANGED pausing
  <2>1. Tick \/ Publish \/ Cut \/ Update \/ Watch \/ Refresh \/ Unwatch \/ CallFails \/ FetchFails => UNCHANGED pausing
    BY DEF Tick, Publish, Cut, Update, Watch, Refresh, Unwatch, CallFails, FetchFails, pausing
  <2>2. Taken \/ Live => UNCHANGED pausing
    BY DEF Taken, TakeIn, Stored, Live, GoesLive, TellInterrupted, Ready, ReadySaved, OrphanStops, pausing
  <2>3. Watching => UNCHANGED pausing
    BY DEF Watching, JobStarts, Install, Returns, WatchRetries, JobHistory, RefreshHistory, GapFires, pausing
  <2>4. Pass => UNCHANGED pausing
    BY DEF Pass, Pick, ReadNext, PassAborted, ReadDone, Finalize, PassEnds, pausing
  <2>5. TimerFires \/ Persist \/ Consume \/ GoOnline => UNCHANGED pausing
    BY DEF TimerFires, Persist, Consume, GoOnline, pausing
  <2> QED BY <2>1, <2>2, <2>3, <2>4, <2>5
<1>16. CASE UNCHANGED vars
  BY <1>16, <1>13 DEF vars
<1> QED
  BY <1>1, <1>2, <1>3, <1>4, <1>5, <1>6, <1>7, <1>8, <1>9, <1>10, <1>11, <1>12, <1>13, <1>15, <1>16
  DEF Next, World, Resume
--------------------------------------------------------------------------------
(* The operators keep the shape of what they change. *)

LEMMA TwoNumbers ==
    ASSUME NEW a \in Int, NEW b \in Int
    PROVE  Max({a, b}) = (IF a >= b THEN a ELSE b) /\ Min({a, b}) = (IF a <= b THEN a ELSE b)
BY DEF Max, Min

LEMMA BeforeIsEarlier ==
    ASSUME NEW t \in Nat
    PROVE  Before(t) \in Nat /\ Before(t) <= t
BY TwoNumbers, ConstantsAssumption DEF Before

LEMMA StatesKept ==
    ASSUME NEW s \in StoredStates, NEW t \in Instants, now \in Times
    PROVE  /\ Interrupted(s, t) \in StoredStates /\ Seen(s, t) \in StoredStates
           /\ WithRange(s, Before(t), now) \in StoredStates
           /\ WithWindow(s) \in StoredStates /\ WithOpenClosed(s) \in StoredStates
<1> USE ConstantsAssumption DEF StoredStates, Instants, Times, Never
<1>1. /\ Before(t) \in Nat /\ Before(t) <= t
      /\ Min({s.open, Before(t)}) \in 0..Never /\ Max({s.seen, t}) \in Instants
      /\ Checkpoint(s) \in Instants
  <2>1. Before(t) \in Nat /\ Before(t) <= t
    BY BeforeIsEarlier
  <2>2. Min({s.open, Before(t)}) = (IF s.open <= Before(t) THEN s.open ELSE Before(t))
    BY <2>1, TwoNumbers
  <2>3. Max({s.seen, t}) = (IF s.seen >= t THEN s.seen ELSE t)
    BY TwoNumbers
  <2>4. Checkpoint(s) = (IF s.seen >= s.through THEN s.seen ELSE s.through)
    BY TwoNumbers DEF Checkpoint
  <2> QED BY <2>1, <2>2, <2>3, <2>4
<1>2. Before(Checkpoint(s)) \in Nat
  BY <1>1, BeforeIsEarlier
<1>3. \A from \in Nat : s.ranges \union (from..now) \in SUBSET Instants
  OBVIOUS
<1>4. \A from \in Nat : WithRange(s, from, now) \in StoredStates
  BY <1>3 DEF WithRange
<1>5. Interrupted(s, t) \in StoredStates /\ Seen(s, t) \in StoredStates
  BY <1>1 DEF Interrupted, Seen
<1>6. WithRange(s, Before(t), now) \in StoredStates /\ WithWindow(s) \in StoredStates
  BY <1>1, <1>2, <1>4 DEF WithWindow
<1>7. WithOpenClosed(s) \in StoredStates
  BY <1>4 DEF WithOpenClosed
<1> QED BY <1>5, <1>6, <1>7

LEMMA MergedKept ==
    ASSUME NEW s \in StoredStates, NEW r \in Passes
    PROVE  Merged(s, r) \in StoredStates
<1> DEFINE T == {s.through} \union r.done
<1>1. T \subseteq Nat /\ T # {} /\ MaxTime \in Nat /\ \A x \in T : x <= MaxTime
  BY ConstantsAssumption DEF StoredStates, Passes, Instants
<1>2. Max(T) \in T
  BY <1>1, MaxOfNaturals
<1>3. Max(T) \in Instants
  BY <1>2 DEF StoredStates, Passes
<1>4. (UNION (Runs(s.ranges) \ Runs(r.snap))) \union (r.snap \ r.done) \in SUBSET Instants
  <2>1. s.ranges \in SUBSET Instants /\ r.snap \in SUBSET Instants
    BY DEF StoredStates, Passes
  <2>2. \A R \in Runs(s.ranges) : R \subseteq s.ranges
    BY DEF Runs, RunOf
  <2> QED BY <2>1, <2>2
<1> QED BY <1>3, <1>4 DEF Merged, StoredStates

LEMMA WatchesKept ==
    ASSUME NEW x \in Watches
    PROVE  Ended(x) \in Watches /\ Ended(x).held = x.held /\ Ended(x).call = NoCall
<1>1. NoCall \in Calls
  BY ConstantsAssumption DEF NoCall, Calls, Instants
<1>2. (x.refresh \/ x.call.by = "refresh") \in BOOLEAN
  OBVIOUS
<1>3. (IF x.call.by = "job" THEN "history" ELSE x.job) \in {"none", "setup", "watch", "history", "recovering"}
  BY DEF Watches
<1> QED BY <1>1, <1>2, <1>3 DEF Ended, Watches

LEMMA SubsKept ==
    ASSUME NEW x \in Subs
    PROVE  /\ SubAfter(x) \in Subs /\ SubAfter(x).owner # "call"
           /\ SubAfter(x).owner = "held" <=> x.owner = "held"
BY DEF SubAfter, Subs

LEMMA EmptyKept ==
    NoWatch \in Watches /\ NoCall \in Calls /\ NoSub \in Subs /\ NoPass \in Passes /\ Fresh \in StoredStates
BY ConstantsAssumption
DEF NoWatch, NoCall, NoSub, NoPass, Fresh, Watches, Calls, Subs, Passes, StoredStates, Instants, Never

LEMMA PassesKept ==
    ASSUME NEW x \in Passes
    PROVE  /\ Changed(x) \in Passes /\ Aborted(x) \in Passes
           /\ [Aborted(Changed(x)) EXCEPT !.for = @ \ {"job"}] \in Passes
           /\ [Changed(x) EXCEPT !.for = @ \ {"job"}] \in Passes
           /\ Changed(x).todo = x.todo /\ Aborted(x).todo = x.todo
           /\ [Aborted(Changed(x)) EXCEPT !.for = @ \ {"job"}].todo = x.todo
           /\ [Changed(x) EXCEPT !.for = @ \ {"job"}].todo = x.todo
BY ZenonT(40) DEF Changed, Aborted, InRange, Passes

LEMMA Stopped ==
    ASSUME ShapeOK, StopWatches
    PROVE  /\ w' \in Watches /\ ~w'.held /\ w'.call = NoCall
           /\ sub' \in Subs /\ sub'.owner \notin {"held", "call"}
           /\ rec' \in Passes /\ rec'.todo = rec.todo
<1>1. Ended(w) \in Watches /\ w \in Watches /\ sub \in Subs /\ rec \in Passes
  BY WatchesKept DEF ShapeOK
<1>2. w' = [NoWatch EXCEPT !.retrying = w.retrying, !.refresh = Ended(w).refresh]
  BY DEF StopWatches
<1>3. w' \in Watches /\ ~w'.held /\ w'.call = NoCall
  <2>1. w.retrying \in BOOLEAN /\ Ended(w).refresh \in BOOLEAN
    BY <1>1 DEF Watches
  <2>2. NoWatch \in Watches /\ ~NoWatch.held /\ NoWatch.call = NoCall
    BY EmptyKept DEF NoWatch
  <2> QED BY <1>2, <2>1, <2>2 DEF Watches
<1>4. sub' \in Subs /\ sub'.owner \notin {"held", "call"}
  BY <1>1, SubsKept, EmptyKept DEF StopWatches, NoSub
<1>5. rec' \in Passes /\ rec'.todo = rec.todo
  BY <1>1, PassesKept DEF StopWatches
<1> QED BY <1>3, <1>4, <1>5

LEMMA PausingStops ==
    ASSUME ShapeOK, NEW r, NEW s \in StoredStates, NEW waiters, Pausing(r, s, waiters)
    PROVE  StopWatches /\ st' \in StoredStates /\ r \in pauses'
<1>1. now \in Instants /\ now \in Times
  BY ConstantsAssumption DEF ShapeOK, Times, Instants
<1>2. Interrupted(s, now) \in StoredStates
  BY <1>1, StatesKept
<1> QED BY <1>2 DEF Pausing

LEMMA Called ==
    ASSUME ShapeOK, NEW by \in {"app", "job", "refresh"}, NEW x \in Watches, NEW s \in StoredStates, Call(by, x, s)
    PROVE  /\ st' \in StoredStates
           /\ w' \in Watches /\ w'.held = x.held /\ w'.call.stage = "flush"
           /\ sub' \in Subs /\ sub'.owner # "call" /\ (sub'.owner = "held" => sub.owner = "held")
           /\ rec' \in Passes /\ rec'.todo = rec.todo
<1>1. Ended(x) \in Watches /\ Ended(x).held = x.held
  BY WatchesKept
<1>2. [by |-> by, stage |-> "flush", window |-> now] \in Calls /\ Never \in 0..Never
  BY ConstantsAssumption DEF ShapeOK, Times, Calls, Instants, Never
<1>3. w' = [Ended(x) EXCEPT !.call = [by |-> by, stage |-> "flush", window |-> now], !.gap = Never,
                            !.job = IF by = "job" THEN "watch" ELSE @]
  BY DEF Call
<1>4. w' \in Watches /\ w'.held = x.held /\ w'.call.stage = "flush"
  BY <1>1, <1>2, <1>3 DEF Watches
<1>5. st' \in StoredStates
  BY StatesKept, ConstantsAssumption DEF Call, ShapeOK, Times, Instants
<1> QED BY <1>4, <1>5, SubsKept, PassesKept DEF Call, ShapeOK

LEMMA RunEndsKeeps ==
    ASSUME ShapeOK, NEW r \in Passes, NEW kept, RunEnds(r, kept)
    PROVE  rec' \in Passes /\ rec'.todo = {} /\ st' \in StoredStates
<1> DEFINE next == [r EXCEPT !.stage = "pick", !.run = {}, !.todo = {}, !.waiting = 0,
                             !.done = IF kept THEN @ ELSE @ \union r.run]
<1>1. next \in Passes /\ [next EXCEPT !.stage = "flush"] \in Passes /\ next.todo = {}
  <2>1. 0 \in Instants
    BY ConstantsAssumption DEF Instants
  <2>2. next \in Passes /\ next.todo = {}
    BY <2>1 DEF Passes
  <2> HIDE DEF next
  <2>3. [next EXCEPT !.stage = "flush"] \in Passes
    BY <2>2 DEF Passes
  <2> QED BY <2>2, <2>3
<1>2. Merged(st, next) \in StoredStates
  BY <1>1, MergedKept DEF ShapeOK
<1>3. [next EXCEPT !.stage = "flush"].todo = {}
  BY <1>1 DEF Passes
<1>4. /\ rec' = next \/ rec' = [next EXCEPT !.stage = "flush"]
      /\ st' = st \/ st' = Merged(st, next)
  BY DEF RunEnds
<1> HIDE DEF next
<1> QED BY <1>1, <1>2, <1>3, <1>4 DEF ShapeOK

LEMMA RecoveringKeeps ==
    ASSUME ShapeOK, NEW s \in StoredStates, NEW for \in {"job", "gap", "timer"}
    PROVE  Recovering(s, for) \in Passes /\ Recovering(s, for).todo \subseteq rec.todo
<1>1. NoPass \in Passes /\ NoPass.todo = {}
  BY EmptyKept DEF NoPass
<1>2. (~online) \in BOOLEAN /\ s.ranges \in SUBSET Instants
  BY DEF StoredStates
<1> QED BY <1>1, <1>2, ZenonT(40) DEF Recovering, Passes, ShapeOK

LEMMA AwakeWhileBusy ==
    ASSUME IInv,
           \/ sub.state # "none" \/ sub.owner # "nobody"
           \/ w.call.stage # "none" \/ w.job # "none" \/ w.held \/ w.refresh \/ w.closing \/ w.retrying \/ w.gap # Never
           \/ rec.stage # "none" \/ incoming # <<>> \/ pauses # {} \/ desired
    PROVE  up # "down"
BY DEF IInv, DownOK, NoSub, NoWatch, NoPass, NoCall

--------------------------------------------------------------------------------
(* Every action keeps the shape, and a watch only while it is wanted. *)

Steady == ShapeOK /\ EventsOK /\ WatchOK /\ DownOK

LEMMA BoundsKept ==
    ASSUME plan \in Bounds
    PROVE  /\ plan.events > 0 => [plan EXCEPT !.events = @ - 1] \in Bounds
           /\ plan.cuts > 0 => [plan EXCEPT !.cuts = @ - 1] \in Bounds
           /\ plan.pauses > 0 => [plan EXCEPT !.pauses = @ - 1] \in Bounds
           /\ plan.faults > 0 => [plan EXCEPT !.faults = @ - 1] \in Bounds
           /\ plan.fails > 0 => [plan EXCEPT !.fails = @ - 1] \in Bounds
           /\ plan.crashes > 0 => [plan EXCEPT !.crashes = @ - 1] \in Bounds
           /\ plan.changes > 0 => [plan EXCEPT !.changes = @ - 1] \in Bounds
           /\ plan.offline > 0 => [plan EXCEPT !.offline = @ - 1] \in Bounds
<1>1. plan.events > 0 => [plan EXCEPT !.events = @ - 1] \in Bounds
  <2>1. plan.events > 0 => plan.events - 1 \in Nat
    BY DEF Bounds
  <2> QED BY <2>1 DEF Bounds
<1>2. plan.cuts > 0 => [plan EXCEPT !.cuts = @ - 1] \in Bounds
  <2>1. plan.cuts > 0 => plan.cuts - 1 \in Nat
    BY DEF Bounds
  <2> QED BY <2>1 DEF Bounds
<1>3. plan.pauses > 0 => [plan EXCEPT !.pauses = @ - 1] \in Bounds
  <2>1. plan.pauses > 0 => plan.pauses - 1 \in Nat
    BY DEF Bounds
  <2> QED BY <2>1 DEF Bounds
<1>4. plan.faults > 0 => [plan EXCEPT !.faults = @ - 1] \in Bounds
  <2>1. plan.faults > 0 => plan.faults - 1 \in Nat
    BY DEF Bounds
  <2> QED BY <2>1 DEF Bounds
<1>5. plan.fails > 0 => [plan EXCEPT !.fails = @ - 1] \in Bounds
  <2>1. plan.fails > 0 => plan.fails - 1 \in Nat
    BY DEF Bounds
  <2> QED BY <2>1 DEF Bounds
<1>6. plan.crashes > 0 => [plan EXCEPT !.crashes = @ - 1] \in Bounds
  <2>1. plan.crashes > 0 => plan.crashes - 1 \in Nat
    BY DEF Bounds
  <2> QED BY <2>1 DEF Bounds
<1>7. plan.changes > 0 => [plan EXCEPT !.changes = @ - 1] \in Bounds
  <2>1. plan.changes > 0 => plan.changes - 1 \in Nat
    BY DEF Bounds
  <2> QED BY <2>1 DEF Bounds
<1>8. plan.offline > 0 => [plan EXCEPT !.offline = @ - 1] \in Bounds
  <2>1. plan.offline > 0 => plan.offline - 1 \in Nat
    BY DEF Bounds
  <2> QED BY <2>1 DEF Bounds
<1> QED BY <1>1, <1>2, <1>3, <1>4, <1>5, <1>6, <1>7, <1>8

LEMMA PausedSteady ==
    ASSUME IInv, NEW r, NEW s \in StoredStates, NEW waiters, Pausing(r, s, waiters), up = "open",
           UNCHANGED <<now, published, disk, inbox, accepted, up, desired, unheard>>, online' \in BOOLEAN,
           plan' \in Bounds, incoming' \in Seq(Entries), unsaved' \subseteq published,
           \A i \in DOMAIN incoming' : incoming'[i].ev \in published
    PROVE  Steady'
<1>1. ShapeOK /\ StopWatches /\ st' \in StoredStates
  BY PausingStops DEF IInv
<1>2. ShapeOK' /\ EventsOK'
  BY <1>1, Stopped DEF IInv, ShapeOK, EventsOK
<1>3. WatchOK'
  BY <1>1, Stopped DEF WatchOK, NoCall
<1>4. DownOK'
  BY DEF DownOK
<1> QED BY <1>2, <1>3, <1>4 DEF Steady

LEMMA CalledSteady ==
    ASSUME IInv, NEW by \in {"app", "job", "refresh"}, NEW s \in StoredStates, Call(by, w, s),
           up = "open", ~Paused, desired' = TRUE,
           UNCHANGED <<now, online, published, disk, queue, up, pauses, unheard>>, plan' \in Bounds
    PROVE  Steady'
<1>1. /\ st' \in StoredStates
      /\ w' \in Watches /\ w'.held = w.held /\ w'.call.stage = "flush"
      /\ sub' \in Subs /\ sub'.owner # "call" /\ (sub'.owner = "held" => sub.owner = "held")
      /\ rec' \in Passes /\ rec'.todo = rec.todo
  BY Called DEF IInv, ShapeOK
<1>2. ShapeOK' /\ EventsOK'
  BY <1>1 DEF IInv, ShapeOK, EventsOK, queue
<1>3. Wanted'
  BY DEF Wanted, Paused
<1>4. WatchOK'
  BY <1>1, <1>3 DEF IInv, WatchOK
<1>5. DownOK'
  BY DEF DownOK
<1> QED BY <1>2, <1>4, <1>5 DEF Steady

LEMMA DownSteady ==
    ASSUME IInv, Down, plan' \in Bounds, disk' \in StoredStates,
           UNCHANGED <<now, online, published, inbox, accepted, unheard>>
    PROVE  Steady'
<1>1. /\ up' = "down" /\ desired' = FALSE /\ st' = Fresh /\ incoming' = <<>> /\ unsaved' = {}
      /\ pauses' = {} /\ auto' = {} /\ resumes' = {} /\ owned' = {}
      /\ w' = NoWatch /\ sub' = NoSub /\ rec' = NoPass
  BY DEF Down
<1>2. <<>> \in Seq(Entries) /\ DOMAIN <<>> = {}
  OBVIOUS
<1>3. ShapeOK'
  BY <1>1, <1>2, EmptyKept DEF IInv, ShapeOK
<1>4. EventsOK'
  BY <1>1, <1>2 DEF IInv, EventsOK, NoPass
<1>5. WatchOK' /\ DownOK'
  BY <1>1 DEF WatchOK, DownOK, NoWatch, NoCall, NoSub
<1> QED BY <1>3, <1>4, <1>5 DEF Steady

LEMMA WorldSteady ==
    ASSUME IInv, World
    PROVE  Steady'
<1> USE DEF IInv
<1>0. now \in Times /\ now \in Instants /\ plan \in Bounds /\ st \in StoredStates
  BY ConstantsAssumption DEF ShapeOK, Times, Instants
<1>1. CASE Tick
  <2>1. now' \in Times
    BY <1>1, ConstantsAssumption DEF Tick, ShapeOK, Bounds, Times
  <2> QED BY <1>1, <2>1 DEF Tick, Steady, ShapeOK, EventsOK, WatchOK, Wanted, Paused, DownOK, state, queue, pausing
<1>2. CASE Publish
  <2>1. plan' \in Bounds
    BY <1>2, BoundsKept DEF Publish, ShapeOK
  <2>2. Entry(now, "live") \in Entries /\ Entry(now, "live").ev = now
    BY <1>0 DEF Entry, Entries
  <2>3. /\ incoming' \in Seq(Entries) /\ \A i \in DOMAIN incoming' : incoming'[i].ev \in published'
        /\ sub.state # "live" => incoming' = incoming
    BY <1>2, <2>2 DEF Publish, ShapeOK, EventsOK
  <2>4. published' \subseteq Times /\ unheard' \subseteq published' /\ published \subseteq published'
    BY <1>0, <1>2 DEF Publish, EventsOK
  <2>5. DownOK'
    BY <1>2, <2>3, AwakeWhileBusy DEF Publish, DownOK, state, pausing
  <2>6. /\ UNCHANGED <<now, online, state, inbox, unsaved, accepted, up, desired, pausing, w, sub, rec>>
    BY <1>2 DEF Publish
  <2> QED BY <2>1, <2>3, <2>4, <2>5, <2>6 DEF Steady, ShapeOK, EventsOK, WatchOK, Wanted, Paused, state, pausing
<1>3. CASE Cut
  <2>1. plan' \in Bounds /\ sub' \in Subs /\ sub'.owner = sub.owner /\ up # "down"
    BY <1>0, <1>3, BoundsKept, AwakeWhileBusy DEF Cut, ShapeOK, Subs
  <2>2. UNCHANGED <<now, online, published, state, queue, up, desired, pausing, w, rec, unheard>>
    BY <1>3 DEF Cut
  <2> QED BY <2>1, <2>2 DEF Steady, ShapeOK, EventsOK, WatchOK, Wanted, Paused, DownOK, state, queue, pausing
<1>4. CASE GoOffline
  <2>1. plan' \in Bounds /\ online' \in BOOLEAN
    BY <1>4, BoundsKept DEF GoOffline, ShapeOK
  <2>2. UNCHANGED <<now, published, disk, queue, up, desired, owned, unheard>>
    BY <1>4 DEF GoOffline
  <2>3. CASE up = "open" /\ PauseInternally("network", st, {})
    BY <1>0, <2>1, <2>2, <2>3, PausedSteady DEF PauseInternally, ShapeOK, EventsOK, queue
  <2>4. CASE UNCHANGED <<pauses, auto, resumes, st, behind, w, sub, rec, timer>>
    BY <2>1, <2>2, <2>4 DEF Steady, ShapeOK, EventsOK, WatchOK, Wanted, Paused, DownOK, queue
  <2> QED BY <1>4, <2>3, <2>4 DEF GoOffline
<1>5. CASE StoreFails \/ Refused
  <2>1. First \in Entries /\ First.ev \in published /\ First.ev \in Instants
    <3>1. incoming # <<>> /\ incoming \in Seq(Entries)
      BY <1>5 DEF StoreFails, Refused, ShapeOK
    <3>2. 1 \in DOMAIN incoming /\ First = incoming[1]
      BY <3>1 DEF First
    <3>3. First \in Entries /\ First.ev \in published
      BY <3>1, <3>2 DEF EventsOK
    <3>4. First.ev \in Times /\ Times \subseteq Instants
      BY <3>3, ConstantsAssumption DEF Entries, Times, Instants
    <3> QED BY <3>3, <3>4
  <2>2. /\ incoming' = Tail(incoming) /\ incoming' \in Seq(Entries) /\ up # "down"
        /\ \A i \in DOMAIN incoming' : incoming'[i].ev \in published
    <3>1. incoming # <<>> /\ incoming \in Seq(Entries) /\ incoming' = Tail(incoming)
      BY <1>5 DEF StoreFails, Refused, ShapeOK
    <3>2. up # "down"
      BY <3>1, AwakeWhileBusy
    <3> QED BY <3>1, <3>2 DEF EventsOK
  <2>3. Interrupted(st, First.ev) \in StoredStates
    BY <1>0, <2>1, StatesKept
  <2>4. CASE StoreFails
    <3>1. plan' \in Bounds
      BY <2>4, BoundsKept DEF StoreFails, ShapeOK
    <3>2. UNCHANGED <<now, online, published, disk, inbox, accepted, up, desired, unheard>> /\ up = "open"
      BY <2>4 DEF StoreFails
    <3>3. unsaved' \in {unsaved, unsaved \union {First.ev}} /\ unsaved' \subseteq published
      BY <2>1, <2>4 DEF StoreFails, EventsOK
    <3>4. \E r \in {"capacity", "storage"} : Pausing(r, Interrupted(st, First.ev), {})
      BY <2>4 DEF StoreFails, PauseExplicitly, PauseInternally
    <3> QED BY <2>2, <2>3, <3>1, <3>2, <3>3, <3>4, PausedSteady DEF ShapeOK
  <2>5. CASE Refused
    <3>1. UNCHANGED <<plan, now, online, published, disk, inbox, unsaved, accepted, up, desired, owned, unheard>>
      BY <2>5 DEF Refused
    <3>2. CASE up = "open" /\ PauseExplicitly("capacity", st, {})
      BY <1>0, <2>2, <3>1, <3>2, PausedSteady DEF PauseExplicitly, ShapeOK, EventsOK
    <3>3. CASE UNCHANGED <<pauses, auto, resumes, st, behind, w, sub, rec, timer>>
      BY <2>2, <3>1, <3>3 DEF Steady, ShapeOK, EventsOK, WatchOK, Wanted, Paused, DownOK
    <3> QED BY <2>5, <3>2, <3>3 DEF Refused
  <2> QED BY <1>5, <2>4, <2>5
<1>6. CASE Crash
  <2>1. plan' \in Bounds
    BY <1>6, BoundsKept DEF Crash, ShapeOK
  <2> QED BY <1>6, <2>1, DownSteady DEF Crash, ShapeOK
<1>7. CASE Update
  <2>1. plan' \in Bounds
    BY <1>7, BoundsKept DEF Update, Change, ShapeOK
  <2>2. st' \in StoredStates
    BY <1>0, <1>7, StatesKept DEF Update, Updating
  <2>3. w' \in Watches /\ w'.held = w.held /\ w'.call = NoCall
    <3>1. Ended(w) \in Watches /\ Ended(w).held = w.held /\ Ended(w).call = NoCall /\ Never \in 0..Never
      BY WatchesKept, ConstantsAssumption DEF ShapeOK, Never
    <3>2. w' = [Ended(w) EXCEPT !.gap = Never, !.job = "setup", !.recover = FALSE]
      BY <1>7 DEF Update
    <3> QED BY <3>1, <3>2 DEF Watches
  <2>4. sub' \in Subs /\ sub'.owner # "call" /\ (sub'.owner = "held" => sub.owner = "held")
    BY <1>7, SubsKept DEF Update, ShapeOK
  <2>5. rec' \in Passes /\ rec'.todo = rec.todo
    BY <1>7, PassesKept DEF Update, ShapeOK
  <2>6. UNCHANGED <<now, online, published, disk, queue, up, desired, pausing, unheard>> /\ up = "open"
    BY <1>7 DEF Update
  <2> QED BY <2>1, <2>2, <2>3, <2>4, <2>5, <2>6
      DEF Steady, ShapeOK, EventsOK, WatchOK, Wanted, Paused, DownOK, queue, pausing, NoCall
<1>8. CASE Watch
  <2>1. plan' \in Bounds /\ up = "open"
    BY <1>8, BoundsKept DEF Watch, Change, ShapeOK
  <2>2. UNCHANGED <<now, online, published, disk, queue, up, pausing, unheard>> /\ desired' = TRUE
    BY <1>8 DEF Watch
  <2>3. CASE Paused
    <3>1. Interrupted(st, now) \in StoredStates
      BY <1>0, StatesKept
    <3>2. st' \in StoredStates /\ UNCHANGED <<w, sub, rec>>
      BY <1>8, <2>3, <3>1 DEF Watch
    <3> QED BY <2>1, <2>2, <2>3, <3>2
        DEF Steady, ShapeOK, EventsOK, WatchOK, Wanted, Paused, DownOK, queue, pausing
  <2>4. CASE ~Paused
    BY <1>0, <1>8, <2>1, <2>2, <2>4, CalledSteady DEF Watch, pausing
  <2> QED BY <2>3, <2>4
<1>9. CASE Refresh
  <2>1. plan' \in Bounds /\ up = "open" /\ Wanted
    BY <1>9, BoundsKept DEF Refresh, Change, ShapeOK, WatchOK
  <2>2. UNCHANGED <<now, online, published, disk, queue, up, desired, pausing, unheard>>
    BY <1>9 DEF Refresh
  <2>3. (IF st.seen = 0 THEN st ELSE WithRange(st, Before(st.seen), now)) \in StoredStates
    BY <1>0, StatesKept DEF StoredStates
  <2> QED BY <1>9, <2>1, <2>2, <2>3, CalledSteady DEF Refresh, Wanted, pausing, ShapeOK
<1>10. CASE Unwatch \/ Close
  <2>1. /\ plan' \in Bounds /\ up # "down" /\ up' \in {"open", "closing"}
        /\ UNCHANGED <<now, online, published, disk, inbox, incoming, accepted, unheard>>
    BY <1>10, BoundsKept DEF Unwatch, Close, Change, ShapeOK
  <2>2. CASE Unwatching
    <3>1. Interrupted(st, now) \in StoredStates
      BY <1>0, StatesKept
    <3>2. StopWatches /\ st' \in StoredStates /\ desired' = FALSE /\ unsaved' = {}
      BY <2>2, <3>1 DEF Unwatching
    <3>3. /\ w' \in Watches /\ ~w'.held /\ w'.call = NoCall
          /\ sub' \in Subs /\ sub'.owner \notin {"held", "call"}
          /\ rec' \in Passes /\ rec'.todo = rec.todo
      BY <3>2, Stopped
    <3>4. ShapeOK'
      BY <2>1, <3>2, <3>3 DEF ShapeOK
    <3>5. EventsOK'
      BY <2>1, <3>2, <3>3 DEF EventsOK
    <3>6. WatchOK' /\ DownOK'
      BY <2>1, <3>3 DEF WatchOK, DownOK, NoCall
    <3> QED BY <3>4, <3>5, <3>6 DEF Steady
  <2>3. CASE ~desired /\ unsaved' = {} /\ UNCHANGED <<desired, records, st, w, sub, rec, timer>>
    BY <2>1, <2>3 DEF Steady, ShapeOK, EventsOK, WatchOK, Wanted, DownOK
  <2> QED BY <1>10, <2>2, <2>3 DEF Unwatch, Close
<1>11. ASSUME NEW r \in Reasons, AppPauses(r) PROVE Steady'
  <2>1. plan' \in Bounds
    BY <1>11, BoundsKept DEF AppPauses, ShapeOK
  <2>2. /\ UNCHANGED <<now, online, published, disk, queue, up, desired, unheard>>
        /\ up = "open" /\ Pausing(r, st, {})
    BY <1>11 DEF AppPauses, PauseExplicitly
  <2> QED BY <1>0, <2>1, <2>2, PausedSteady DEF ShapeOK, EventsOK, queue
<1>12. CASE CallFails
  <2>1. plan' \in Bounds /\ up # "down"
    BY <1>12, BoundsKept, AwakeWhileBusy DEF CallFails, ShapeOK
  <2>2. w' \in Watches /\ w'.held = w.held /\ w'.call = NoCall
    BY <1>12, WatchesKept DEF CallFails, ShapeOK, Watches
  <2>3. UNCHANGED <<now, online, published, state, queue, up, desired, pausing, sub, rec, unheard>> /\ w.call.stage = "flush"
    BY <1>12 DEF CallFails
  <2> QED BY <2>1, <2>2, <2>3
      DEF Steady, ShapeOK, EventsOK, WatchOK, Wanted, Paused, DownOK, state, queue, pausing, NoCall
<1>13. CASE FetchFails
  <2>1. plan' \in Bounds /\ up # "down"
    BY <1>13, BoundsKept, AwakeWhileBusy DEF FetchFails, ShapeOK
  <2>2. rec' \in Passes /\ rec'.todo = {} /\ st' \in StoredStates
    <3>1. [rec EXCEPT !.failed = TRUE] \in Passes
      BY DEF ShapeOK, Passes
    <3> QED BY <1>13, <3>1, RunEndsKeeps DEF FetchFails
  <2>3. UNCHANGED <<now, online, published, disk, queue, up, desired, pausing, w, sub, unheard>>
    BY <1>13 DEF FetchFails
  <2> QED BY <2>1, <2>2, <2>3 DEF Steady, ShapeOK, EventsOK, WatchOK, Wanted, Paused, DownOK, queue, pausing
<1> QED BY <1>1, <1>2, <1>3, <1>4, <1>5, <1>6, <1>7, <1>8, <1>9, <1>10, <1>11, <1>12, <1>13 DEF World

LEMMA TakenSteady ==
    ASSUME IInv, Taken
    PROVE  Steady'
<1> USE DEF IInv
<1>1. /\ First \in Entries /\ First.ev \in published /\ First.ev \in Instants /\ now \in Times
      /\ incoming # <<>> /\ incoming \in Seq(Entries) /\ up # "down"
  <2>1. incoming # <<>> /\ incoming \in Seq(Entries)
    BY DEF Taken, TakeIn, Stored, ShapeOK
  <2>2. 1 \in DOMAIN incoming /\ First = incoming[1]
    BY <2>1 DEF First
  <2>3. First \in Entries /\ First.ev \in published
    BY <2>1, <2>2 DEF EventsOK
  <2>4. First.ev \in Times /\ Times \subseteq Instants
    BY <2>3, ConstantsAssumption DEF Entries, Times, Instants
  <2> QED BY <2>1, <2>3, <2>4, AwakeWhileBusy DEF ShapeOK
<1>2. CASE TakeIn
  <2>1. /\ st' \in StoredStates
        /\ incoming' = Tail(incoming) \/ incoming' = [incoming EXCEPT ![1].storing = TRUE]
    BY <1>1, <1>2, StatesKept DEF TakeIn, ShapeOK
  <2>2. /\ incoming' \in Seq(Entries)
        /\ \A i \in DOMAIN incoming' : incoming'[i].ev \in published
    <3>1. CASE incoming' = Tail(incoming)
      BY <1>1, <3>1 DEF EventsOK
    <3>2. CASE incoming' = [incoming EXCEPT ![1].storing = TRUE]
      <4>1. \A x \in Entries : [x EXCEPT !.storing = TRUE] \in Entries /\ [x EXCEPT !.storing = TRUE].ev = x.ev
        BY DEF Entries
      <4>2. 1 \in DOMAIN incoming /\ \A i \in DOMAIN incoming : incoming[i] \in Entries
        BY <1>1
      <4>3. incoming' = [incoming EXCEPT ![1] = [incoming[1] EXCEPT !.storing = TRUE]]
        BY <3>2
      <4>4. incoming' \in Seq(Entries) /\ DOMAIN incoming' = DOMAIN incoming
        BY <1>1, <4>1, <4>2, <4>3
      <4>5. \A i \in DOMAIN incoming : incoming'[i].ev = incoming[i].ev
        BY <1>1, <4>1, <4>2, <4>3
      <4> QED BY <4>4, <4>5 DEF EventsOK
    <3> QED BY <2>1, <3>1, <3>2
  <2>3. UNCHANGED <<plan, now, online, published, disk, inbox, unsaved, accepted, up, desired, pausing, w, sub, rec, unheard>>
    BY <1>2 DEF TakeIn
  <2> QED BY <1>1, <2>1, <2>2, <2>3 DEF Steady, ShapeOK, EventsOK, WatchOK, Wanted, Paused, DownOK, pausing
<1>3. CASE Stored
  <2>1. incoming' = Tail(incoming) /\ incoming' \in Seq(Entries) /\ \A i \in DOMAIN incoming' : incoming'[i].ev \in published
    BY <1>1, <1>3 DEF Stored, EventsOK
  <2>2. st' \in StoredStates
    BY <1>1, <1>3, StatesKept DEF Stored, ShapeOK
  <2>3. rec' \in Passes /\ rec'.todo \subseteq rec.todo
    <3>1. rec \in Passes /\ 0 \in Instants
      BY ConstantsAssumption DEF ShapeOK, Instants
    <3>2. rec' \in {rec, [rec EXCEPT !.waiting = 0, !.todo = @ \ {First.ev}]}
      BY <1>3 DEF Stored, Handled
    <3>3. CASE rec' = [rec EXCEPT !.waiting = 0, !.todo = @ \ {First.ev}]
      <4> DEFINE left == rec.todo \ {First.ev}
      <4>1. left \in SUBSET Times /\ left \subseteq rec.todo /\ rec' = [rec EXCEPT !.waiting = 0, !.todo = left]
        BY <3>1, <3>3 DEF Passes
      <4> HIDE DEF left
      <4> QED BY <3>1, <4>1 DEF Passes
    <3> QED BY <3>1, <3>2, <3>3
  <2>4. /\ UNCHANGED <<plan, now, online, published, disk, unsaved, up, desired, pausing, w, sub, unheard>>
        /\ inbox' = inbox \union {First.ev} /\ accepted' = accepted \union {First.ev}
    BY <1>3 DEF Stored
  <2> QED BY <1>1, <2>1, <2>2, <2>3, <2>4 DEF Steady, ShapeOK, EventsOK, WatchOK, Wanted, Paused, DownOK, pausing
<1> QED BY <1>2, <1>3 DEF Taken

LEMMA LiveSteady ==
    ASSUME IInv, Live
    PROVE  Steady'
<1> USE DEF IInv
<1>0. now \in Times /\ now \in Instants /\ st \in StoredStates /\ up # "down"
  <2>1. sub.state # "none" \/ sub.owner # "nobody" \/ w.closing
    BY DEF Live, GoesLive, TellInterrupted, Ready, ReadySaved, OrphanStops
  <2> QED BY <2>1, AwakeWhileBusy, ConstantsAssumption DEF ShapeOK, Times, Instants
<1>1. UNCHANGED <<plan, now, online, published, disk, queue, up, desired, pausing, unheard>>
  BY DEF Live, GoesLive, TellInterrupted, Ready, ReadySaved, OrphanStops, state
<1>2. SUFFICES /\ st' \in StoredStates /\ w' \in Watches /\ rec' \in Passes /\ sub' \in Subs
               /\ w'.held = w.held /\ w'.call = w.call /\ sub'.owner \in {sub.owner, "nobody"}
               /\ rec'.todo = rec.todo
  BY <1>0, <1>1, <1>2 DEF Steady, ShapeOK, EventsOK, WatchOK, Wanted, Paused, DownOK, queue, pausing
<1>3. CASE GoesLive
  BY <1>3 DEF GoesLive, state, ShapeOK, Subs
<1>4. CASE TellInterrupted
  <2>1. sub' \in Subs /\ sub'.owner = sub.owner
    BY <1>4 DEF TellInterrupted, ShapeOK, Subs
  <2>2. CASE ~Wanted
    BY <1>4, <2>1, <2>2 DEF TellInterrupted, ShapeOK
  <2>3. CASE Wanted
    <3> DEFINE start == Min({w.told, sub.since})
    <3>1. start \in Instants /\ start \in 0..Never
      <4>1. w.told \in 0..Never /\ sub.since \in 0..MaxTime /\ MaxTime \in Nat /\ Never = MaxTime + 1
        BY ConstantsAssumption DEF ShapeOK, Watches, Subs, Instants, Never
      <4>2. start = (IF w.told <= sub.since THEN w.told ELSE sub.since)
        BY <4>1, TwoNumbers, SMTT(40)
      <4> HIDE DEF start
      <4> QED BY <4>1, <4>2 DEF Instants
    <3>2. /\ w' = [w EXCEPT !.told = start, !.retrying = FALSE, !.gap = Never] /\ rec' = Aborted(rec)
          /\ st' = WithRange(Interrupted(st, start), Before(start), now)
      BY <1>4, <2>3 DEF TellInterrupted
    <3> HIDE DEF start
    <3>3. st' \in StoredStates
      BY <1>0, <3>1, <3>2, StatesKept
    <3>4. w' \in Watches /\ w'.held = w.held /\ w'.call = w.call
      <4>1. Never \in 0..Never
        BY ConstantsAssumption DEF Never
      <4> QED BY <3>1, <3>2, <4>1 DEF ShapeOK, Watches
    <3> QED BY <2>1, <3>2, <3>3, <3>4, PassesKept DEF ShapeOK
  <2> QED BY <2>2, <2>3
<1>5. CASE Ready
  <2>1. sub' \in Subs /\ sub'.owner = sub.owner /\ rec' = rec
    BY <1>5 DEF Ready, ShapeOK, Subs
  <2>2. CASE ~Wanted \/ w.told = Never
    BY <1>0, <1>5, <2>1, <2>2 DEF Ready, ShapeOK
  <2>3. CASE ~(~Wanted \/ w.told = Never)
    <3>1. w.told \in Instants
      BY <2>3, ConstantsAssumption DEF ShapeOK, Watches, Instants, Never
    <3>2. st' = WithOpenClosed(WithRange(st, Before(w.told), now)) /\ w' = [w EXCEPT !.closing = TRUE]
      BY <1>5, <2>3 DEF Ready
    <3>3. st' \in StoredStates
      BY <1>0, <3>1, <3>2, StatesKept
    <3>4. w' \in Watches /\ w'.held = w.held /\ w'.call = w.call
      BY <3>2 DEF ShapeOK, Watches
    <3> QED BY <2>1, <3>3, <3>4 DEF ShapeOK
  <2> QED BY <2>2, <2>3
<1>6. CASE ReadySaved
  <2>1. w' \in Watches /\ w'.held = w.held /\ w'.call = w.call
    <3>1. Never \in 0..Never
      BY ConstantsAssumption DEF Never
    <3>2. w' \in {[w EXCEPT !.closing = FALSE, !.told = Never], [w EXCEPT !.closing = FALSE]}
      <4>1. w \in Watches
        BY DEF ShapeOK
      <4> QED BY <1>6, <4>1 DEF ReadySaved, Watches
    <3> QED BY <3>1, <3>2 DEF ShapeOK, Watches
  <2> QED BY <1>6, <2>1 DEF ReadySaved, state, ShapeOK
<1>7. CASE OrphanStops
  BY <1>7, EmptyKept DEF OrphanStops, state, ShapeOK, NoSub
<1> QED BY <1>3, <1>4, <1>5, <1>6, <1>7 DEF Live

LEMMA WatchingSteady ==
    ASSUME IInv, Watching
    PROVE  Steady'
<1> USE DEF IInv
<1>0. now \in Times /\ now \in Instants /\ st \in StoredStates /\ w \in Watches /\ up # "down"
  <2>1. w.call.stage # "none" \/ w.job # "none" \/ w.refresh \/ w.retrying \/ w.gap # Never
    BY DEF Watching, JobStarts, Install, Returns, WatchRetries, JobHistory, RefreshHistory, GapFires
  <2> QED BY <2>1, AwakeWhileBusy, ConstantsAssumption DEF ShapeOK, Times, Instants
<1>1. UNCHANGED <<plan, now, online, published, disk, queue, up, desired, pausing, unheard>>
  BY DEF Watching, JobStarts, Install, Returns, WatchRetries, JobHistory, RefreshHistory, GapFires, state
<1>2. ASSUME st' \in StoredStates, w' \in Watches, rec' \in Passes, sub' \in Subs, rec'.todo \subseteq rec.todo,
             w'.held => Wanted, w'.call.stage # "none" => Wanted, w'.call.stage = "none" => w'.call = NoCall,
             sub'.owner = "held" => w'.held, sub'.owner = "call" => w'.call.stage = "open"
      PROVE  Steady'
  BY <1>0, <1>1, <1>2 DEF Steady, ShapeOK, EventsOK, WatchOK, Wanted, Paused, DownOK, queue, pausing
<1>3. ASSUME NEW by \in {"app", "job", "refresh"}, Wanted, Call(by, w, st) PROVE Steady'
  BY <1>0, <1>1, <1>3, CalledSteady DEF Wanted, ShapeOK, queue, pausing
<1>4. CASE JobStarts
  <2>1. CASE ~Wanted
    BY <1>0, <1>2, <1>4, <2>1 DEF JobStarts, ShapeOK, Watches, WatchOK
  <2> QED BY <1>3, <1>4, <2>1 DEF JobStarts
<1>5. CASE Install
  <2>1. w' = [w EXCEPT !.call.stage = "open"] /\ w.call \in Calls /\ w.call.stage = "flush"
    BY <1>0, <1>5 DEF Install, Watches
  <2>2. w' \in Watches /\ w'.held = w.held /\ w'.call.stage = "open"
    BY <1>0, <2>1 DEF Watches, Calls
  <2>3. sub' \in Subs /\ sub'.owner = "call"
    BY <1>0, <1>5, <2>1 DEF Install, Subs, NoSub, Calls
  <2>4. st' = st /\ rec' = rec
    BY <1>5 DEF Install, state
  <2> QED BY <1>0, <1>2, <2>1, <2>2, <2>3, <2>4 DEF ShapeOK, WatchOK
<1>6. CASE Returns
  <2>1. st' \in StoredStates /\ st'.seen \in 0..Never
    <3>1. st' \in {st, WithOpenClosed(st)}
      BY <1>6 DEF Returns
    <3>2. st' \in StoredStates
      BY <1>0, <3>1, StatesKept
    <3> QED BY <3>2, ConstantsAssumption DEF StoredStates, Instants, Never
  <2>2. Ended(w) \in Watches /\ Ended(w).call = NoCall
    BY <1>0, WatchesKept
  <2>3. \E gap \in 0..Never : w' = [Ended(w) EXCEPT !.held = TRUE, !.retrying = FALSE, !.gap = gap]
    <3>1. Ended(w).gap \in 0..Never
      BY <2>2 DEF Watches
    <3> QED BY <1>6, <2>1, <3>1 DEF Returns
  <2>4. w' \in Watches /\ w'.held /\ w'.call = NoCall
    BY <2>2, <2>3 DEF Watches
  <2>5. sub' \in Subs /\ sub'.owner # "call" /\ rec' = rec
    BY <1>6 DEF Returns, ShapeOK, Subs
  <2>6. Wanted
    BY <1>6 DEF Returns, WatchOK
  <2> QED BY <1>2, <2>1, <2>4, <2>5, <2>6 DEF NoCall, ShapeOK
<1>7. CASE WatchRetries
  <2>1. CASE ~Wanted
    BY <1>0, <1>2, <1>7, <2>1 DEF WatchRetries, ShapeOK, Watches, WatchOK
  <2> QED BY <1>3, <1>7, <2>1 DEF WatchRetries
<1>8. CASE JobHistory
  <2>1. w' \in Watches /\ w'.held = w.held /\ w'.call = w.call
    BY <1>0, <1>8 DEF JobHistory, Watches
  <2>2. rec' \in Passes /\ rec'.todo \subseteq rec.todo
    BY <1>0, <1>8, RecoveringKeeps DEF JobHistory, ShapeOK
  <2>3. st' = st /\ sub' = sub
    BY <1>8 DEF JobHistory, state
  <2> QED BY <1>0, <1>2, <2>1, <2>2, <2>3 DEF ShapeOK, WatchOK
<1>9. CASE RefreshHistory
  <2>1. w' \in Watches /\ w'.held = w.held /\ w'.call = w.call
    BY <1>0, <1>9 DEF RefreshHistory, Watches
  <2>2. rec' \in Passes /\ rec'.todo \subseteq rec.todo
    BY <1>0, <1>9, RecoveringKeeps DEF RefreshHistory, ShapeOK
  <2>3. st' = st /\ sub' = sub
    BY <1>9 DEF RefreshHistory, state
  <2> QED BY <1>0, <1>2, <2>1, <2>2, <2>3 DEF ShapeOK, WatchOK
<1>10. CASE GapFires
  <2>1. w' \in Watches /\ w'.held = w.held /\ w'.call = w.call
    BY <1>0, <1>10, ConstantsAssumption DEF GapFires, Watches, Never
  <2> DEFINE s == IF w.gap = 0 THEN st ELSE WithRange(st, Before(w.gap), now)
  <2>2. s \in StoredStates
    <3>1. w.gap \in Instants
      BY <1>0, <1>10, ConstantsAssumption DEF GapFires, Watches, Never, Instants
    <3> QED BY <1>0, <3>1, StatesKept
  <2>3. st' \in {st, s} /\ rec' \in {rec, Recovering(s, "gap")} /\ sub' = sub
    BY <1>10 DEF GapFires
  <2> HIDE DEF s
  <2>4. st' \in StoredStates /\ rec' \in Passes /\ rec'.todo \subseteq rec.todo
    BY <1>0, <2>2, <2>3, RecoveringKeeps DEF ShapeOK
  <2> QED BY <1>2, <2>1, <2>3, <2>4 DEF ShapeOK, WatchOK
<1> QED BY <1>4, <1>5, <1>6, <1>7, <1>8, <1>9, <1>10 DEF Watching

LEMMA PassSteady ==
    ASSUME IInv, Pass \/ TimerFires
    PROVE  Steady'
<1> USE DEF IInv
<1>0. now \in Times /\ st \in StoredStates /\ rec \in Passes /\ up # "down"
  <2>1. CASE Pass
    <3>1. rec.stage # "none"
      BY <2>1 DEF Pass, Pick, ReadNext, PassAborted, ReadDone, Finalize, PassEnds
    <3> QED BY <3>1, AwakeWhileBusy DEF ShapeOK
  <2>2. CASE TimerFires
    BY <2>2, AwakeWhileBusy DEF TimerFires, Wanted, ShapeOK
  <2> QED BY <2>1, <2>2
<1>1. UNCHANGED <<now, online, published, disk, inbox, unsaved, accepted, up, desired, pausing, sub, unheard>>
  BY DEF Pass, TimerFires, Pick, ReadNext, PassAborted, ReadDone, Finalize, PassEnds, state, queue
<1>2. ASSUME plan' \in Bounds, st' \in StoredStates, rec' \in Passes, rec'.todo \subseteq published,
             w' \in Watches, w'.held = w.held, w'.call = w.call,
             incoming' \in Seq(Entries), \A i \in DOMAIN incoming' : incoming'[i].ev \in published
      PROVE  Steady'
  BY <1>0, <1>1, <1>2 DEF Steady, ShapeOK, EventsOK, WatchOK, Wanted, Paused, DownOK, pausing
<1>3. CASE Pick
  <2> DEFINE run == IF rec.left = {} THEN {} ELSE RunOf(rec.left, Min(rec.left))
             r == [rec EXCEPT !.left = @ \ run, !.run = run]
             todo == IF [run |-> run, read |-> TRUE] \in records THEN {} ELSE published \intersect run
  <2>1. run \in SUBSET Instants
    BY <1>0 DEF RunOf, Passes
  <2>2. r \in Passes
    BY <1>0, <2>1 DEF Passes
  <2>3. todo \subseteq published /\ todo \in SUBSET Times
    BY DEF EventsOK
  <2>4. \/ RunEnds(r, TRUE)
        \/ /\ rec' = [r EXCEPT !.stage = "read", !.aborted = FALSE, !.changed = FALSE, !.todo = todo]
           /\ st' = st
    BY <1>3 DEF Pick
  <2>5. UNCHANGED <<plan, incoming, w>>
    BY <1>3 DEF Pick, queue
  <2> HIDE DEF run, r, todo
  <2>6. [r EXCEPT !.stage = "read", !.aborted = FALSE, !.changed = FALSE, !.todo = todo] \in Passes
    BY <2>2, <2>3 DEF Passes
  <2>7. [r EXCEPT !.stage = "read", !.aborted = FALSE, !.changed = FALSE, !.todo = todo].todo = todo
    BY <2>2 DEF Passes
  <2>8. rec' \in Passes /\ rec'.todo \subseteq published /\ st' \in StoredStates
    BY <1>0, <2>2, <2>3, <2>4, <2>6, <2>7, RunEndsKeeps
  <2> QED BY <1>2, <2>5, <2>8 DEF ShapeOK, EventsOK
<1>4. CASE ReadNext
  <2>1. Min(rec.todo) \in rec.todo
    <3>1. rec.todo \subseteq Nat /\ rec.todo # {}
      BY <1>0, <1>4, ConstantsAssumption DEF ReadNext, Passes, Times
    <3> QED BY <3>1, MinOfNaturals
  <2>2. Min(rec.todo) \in Times /\ Min(rec.todo) \in Instants /\ Min(rec.todo) \in published
    BY <1>0, <2>1, ConstantsAssumption DEF Passes, Times, Instants, EventsOK
  <2>3. Entry(Min(rec.todo), "history") \in Entries /\ Entry(Min(rec.todo), "history").ev = Min(rec.todo)
    BY <2>2 DEF Entry, Entries
  <2>4. incoming' \in Seq(Entries) /\ \A i \in DOMAIN incoming' : incoming'[i].ev \in published
    BY <1>4, <2>2, <2>3 DEF ReadNext, ShapeOK, EventsOK
  <2>5. rec' \in Passes /\ rec'.todo = rec.todo
    BY <1>0, <1>4, <2>2 DEF ReadNext, Passes
  <2>6. UNCHANGED <<plan, st, w>>
    BY <1>4 DEF ReadNext, state
  <2> QED BY <1>2, <2>4, <2>5, <2>6 DEF ShapeOK, EventsOK
<1>5. CASE PassAborted
  <2>1. rec' \in Passes /\ rec'.todo = {} /\ st' \in StoredStates
    BY <1>0, <1>5, RunEndsKeeps DEF PassAborted
  <2>2. incoming' \in Seq(Entries) /\ \A i \in DOMAIN incoming' : incoming'[i].ev \in published
    <3>1. incoming \in Seq(Entries)
      BY DEF ShapeOK
    <3>2. incoming' = [i \in DOMAIN incoming |-> IF incoming[i].src = "history" THEN [incoming[i] EXCEPT !.src = "stray"] ELSE incoming[i]]
      BY <1>5 DEF PassAborted
    <3>3. \A x \in Entries : [x EXCEPT !.src = "stray"] \in Entries /\ [x EXCEPT !.src = "stray"].ev = x.ev
      BY DEF Entries
    <3>4. \A i \in DOMAIN incoming : incoming[i] \in Entries
      BY <3>1
    <3>5. DOMAIN incoming' = DOMAIN incoming /\ \A i \in DOMAIN incoming : incoming'[i] \in Entries /\ incoming'[i].ev = incoming[i].ev
      BY <3>2, <3>3, <3>4
    <3>6. DOMAIN incoming = 1..Len(incoming) /\ Len(incoming) \in Nat
      BY <3>1
    <3>7. incoming' = [i \in 1..Len(incoming) |-> incoming'[i]] /\ \A i \in 1..Len(incoming) : incoming'[i] \in Entries
      BY <3>2, <3>5, <3>6
    <3>8. incoming' \in Seq(Entries)
      BY <3>6, <3>7
    <3> QED BY <3>5, <3>8 DEF EventsOK
  <2>3. UNCHANGED <<plan, w>>
    BY <1>5 DEF PassAborted
  <2> QED BY <1>2, <2>1, <2>2, <2>3 DEF ShapeOK
<1>6. CASE ReadDone
  <2>1. RunEnds(rec, TRUE) \/ (rec' = [rec EXCEPT !.stage = "finalize"] /\ st' = st)
    BY <1>6 DEF ReadDone
  <2>2. [rec EXCEPT !.stage = "finalize"] \in Passes /\ [rec EXCEPT !.stage = "finalize"].todo = rec.todo
    BY <1>0 DEF Passes
  <2>3. rec' \in Passes /\ rec'.todo \subseteq published /\ st' \in StoredStates
    BY <1>0, <2>1, <2>2, RunEndsKeeps DEF EventsOK
  <2>4. UNCHANGED <<plan, incoming, w>>
    BY <1>6 DEF ReadDone, queue
  <2> QED BY <1>2, <2>3, <2>4 DEF ShapeOK, EventsOK
<1>7. CASE Finalize
  <2>1. [rec EXCEPT !.failed = TRUE] \in Passes
    BY <1>0 DEF Passes
  <2>2. \E r \in Passes, kept \in BOOLEAN : RunEnds(r, kept)
    BY <1>0, <1>7, <2>1 DEF Finalize
  <2>3. rec' \in Passes /\ rec'.todo = {} /\ st' \in StoredStates
    BY <2>2, RunEndsKeeps
  <2>4. plan' \in Bounds /\ UNCHANGED <<incoming, w>>
    BY <1>7, BoundsKept DEF Finalize, ShapeOK, queue
  <2> QED BY <1>2, <2>3, <2>4 DEF ShapeOK, EventsOK
<1>8. CASE PassEnds
  <2>1. w' \in Watches /\ w'.held = w.held /\ w'.call = w.call
    <3>1. w' \in {w, [w EXCEPT !.job = "none"]} /\ w \in Watches
      BY <1>8 DEF PassEnds, ShapeOK
    <3> QED BY <3>1 DEF Watches
  <2>2. rec' = NoPass /\ UNCHANGED <<plan, st, incoming>>
    BY <1>8 DEF PassEnds, state, queue
  <2>3. NoPass.todo = {}
    BY DEF NoPass
  <2> QED BY <1>2, <2>1, <2>2, <2>3, EmptyKept DEF ShapeOK, EventsOK
<1>9. CASE TimerFires
  <2>1. rec' = Recovering(st, "timer") /\ UNCHANGED <<plan, st, incoming, w>>
    BY <1>9 DEF TimerFires, state, queue
  <2> QED BY <1>0, <1>2, <2>1, RecoveringKeeps DEF ShapeOK, EventsOK
<1> QED BY <1>3, <1>4, <1>5, <1>6, <1>7, <1>8, <1>9 DEF Pass

LEMMA ResumeSteady ==
    ASSUME IInv, Resume
    PROVE  Steady'
<1> USE DEF IInv
<1>0. now \in Times /\ st \in StoredStates
  BY DEF ShapeOK
<1>1. ASSUME NEW r, NEW by, Repairing(r, by), up = "open" PROVE Steady'
  <2>1. /\ UNCHANGED <<plan, now, online, published, disk, incoming, up, desired, pauses, auto, w, sub, rec, unheard>>
        /\ SaveUnsaved \/ UNCHANGED <<inbox, accepted, unsaved, st>>
    BY <1>1 DEF Repairing
  <2>2. CASE UNCHANGED <<inbox, accepted, unsaved, st>>
    BY <1>1, <2>1, <2>2 DEF Steady, ShapeOK, EventsOK, WatchOK, Wanted, Paused, DownOK
  <2>3. CASE SaveUnsaved
    <3> DEFINE T == {st.seen} \union unsaved
    <3>1. T \subseteq Nat /\ T # {} /\ MaxTime \in Nat /\ (\A x \in T : x <= MaxTime) /\ T \subseteq Instants
      <4>1. unsaved \subseteq Times /\ st.seen \in Instants
        BY <1>0 DEF StoredStates, EventsOK
      <4>2. Times \subseteq Instants /\ Instants \subseteq Nat /\ MaxTime \in Nat /\ \A x \in Instants : x <= MaxTime
        BY ConstantsAssumption DEF Times, Instants
      <4> QED BY <4>1, <4>2
    <3>2. Max(T) \in Instants
      BY <3>1, MaxOfNaturals
    <3>3. st' = [st EXCEPT !.seen = Max(T)]
      BY <2>3 DEF SaveUnsaved
    <3> HIDE DEF T
    <3>4. st' \in StoredStates
      BY <1>0, <3>2, <3>3 DEF StoredStates
    <3>5. inbox' = inbox \union unsaved /\ accepted' = accepted \union unsaved /\ unsaved' = {}
      BY <2>3 DEF SaveUnsaved
    <3> QED BY <1>1, <2>1, <3>4, <3>5 DEF Steady, ShapeOK, EventsOK, WatchOK, Wanted, Paused, DownOK
  <2> QED BY <2>1, <2>2, <2>3
<1>2. ASSUME NEW c \in resumes, ResumeRepaired(c) PROVE Steady'
  <2>1. /\ UNCHANGED <<plan, now, online, published, disk, queue, up, desired, owned, w, sub, rec, unheard>>
        /\ up = "open" /\ pauses' \subseteq pauses
    BY <1>2 DEF ResumeRepaired
  <2>2. st' \in StoredStates
    <3>1. st' \in {st, WithOpenClosed(st)}
      BY <1>2 DEF ResumeRepaired
    <3>2. 0 \in Instants
      BY ConstantsAssumption DEF Instants
    <3> QED BY <1>0, <3>1, <3>2, StatesKept
  <2> QED BY <2>1, <2>2 DEF Steady, ShapeOK, EventsOK, WatchOK, Wanted, Paused, DownOK, queue
<1>3. ASSUME NEW c \in resumes, ResumeClosed(c) PROVE Steady'
  <2>1. /\ UNCHANGED <<plan, now, online, published, state, queue, up, desired, pauses, auto, owned, sub, rec, unheard>>
        /\ up = "open" /\ w' \in {w, [w EXCEPT !.job = "setup", !.recover = TRUE]}
    BY <1>3 DEF ResumeClosed
  <2>2. w' \in Watches /\ w'.held = w.held /\ w'.call = w.call
    BY <2>1 DEF ShapeOK, Watches
  <2> QED BY <2>1, <2>2 DEF Steady, ShapeOK, EventsOK, WatchOK, Wanted, Paused, DownOK, state, queue
<1>4. \/ \E r, by : Repairing(r, by) /\ up = "open"
      \/ \E c \in resumes : ResumeRepaired(c) \/ ResumeClosed(c)
  BY DEF Resume, AppResumes, TaskResumes, MonitorResumes
<1> QED BY <1>1, <1>2, <1>3, <1>4

LEMMA StartSteady ==
    ASSUME IInv, Start
    PROVE  Steady'
<1>1. /\ st' \in StoredStates
  <2>1. disk \in StoredStates /\ now \in Times /\ now \in Instants
    BY ConstantsAssumption DEF IInv, ShapeOK, Times, Instants
  <2>2. WithWindow(disk) \in StoredStates
    BY <2>1, StatesKept
  <2>3. Interrupted(WithWindow(disk), now) \in StoredStates
    BY <2>1, <2>2, StatesKept
  <2> QED BY <2>2, <2>3 DEF Start, Updating
<1>2. w' \in Watches /\ ~w'.held /\ w'.call = NoCall
  BY EmptyKept DEF Start, NoWatch, Watches
<1>3. up' = "open" /\ desired' = TRUE /\ sub = NoSub
  BY DEF Start, IInv, DownOK
<1>4. UNCHANGED <<plan, now, online, published, disk, queue, sub, rec, unheard>>
  BY DEF Start
<1> QED BY <1>1, <1>2, <1>3, <1>4
    DEF IInv, Steady, ShapeOK, EventsOK, WatchOK, DownOK, NoCall, NoSub, queue

LEMMA SteadyNext ==
    ASSUME IInv, [Next]_vars
    PROVE  Steady'
<1> USE DEF IInv
<1>1. CASE Persist
  BY <1>1 DEF Persist, Steady, ShapeOK, EventsOK, WatchOK, Wanted, Paused, DownOK, queue, pausing
<1>2. CASE Consume
  BY <1>2 DEF Consume, Steady, ShapeOK, EventsOK, WatchOK, Wanted, Paused, DownOK, state, pausing
<1>3. CASE Closed
  BY <1>3, DownSteady DEF Closed, ShapeOK
<1>4. CASE GoOnline
  BY <1>4 DEF GoOnline, Steady, ShapeOK, EventsOK, WatchOK, Wanted, Paused, DownOK, state, queue, pausing
<1>5. CASE UNCHANGED vars
  BY <1>5 DEF vars, Steady, ShapeOK, EventsOK, WatchOK, Wanted, Paused, DownOK, state, queue, pausing
<1> QED BY <1>1, <1>2, <1>3, <1>4, <1>5, WorldSteady, TakenSteady, LiveSteady, WatchingSteady, PassSteady,
           ResumeSteady, StartSteady DEF Next

LEMMA InitIInv == Init => IInv
<1> SUFFICES ASSUME Init PROVE IInv
  OBVIOUS
<1>1. plan \in Bounds /\ 1 \in Times
  BY ConstantsAssumption DEF Init, Times
<1>2. ShapeOK
  <2>1. <<>> \in Seq(Entries)
    OBVIOUS
  <2> QED BY <1>1, <2>1, EmptyKept DEF Init, ShapeOK
<1>3. EventsOK /\ PausesOK /\ WatchOK /\ DownOK
  BY DEF Init, EventsOK, PausesOK, WatchOK, DownOK, NoWatch, NoCall, NoSub, NoPass
<1> QED BY <1>2, <1>3 DEF IInv

LEMMA Inductive == Spec => []IInv
<1>1. IInv /\ [Next]_vars => IInv'
  BY PausesNext, SteadyNext DEF IInv, Steady
<1> QED BY InitIInv, <1>1, PTL DEF Spec

--------------------------------------------------------------------------------

(* A subscription is kept, and a watch is made, only while the channel is wanted,  *)
(* for any plan, clock and skew: whatever pauses, unwatches or closes while watch() *)
(* is suspended leaves what it opened to be closed by it.                           *)
THEOREM WatchedOnlyWhileWanted == Spec => []LiveOnlyWhenWanted
<1>1. IInv => LiveOnlyWhenWanted
  <2> SUFFICES ASSUME IInv PROVE LiveOnlyWhenWanted
    OBVIOUS
  <2>1. TypeOK
    BY DEF IInv, ShapeOK, EventsOK, PausesOK, TypeOK, StoredStates, Passes, Instants
  <2>2. sub.owner = "call" => w.call.stage = "open" /\ Wanted
    BY DEF IInv, WatchOK
  <2> QED BY <2>1, <2>2 DEF IInv, WatchOK, LiveOnlyWhenWanted
<1> QED BY Inductive, <1>1, PTL

(* A reason that the application gave stays until the application itself resumes    *)
(* it, or the messenger goes down: a resumption under way when the pause was made,  *)
(* a repaired store and the capacity monitor leave it alone.                        *)
THEOREM ExplicitPausesStay == Spec => ExplicitPauseHolds
<1> DEFINE Holds == \A r \in owned : r \notin pauses' => r \notin owned' \/ up' # "open"
<1>1. IInv /\ IInv' => Holds
  BY DEF IInv, PausesOK
<1>2. IInv /\ IInv' /\ [Next]_vars => [Holds]_vars
  BY <1>1
<1> QED BY Inductive, <1>2, PTL DEF Spec, ExplicitPauseHolds
================================================================================
