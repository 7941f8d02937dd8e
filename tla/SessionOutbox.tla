----------------------------- MODULE SessionOutbox -----------------------------
(***************************************************************************)
(* The durable outbox of a private message session:                        *)
(* private-messenger/session/index.js with helpers/publication-journal.js   *)
(* and helpers/work-storage.js.  An accepted intent is one encrypted row.   *)
(* Four loops work on it: pumpLocal saves it in the application's message   *)
(* store, pumpRemote publishes its events, the journal's worker archives    *)
(* the recovery seeds of what was published, and the journal writes         *)
(* snapshots of the entry back to its row, one at a time.                   *)
(*                                                                         *)
(* The memory of the session is one record, mem: a crash takes all of it.   *)
(* Code that runs without awaiting is an operator from memory to memory;    *)
(* an action runs from one await to the next.  Entries carry no files, and  *)
(* every peer is prepared and stays a peer.                                 *)
(***************************************************************************)
EXTENDS Naturals, FiniteSets, FiniteSetsExt

CONSTANTS
    Entries,    \* the messages offered, by id: numbers, so that ids are ordered
    Self,       \* the entries addressed to the owner: nothing to publish
    Length,     \* how many events each entry publishes: its context, then it
    Plans,      \* what a behaviour offers, whether its mode keeps recovery
                \* seeds, what may go wrong in it, and how often
    NoPacket, NoRow, NoSession

FaultKinds == {"crash", "close", "lock", "pause", "cancel", "retry", "put", "write",
               "archive", "send", "local", "denied", "blocked"}

ASSUME EntriesAssumption == Entries \subseteq Nat /\ IsFiniteSet(Entries) /\ Self \subseteq Entries
ASSUME LengthAssumption == Length \in [Entries -> Nat \ {0}]
ASSUME PlansAssumption ==
    Plans \subseteq [offered : SUBSET Entries, recover : BOOLEAN,
               faults : SUBSET FaultKinds, left : Nat]

VARIABLES
    mem,       \* the session's memory, or NoSession
    row,       \* the outbox database: entry id -> its last snapshot
    offers,    \* what the caller of enqueue knows of its call
    stored,    \* entries in the application's message store
    archived,  \* <<entry, event>> whose seeds the recovery archive holds
    sent,      \* <<entry, event, envelope>> put on the wire, ever
    acked,     \* <<entry, event>> a relay accepted
    told,      \* <<entry, cause>> reported through onSendError
    dropped,   \* entries whose cancel() resolved
    plan       \* the plan of this behaviour; left: the faults it may still see

vars == <<mem, row, offers, stored, archived, sent, acked, told, dropped, plan>>
world == <<stored, archived, sent, acked, told, dropped>>

Statuses == {"pending", "saved", "error"}
Packet == [index: Nat, envelope: Nat, accepted: BOOLEAN, archived: BOOLEAN]
Entry == [index : Nat, local : BOOLEAN, status : Statuses, delivered : BOOLEAN,
          failed : BOOLEAN, retryable : BOOLEAN, localFailed : BOOLEAN,
          localRetryable : BOOLEAN, cancelled : BOOLEAN, packet : Packet \cup {NoPacket}]
ASSUME AbsenceAssumption == NoPacket \notin Packet /\ NoRow \notin Entry

(* What enqueue creates, and what a row holds of it. *)
FreshEntry ==
    [index |-> 0, local |-> FALSE, status |-> "pending", delivered |-> FALSE,
     failed |-> FALSE, retryable |-> FALSE, localFailed |-> FALSE,
     localRetryable |-> FALSE, cancelled |-> FALSE, packet |-> NoPacket]

Fault(kind) ==
    /\ kind \in plan.faults /\ plan.left > 0
    /\ plan' = [plan EXCEPT !.left = @ - 1]

--------------------------------------------------------------------------------
(* Memory.  `entry` is the one a loop works on, `visited` what its pass has    *)
(* been to, `again` its repump or relocal flag.                               *)

IdleRemote == [pc |-> "idle", entry |-> 0, visited |-> {}, again |-> FALSE,
               aborted |-> FALSE, paused |-> FALSE, cause |-> "none", patient |-> FALSE]
IdleLocal == [pc |-> "idle", entry |-> 0, visited |-> {}, again |-> FALSE]
IdleWorker == [pc |-> "idle", entry |-> 0, visited |-> {}]

NewMemory ==
    [available |-> FALSE, closed |-> FALSE, stopped |-> FALSE, messenger |-> FALSE,
     configuring |-> FALSE, pauses |-> {}, journaling |-> FALSE,
     obj |-> [e \in Entries |-> IF row[e] = NoRow THEN FreshEntry
              ELSE [row[e] EXCEPT !.status = IF row[e].delivered THEN "saved" ELSE @]],
     listed |-> {e \in Entries : row[e] # NoRow},
     unadmitted |-> {}, discarded |-> {},
     cancelled |-> {e \in Entries : row[e] # NoRow /\ row[e].cancelled},
     durable |-> {e \in Entries : row[e] # NoRow /\ row[e].packet # NoPacket},
     queued |-> [e \in Entries |-> {}],
     flying |-> [e \in Entries |-> [who |-> {}, entry |-> FreshEntry]],
     resolved |-> {}, removing |-> {}, cleaning |-> {},
     remote |-> IdleRemote, local |-> IdleLocal, worker |-> IdleWorker,
     sendTimer |-> FALSE, journalTimer |-> FALSE,
     unarchived |-> {}, parked |-> {}, retries |-> {}]

Running(m) == m.available /\ ~m.closed
Admitted(m) == m.listed \ m.unadmitted

PumpRemote(m) ==
    IF ~Running(m) \/ ~m.messenger THEN m
    ELSE IF m.remote.pc = "idle"
         THEN [m EXCEPT !.remote.pc = "pass"]
         ELSE [m EXCEPT !.remote.again = TRUE]

PumpLocal(m) ==
    IF ~Running(m) THEN m
    ELSE IF m.local.pc = "idle"
         THEN [m EXCEPT !.local.pc = "pass"]
         ELSE [m EXCEPT !.local.again = TRUE]

Pump(m) == PumpRemote(PumpLocal(m))

(* The journal's wake(): one worker at a time. *)
Wake(m) ==
    IF m.stopped \/ ~m.journaling \/ m.worker.pc # "idle" THEN m
    ELSE [m EXCEPT !.worker.pc = "pass"]

(* journal.write: whoever asks before the next snapshot is taken shares it. *)
WriteEntry(m, e, who) == [m EXCEPT !.queued[e] = @ \cup {who}]

ScheduleSendRetry(m) == IF Running(m) THEN [m EXCEPT !.sendTimer = TRUE] ELSE m
RetryLater(m) ==
    IF m.stopped \/ ~m.journaling \/ m.unarchived = {} THEN m
    ELSE [m EXCEPT !.journalTimer = TRUE]

LocalRetryable(m, e) == m.obj[e].localFailed /\ m.obj[e].localRetryable
SendRetryable(o) == o.failed /\ (o.retryable \/ o.status = "pending")
PendingRetryable(m) ==
    {e \in Admitted(m) \ m.cancelled : LocalRetryable(m, e) \/ SendRetryable(m.obj[e])}

ResetWhenNothingPends(m) ==
    IF PendingRetryable(m) = {} /\ m.cleaning = {} THEN [m EXCEPT !.sendTimer = FALSE] ELSE m

(* Mutant of Completed: delivery is enough. *)
CompletedRemotely(m, e) ==
    /\ e \notin m.unadmitted
    /\ e \in Self \/ m.obj[e].delivered

Completed(m, e) ==
    /\ e \notin m.unadmitted
    /\ m.obj[e].local
    /\ e \in Self \/ m.obj[e].delivered

CleansUp(m, e) ==
    /\ e \notin m.unadmitted
    /\ m.obj[e].packet = NoPacket
    /\ m.obj[e].cancelled \/ Completed(m, e)
    /\ ~(m.obj[e].failed /\ m.obj[e].status = "saved")

(* cleanupEntry, called for each of es. *)
CleanupEntries(m, es) ==
    LET waiting == {e \in es \ m.unadmitted : m.obj[e].packet # NoPacket}
        cleaned == [m EXCEPT !.cleaning = @ \cup {e \in es : CleansUp(m, e)}]
    IN  IF waiting = {} THEN cleaned ELSE Wake(cleaned)

(* sendControllers.get(id)?.abort() *)
Abort(m, es) ==
    IF m.remote.pc \notin {"idle", "pass"} /\ m.remote.entry \in es
    THEN [m EXCEPT !.remote.aborted = TRUE] ELSE m

(* A finished wait of one of the loops on a write of its entry. *)
Resolved(who, e, ok) == <<who, e, ok>> \in mem.resolved
Taken(who, e) == [mem EXCEPT !.resolved = @ \ {<<who, e, TRUE>>, <<who, e, FALSE>>}]

--------------------------------------------------------------------------------
(* Writes of the outbox database.  putBy with existingOnly never recreates a   *)
(* row; each snapshot is taken when its write starts.                          *)

StartWrite(e) ==
    /\ mem.queued[e] # {}
    /\ mem.flying[e].who = {}
    /\ mem' = [mem EXCEPT !.flying[e] = [who |-> mem.queued[e], entry |-> mem.obj[e]],
                          !.queued[e] = {}]
    /\ UNCHANGED <<row, offers, world, plan>>

Landed(e, ok) ==
    [mem EXCEPT !.flying[e] = [who |-> {}, entry |-> FreshEntry],
                !.resolved = @ \cup {<<who, e, ok>> : who \in mem.flying[e].who}]

PutExisting(e, entry) == IF row[e] = NoRow THEN row ELSE [row EXCEPT ![e] = entry]

WriteCommits(e) ==
    /\ mem.flying[e].who # {}
    /\ row' = PutExisting(e, mem.flying[e].entry)
    /\ mem' = Landed(e, TRUE)
    /\ UNCHANGED <<offers, world, plan>>

WriteFails(e) ==
    /\ mem.flying[e].who # {}
    /\ Fault("write")
    /\ mem' = Landed(e, FALSE)
    /\ UNCHANGED <<row, offers, world>>

(* cleanupEntry's removal, once the entry's writes have drained. *)
CleanupCommits(e) ==
    /\ e \in mem.cleaning
    /\ mem.queued[e] = {} /\ mem.flying[e].who = {}
    /\ row' = [row EXCEPT ![e] = NoRow]
    /\ mem' = ResetWhenNothingPends(
                [mem EXCEPT !.cleaning = @ \ {e}, !.listed = @ \ {e}, !.retries = @ \ {e}])
    /\ UNCHANGED <<offers, world, plan>>

CleanupFails(e) ==
    /\ e \in mem.cleaning
    /\ mem.queued[e] = {} /\ mem.flying[e].who = {}
    /\ Fault("write")
    /\ LET kept == [mem EXCEPT !.obj[e].failed = TRUE, !.obj[e].retryable = TRUE]
       IN  mem' = ResetWhenNothingPends(
                    [ScheduleSendRetry(kept) EXCEPT !.cleaning = @ \ {e}])
    /\ UNCHANGED <<row, offers, world>>

--------------------------------------------------------------------------------
(* enqueue. *)

(* A self entry starts its local save beside the checkpoint that admits it. *)
Enqueue(e) ==
    /\ offers[e] = "new" /\ e \in plan.offered
    /\ Running(mem)
    /\ offers' = [offers EXCEPT ![e] = "putting"]
    /\ mem' = IF e \in Self
              THEN PumpLocal([mem EXCEPT !.listed = @ \cup {e}, !.unadmitted = @ \cup {e}])
              ELSE mem
    /\ UNCHANGED <<row, world, plan>>

Discard(m, e) ==
    IF e \in Self
    THEN [m EXCEPT !.discarded = @ \cup {e}, !.unadmitted = @ \ {e}, !.listed = @ \ {e}]
    ELSE m

(* The checkpoint is written: the entry is listed and both loops run.          *)
Admit(m, e) ==
    LET failedEarly == e \in Self /\ m.obj[e].localFailed
        entry == IF failedEarly
                 THEN [m.obj[e] EXCEPT !.status = "error", !.retryable = m.obj[e].localRetryable]
                 ELSE m.obj[e]
    IN  Pump([m EXCEPT !.listed = @ \cup {e}, !.unadmitted = @ \ {e}, !.obj[e] = entry])

(* The first row is written: the intent survives whatever follows, unless it   *)
(* was cancelled meanwhile.  A session already closed admits nothing more.    *)
PutCommits(e) ==
    /\ offers[e] = "putting"
    /\ row' = [row EXCEPT ![e] = FreshEntry]
    /\ \/ /\ e \in mem.cancelled
          /\ mem' = [Discard(mem, e) EXCEPT !.removing = @ \cup {e}]
          /\ offers' = [offers EXCEPT ![e] = "refused"]
          /\ UNCHANGED told
       \/ /\ e \notin mem.cancelled
          /\ mem.closed
          /\ mem' = Discard(mem, e)
          /\ offers' = [offers EXCEPT ![e] = "accepted"]
          /\ UNCHANGED told
       \/ /\ e \notin mem.cancelled
          /\ ~mem.closed
          /\ mem' = Admit(mem, e)
          /\ offers' = [offers EXCEPT ![e] = "accepted"]
          /\ told' = IF e \in Self /\ mem.obj[e].localFailed THEN told \cup {<<e, "local">>} ELSE told
    /\ UNCHANGED <<stored, archived, sent, acked, dropped, plan>>

PutFails(e) ==
    /\ offers[e] = "putting"
    /\ Fault("put")
    /\ mem' = Discard(mem, e)
    /\ offers' = [offers EXCEPT ![e] = "refused"]
    /\ UNCHANGED <<row, world>>

(* storage.remove of a cancelled intent. *)
RemovalCommits(e) ==
    /\ e \in mem.removing
    /\ row' = [row EXCEPT ![e] = NoRow]
    /\ dropped' = dropped \cup {e}
    /\ mem' = [mem EXCEPT !.removing = @ \ {e}]
    /\ UNCHANGED <<offers, stored, archived, sent, acked, told, plan>>

--------------------------------------------------------------------------------
(* cancel and retry, on entries onOutbox has shown. *)

(* Mutant of Cancel: a prepared publication goes with the row. *)
CancelAtOnce(e) ==
    /\ e \in Admitted(mem) \ mem.cancelled
    /\ Fault("cancel")
    /\ mem' = [Abort(mem, {e}) EXCEPT !.cancelled = @ \cup {e}, !.retries = @ \ {e},
                                      !.parked = @ \ {e}, !.listed = @ \ {e},
                                      !.removing = @ \cup {e}]
    /\ UNCHANGED <<row, offers, world>>

(* A publication that may be on the wire keeps its row until it is archived.   *)
Cancel(e) ==
    LET stopped == [Abort(mem, {e}) EXCEPT !.cancelled = @ \cup {e}, !.retries = @ \ {e},
                                           !.parked = @ \ {e}]
    IN  /\ e \in Admitted(mem) \ mem.cancelled
        /\ Fault("cancel")
        /\ mem' = IF mem.obj[e].packet = NoPacket
                  THEN [stopped EXCEPT !.listed = @ \ {e}, !.removing = @ \cup {e}]
                  ELSE WriteEntry([stopped EXCEPT !.obj[e].cancelled = TRUE], e, "cancel")
        /\ UNCHANGED <<row, offers, world>>

CancelWritten(e) ==
    /\ \/ Resolved("cancel", e, TRUE) /\ mem' = Wake(Taken("cancel", e)) /\ dropped' = dropped \cup {e}
       \/ Resolved("cancel", e, FALSE) /\ mem' = Taken("cancel", e) /\ UNCHANGED dropped
    /\ UNCHANGED <<row, offers, stored, archived, sent, acked, told, plan>>

JournalRetry(m) == Wake([m EXCEPT !.unarchived = {}, !.journalTimer = FALSE])

(* retry(id): delivered entries only repeat their local work. *)
Retry(e) ==
    LET again == JournalRetry(mem)
        retried == [again EXCEPT
            !.retries = IF mem.obj[e].localFailed THEN @ \cup {e} ELSE @,
            !.obj[e].failed = FALSE, !.sendTimer = FALSE, !.parked = @ \ {e}]
        refused == mem.obj[e].delivered /\ mem.obj[e].localFailed /\ ~mem.obj[e].localRetryable
    IN  /\ e \in Admitted(mem)
        /\ Fault("retry")
        /\ mem' = IF refused THEN again
                  ELSE IF mem.obj[e].delivered THEN PumpLocal([retried EXCEPT !.parked = mem.parked])
                  ELSE Pump(retried)
        /\ UNCHANGED <<row, offers, world>>

--------------------------------------------------------------------------------
(* pumpLocal and saveEntry. *)

NeedsSave(m, e) ==
    \/ ~m.obj[e].local \/ m.obj[e].localFailed
    \/ e \in Self \ m.unadmitted /\ m.obj[e].status # "saved"

LocalCandidates(m) ==
    {e \in m.listed \ (m.local.visited \cup m.discarded \cup m.cancelled) :
        /\ m.obj[e].localFailed => e \in m.retries
        /\ NeedsSave(m, e) \/ m.obj[e].status = "saved"}

LocalPassEnds(m) ==
    LET pending == \E e \in Admitted(m) :
                      \/ LocalRetryable(m, e)
                      \/ m.obj[e].status = "saved" /\ m.obj[e].failed /\ m.obj[e].retryable
        ended == [m EXCEPT !.local = IF m.local.again THEN [@ EXCEPT !.again = FALSE, !.visited = {}]
                                     ELSE IdleLocal]
    IN  IF pending /\ ended.local.pc = "idle" THEN ScheduleSendRetry(ended) ELSE ended

BeginSave(m, e) ==
    [m EXCEPT !.local.pc = "checking", !.local.entry = e,
              !.obj[e].status = IF e \in Self \ m.unadmitted THEN "pending" ELSE @]

LocalPass ==
    /\ mem.local.pc = "pass"
    /\ LET e == Min(LocalCandidates(mem))
           visiting == [mem EXCEPT !.local.visited = @ \cup {x \in mem.listed : x <= e}]
       IN  mem' = IF ~Running(mem) \/ LocalCandidates(mem) = {} THEN LocalPassEnds(mem)
                  ELSE IF NeedsSave(mem, e) THEN BeginSave(visiting, e)
                  ELSE CleanupEntries(visiting, {e})
    /\ UNCHANGED <<row, offers, world, plan>>

(* saveEntry returns to the loop, which then wakes the other one. *)
SaveEnds(m, e) == PumpRemote([m EXCEPT !.local.pc = "pass", !.local.entry = 0, !.retries = @ \ {e}])

SaveFails(m, e, cause) ==
    LET noted == [m EXCEPT !.obj[e].localFailed = TRUE, !.obj[e].localRetryable = cause # "denied"]
    IN  IF e \in m.discarded THEN SaveEnds(m, e)
        ELSE IF e \in m.cancelled
        THEN SaveEnds(CleanupEntries([Abort(m, {e}) EXCEPT !.obj[e].cancelled = TRUE], {e}), e)
        ELSE IF ~Running(m) THEN SaveEnds(m, e)
        ELSE IF e \in m.unadmitted THEN SaveEnds(noted, e)
        ELSE LET entry == IF e \in Self
                          THEN [noted.obj[e] EXCEPT !.status = "error", !.retryable = cause # "denied"]
                          ELSE noted.obj[e]
             IN  WriteEntry([noted EXCEPT !.local.pc = "failing", !.obj[e] = entry], e, "local")

SaveSucceeds(m, e) ==
    LET kept == [m EXCEPT !.obj[e].localFailed = FALSE,
                          !.obj[e].status = IF e \in Self \ m.unadmitted THEN "saved" ELSE @]
    IN  IF e \in m.unadmitted THEN SaveEnds(kept, e)
        ELSE IF Completed(kept, e) THEN SaveEnds(CleanupEntries(kept, {e}), e)
        ELSE WriteEntry([kept EXCEPT !.local.pc = "writing"], e, "local")

(* active(): an admitted entry whose row is gone was cancelled elsewhere. *)
Checked(m, e) ==
    IF e \notin m.unadmitted /\ row[e] = NoRow
    THEN Abort([m EXCEPT !.cancelled = @ \cup {e}], {e}) ELSE m

LocalCheck ==
    /\ mem.local.pc = "checking"
    /\ LET e == mem.local.entry
           m == Checked(mem, e)
       IN  mem' = IF e \in mem.discarded THEN SaveEnds(mem, e)
                  ELSE IF ~Running(m) \/ e \in m.cancelled THEN SaveFails(m, e, "unavailable")
                  ELSE IF m.obj[e].local THEN SaveSucceeds(m, e)
                  ELSE [m EXCEPT !.local.pc = "saving"]
    /\ UNCHANGED <<row, offers, world, plan>>

LocalSaved ==
    /\ mem.local.pc = "saving"
    /\ stored' = stored \cup {mem.local.entry}
    /\ mem' = SaveSucceeds([mem EXCEPT !.obj[mem.local.entry].local = TRUE], mem.local.entry)
    /\ UNCHANGED <<row, offers, archived, sent, acked, told, dropped, plan>>

LocalRefused ==
    LET e == mem.local.entry
    IN  /\ mem.local.pc = "saving"
        /\ \/ Fault("local") /\ mem' = SaveFails(mem, e, "local")
           \/ Fault("denied") /\ mem' = SaveFails(mem, e, "denied")
           \/ /\ Fault("blocked")
              /\ mem' = SaveFails([mem EXCEPT !.cancelled = @ \cup {e},
                                              !.obj[e].cancelled = TRUE], e, "blocked")
        /\ UNCHANGED <<row, offers, world>>

LocalWritten ==
    LET e == mem.local.entry
        m == Taken("local", e)
    IN  /\ mem.local.pc = "writing"
        /\ \/ Resolved("local", e, TRUE) /\ mem' = SaveEnds(m, e)
           \/ Resolved("local", e, FALSE) /\ mem' = SaveFails(m, e, "local")
        /\ UNCHANGED <<row, offers, world, plan>>

LocalSettles ==
    LET e == mem.local.entry
        m == Taken("local", e)
    IN  /\ mem.local.pc = "failing"
        /\ Resolved("local", e, TRUE) \/ Resolved("local", e, FALSE)
        /\ mem' = SaveEnds(IF mem.obj[e].localRetryable THEN ScheduleSendRetry(m) ELSE m, e)
        /\ told' = IF e \in Self THEN told \cup {<<e, "local">>} ELSE told
        /\ UNCHANGED <<row, offers, stored, archived, sent, acked, dropped, plan>>

--------------------------------------------------------------------------------
(* pumpRemote and sendEntry. *)

Sendable(m, e) ==
    /\ e \notin m.unadmitted \cup Self \cup m.cancelled
    /\ m.obj[e].status # "saved" /\ ~m.obj[e].failed
    /\ m.obj[e].packet # NoPacket => ~m.obj[e].packet.accepted

AcceptedPackets(m) == {e \in m.listed : m.obj[e].packet # NoPacket /\ m.obj[e].packet.accepted}

RemotePassEnds(m) ==
    IF m.remote.again
    THEN [m EXCEPT !.remote.again = FALSE, !.remote.visited = {}]
    ELSE ResetWhenNothingPends([m EXCEPT !.remote = IdleRemote])

SendEnds(m) == [m EXCEPT !.remote = [IdleRemote EXCEPT !.pc = "pass", !.visited = m.remote.visited,
                                                       !.again = m.remote.again]]

(* retryWhenAvailable: a failure that only means "not now". *)
Patient(m, cause) ==
    \/ ~Running(m)
    \/ cause \in {"paused", "unavailable", "interrupted"} /\ ~m.remote.aborted

(* sendEntry's catch, up to its write. *)
Catch(m, cause) ==
    LET e == m.remote.entry
        patient == Patient(m, cause)
        failed == [m.obj[e] EXCEPT
            !.status = IF @ = "saved" THEN @ ELSE IF patient THEN "pending" ELSE "error",
            !.failed = TRUE, !.retryable = cause # "denied"]
    IN  IF e \in m.cancelled
        THEN IF m.obj[e].packet = NoPacket
             THEN [m EXCEPT !.obj[e].cancelled = TRUE, !.remote.pc = "dropping"]
             ELSE WriteEntry([m EXCEPT !.obj[e].cancelled = TRUE, !.remote.pc = "cancelling"],
                             e, "remote")
        ELSE WriteEntry([m EXCEPT !.obj[e] = failed, !.remote.pc = "failing",
                                  !.remote.cause = cause, !.remote.patient = patient],
                        e, "remote")

BeginSend(m, e) ==
    LET begun == [m EXCEPT !.remote.pc = "checking", !.remote.entry = e,
                           !.remote.aborted = FALSE, !.remote.paused = FALSE,
                           !.obj[e].status = "pending"]
    IN  IF m.pauses = {} THEN begun ELSE Catch(begun, "paused")

RemotePass ==
    /\ mem.remote.pc = "pass"
    /\ LET left == mem.listed \ mem.remote.visited
           next == {e \in left : Sendable(mem, e)}
           passed == IF next = {} THEN left ELSE {e \in left : e <= Min(next)}
           visiting == [(IF passed \cap AcceptedPackets(mem) = {} THEN mem ELSE Wake(mem))
                        EXCEPT !.remote.visited = @ \cup passed]
       IN  mem' = IF ~Running(mem) THEN RemotePassEnds(mem)
                  ELSE IF next = {} THEN RemotePassEnds(visiting)
                  ELSE BeginSend(visiting, Min(next))
    /\ UNCHANGED <<row, offers, world, plan>>

RemoteCheck ==
    /\ mem.remote.pc = "checking"
    /\ LET m == Checked(mem, mem.remote.entry)
       IN  mem' = IF ~Running(m) \/ mem.remote.entry \in m.cancelled THEN Catch(m, "unavailable")
                  ELSE [m EXCEPT !.remote.pc = "preparing"]
    /\ UNCHANGED <<row, offers, world, plan>>

(* An event is wrapped once: a publication already prepared is used again.     *)
Envelope(e, index) ==
    LET used == {s \in sent : s[1] = e /\ s[2] = index}
    IN  1 + Cardinality({s[3] : s \in used})

(* Mutant of Prepared: what was prepared before is wrapped anew. *)
PreparedAnew(m, e) ==
    [index |-> m.obj[e].index, envelope |-> Envelope(e, m.obj[e].index),
     accepted |-> FALSE, archived |-> ~plan.recover]

Prepared(m, e) ==
    IF m.obj[e].packet # NoPacket THEN m.obj[e].packet
    ELSE [index |-> m.obj[e].index, envelope |-> Envelope(e, m.obj[e].index),
          accepted |-> FALSE, archived |-> ~plan.recover]

(* journal.stage: the checkpoint that gates the transmission. *)
Stage(m, e) ==
    LET staged == [m EXCEPT !.obj[e].packet = Prepared(m, e)]
    IN  IF e \in m.durable /\ staged.obj[e].packet = m.obj[e].packet
        THEN [staged EXCEPT !.remote.pc = "transmitting"]
        ELSE WriteEntry([staged EXCEPT !.remote.pc = "staging"], e, "remote")

Interruptions(m) ==
    (IF m.remote.aborted THEN {"abort"} ELSE {})
    \cup (IF m.remote.paused \/ m.pauses # {} THEN {"paused", "interrupted"} ELSE {})

RemotePrepare ==
    /\ mem.remote.pc = "preparing"
    /\ \/ \E cause \in Interruptions(mem) : mem' = Catch(mem, cause)
       \/ mem' = Stage(mem, mem.remote.entry)
    /\ UNCHANGED <<row, offers, world, plan>>

RemoteStaged ==
    LET e == mem.remote.entry
        m == Taken("remote", e)
    IN  /\ mem.remote.pc = "staging"
        /\ \/ /\ Resolved("remote", e, TRUE)
              /\ mem' = Wake([m EXCEPT !.durable = @ \cup {e}, !.remote.pc = "transmitting"])
           \/ Resolved("remote", e, FALSE) /\ mem' = Catch(m, "storage")
        /\ UNCHANGED <<row, offers, world, plan>>

(* The signal is looked at once more; then the envelope is on the wire.        *)
RemoteTransmit ==
    LET e == mem.remote.entry
        packet == mem.obj[e].packet
    IN  /\ mem.remote.pc = "transmitting"
        /\ \/ /\ Interruptions(mem) = {}
              /\ sent' = sent \cup {<<e, packet.index, packet.envelope>>}
              /\ mem' = [mem EXCEPT !.remote.pc = "sending"]
           \/ /\ \E cause \in Interruptions(mem) : mem' = Catch(mem, cause)
              /\ UNCHANGED sent
        /\ UNCHANGED <<row, offers, stored, archived, acked, told, dropped, plan>>

RemoteAccepted ==
    /\ mem.remote.pc = "sending"
    /\ acked' = acked \cup {<<mem.remote.entry, mem.obj[mem.remote.entry].index>>}
    /\ mem' = [mem EXCEPT !.remote.pc = "accepted"]
    /\ UNCHANGED <<row, offers, stored, archived, sent, told, dropped, plan>>

RemoteRefused ==
    /\ mem.remote.pc = "sending"
    /\ \/ Fault("send") /\ \E cause \in {"refused", "interrupted"} : mem' = Catch(mem, cause)
       \/ Fault("denied") /\ mem' = Catch(mem, "denied")
       \/ (\E cause \in Interruptions(mem) : mem' = Catch(mem, cause)) /\ UNCHANGED plan
    /\ UNCHANGED <<row, offers, world>>

(* journal.accept: the write is not waited for. *)
Accept(m, e) ==
    Wake(WriteEntry(SendEnds([m EXCEPT !.obj[e].packet.accepted = TRUE]), e, "ack"))

Advance(m, e) ==
    LET last == m.obj[e].index + 1 = Length[e]
    IN  Accept([m EXCEPT !.obj[e].index = @ + 1,
                         !.obj[e].delivered = last,
                         !.obj[e].status = IF last THEN "saved" ELSE @], e)

RemoteAdvance ==
    /\ mem.remote.pc = "accepted"
    /\ LET e == mem.remote.entry
           m == Checked(mem, e)
       IN  mem' = IF ~Running(m) \/ e \in m.cancelled THEN Catch(m, "unavailable")
                  ELSE Advance(m, e)
    /\ UNCHANGED <<row, offers, world, plan>>

(* The rest of the catch, after its write, which may have failed. *)
RemoteFailed ==
    LET e == mem.remote.entry
        parks == mem.remote.patient /\ mem.pauses # {}
        freed == ~parks /\ mem.remote.cause = "paused" /\ Running(mem)
        m == [Taken("remote", e) EXCEPT !.parked = IF parks THEN @ \cup {e} ELSE @,
                                        !.obj[e].failed = ~freed]
        later == ~freed /\ e \notin m.parked /\
                 (mem.remote.patient \/ (m.obj[e].delivered /\ m.obj[e].retryable))
        noticed == ~mem.closed /\ e \notin mem.cancelled /\ ~m.obj[e].delivered /\ ~mem.remote.patient
    IN  /\ mem.remote.pc = "failing"
        /\ Resolved("remote", e, TRUE) \/ Resolved("remote", e, FALSE)
        /\ mem' = SendEnds(IF freed THEN Pump(m) ELSE IF later THEN ScheduleSendRetry(m) ELSE m)
        /\ told' = IF noticed THEN told \cup {<<e, mem.remote.cause>>} ELSE told
        /\ UNCHANGED <<row, offers, stored, archived, sent, acked, dropped, plan>>

RemoteCancelled ==
    LET e == mem.remote.entry
        m == Taken("remote", e)
    IN  /\ mem.remote.pc = "cancelling"
        /\ \/ Resolved("remote", e, TRUE) /\ mem' = SendEnds(Wake(m))
           \/ /\ Resolved("remote", e, FALSE)
              /\ mem' = ResetWhenNothingPends([m EXCEPT !.remote = IdleRemote])
        /\ UNCHANGED <<row, offers, world, plan>>

RemoteDropped ==
    LET e == mem.remote.entry
    IN  /\ mem.remote.pc = "dropping"
        /\ row' = [row EXCEPT ![e] = NoRow]
        /\ mem' = SendEnds([mem EXCEPT !.listed = @ \ {e}])
        /\ UNCHANGED <<offers, world, plan>>

--------------------------------------------------------------------------------
(* The journal's worker. *)

WorkerCandidates(m) ==
    {e \in m.listed \ (m.worker.visited \cup m.unarchived) :
        /\ m.obj[e].packet # NoPacket
        /\ m.obj[e].packet.archived => m.obj[e].packet.accepted \/ m.obj[e].cancelled}

WorkerPassEnds(m) ==
    LET ended == [m EXCEPT !.worker = IdleWorker]
        left == {e \in m.listed \ m.unarchived :
                    /\ m.obj[e].packet # NoPacket
                    /\ ~m.obj[e].packet.archived \/ m.obj[e].packet.accepted \/ m.obj[e].cancelled}
    IN  IF left = {} THEN ended ELSE Wake(ended)

WorkerFails(m, e) ==
    RetryLater([m EXCEPT !.unarchived = @ \cup {e}, !.worker.pc = "pass", !.worker.entry = 0])

Forget(m, e) ==
    LET done == m.obj[e].packet.accepted \/ m.obj[e].cancelled
    IN  WriteEntry([m EXCEPT
            !.obj[e].packet = IF done THEN NoPacket ELSE [@ EXCEPT !.archived = TRUE],
            !.durable = IF done THEN @ \ {e} ELSE @,
            !.worker.pc = "forgetting"], e, "worker")

ArchiveOrForget(m, e) ==
    IF m.obj[e].packet.archived THEN Forget(m, e) ELSE [m EXCEPT !.worker.pc = "waiting"]

WorkerPass ==
    /\ mem.worker.pc = "pass"
    /\ LET next == WorkerCandidates(mem)
           e == Min(next)
           m == [mem EXCEPT !.worker.entry = e,
                            !.worker.visited = @ \cup {x \in mem.listed : x <= e}]
       IN  mem' = IF mem.stopped \/ ~mem.journaling \/ next = {} THEN WorkerPassEnds(mem)
                  ELSE IF e \in mem.durable THEN ArchiveOrForget(m, e)
                  ELSE WriteEntry([m EXCEPT !.worker.pc = "checkpoint"], e, "worker")
    /\ UNCHANGED <<row, offers, world, plan>>

WorkerChecked ==
    LET e == mem.worker.entry
        m == Taken("worker", e)
    IN  /\ mem.worker.pc = "checkpoint"
        /\ \/ /\ Resolved("worker", e, TRUE)
              /\ mem' = ArchiveOrForget([m EXCEPT !.durable = @ \cup {e}], e)
           \/ Resolved("worker", e, FALSE) /\ mem' = WorkerFails(m, e)
        /\ UNCHANGED <<row, offers, world, plan>>

(* The wait for idle ends by itself after five seconds, and at once when the   *)
(* session closes: the archive callback then returns as if it had archived.    *)
WorkerWaited ==
    /\ mem.worker.pc = "waiting"
    /\ mem' = IF mem.closed THEN Forget(mem, mem.worker.entry)
              ELSE [mem EXCEPT !.worker.pc = "archiving"]
    /\ UNCHANGED <<row, offers, world, plan>>

WorkerArchives ==
    LET e == mem.worker.entry
    IN  /\ mem.worker.pc = "archiving"
        /\ \/ /\ archived' = archived \cup {<<e, mem.obj[e].packet.index>>}
              /\ mem' = Forget(mem, e)
              /\ UNCHANGED plan
           \/ /\ Fault("archive")
              /\ mem' = WorkerFails(mem, e)
              /\ UNCHANGED archived
        /\ UNCHANGED <<row, offers, stored, sent, acked, told, dropped>>

(* Mutant of Changed: nobody sends the entry's next event. *)
ChangedCleansOnly(m, e) ==
    IF m.obj[e].packet = NoPacket /\ (Completed(m, e) \/ m.obj[e].cancelled)
    THEN CleanupEntries(m, {e}) ELSE m

(* changed: the entry is done, or its next event may go. *)
Changed(m, e) ==
    IF m.obj[e].packet = NoPacket /\ (Completed(m, e) \/ m.obj[e].cancelled)
    THEN CleanupEntries(m, {e}) ELSE PumpRemote(m)

WorkerForgot ==
    LET e == mem.worker.entry
        m == Taken("worker", e)
    IN  /\ mem.worker.pc = "forgetting"
        /\ \/ /\ Resolved("worker", e, TRUE)
              /\ mem' = Changed([m EXCEPT !.worker.pc = "pass", !.worker.entry = 0], e)
           \/ Resolved("worker", e, FALSE) /\ mem' = WorkerFails(m, e)
        /\ UNCHANGED <<row, offers, world, plan>>

AckWritten(e) ==
    LET m == Taken("ack", e)
    IN  /\ \/ Resolved("ack", e, TRUE) /\ mem' = Wake(m)
           \/ /\ Resolved("ack", e, FALSE)
              /\ mem' = Wake(RetryLater([m EXCEPT !.unarchived = @ \cup {e}]))
        /\ UNCHANGED <<row, offers, world, plan>>

--------------------------------------------------------------------------------
(* Retry timers, availability, pauses, close, crash. *)

SendTimerFires ==
    LET late == PendingRetryable(mem)
        saves == {e \in late : LocalRetryable(mem, e)}
        sends == {e \in late \ mem.parked : SendRetryable(mem.obj[e])}
        cleans == {e \in sends : mem.obj[e].status = "saved"}
        m == [mem EXCEPT !.sendTimer = FALSE, !.retries = @ \cup saves,
                         !.obj = [e \in Entries |->
                             IF e \in sends THEN [@[e] EXCEPT !.failed = FALSE] ELSE @[e]]]
        cleaned == CleanupEntries(m, cleans)
    IN  /\ mem.sendTimer
        /\ mem' = IF saves \cup (sends \ cleans) = {} THEN cleaned ELSE Pump(cleaned)
        /\ UNCHANGED <<row, offers, world, plan>>

JournalTimerFires ==
    /\ mem.journalTimer
    /\ mem' = JournalRetry(mem)
    /\ UNCHANGED <<row, offers, world, plan>>

(* The messenger has told its status: a release frees the sends it had parked. *)
StateChanged(m) ==
    LET failing == {e \in m.listed \ Self : m.obj[e].failed /\ m.obj[e].status = "pending"}
        parked == [m EXCEPT !.parked = @ \cup failing]
        waiting == {e \in Admitted(parked) : LocalRetryable(m, e)}
                   \cup (PendingRetryable(parked) \ parked.parked)
        freed == [m EXCEPT !.sendTimer = FALSE, !.parked = {},
                           !.obj = [e \in Entries |->
                               IF e \in m.parked THEN [@[e] EXCEPT !.failed = FALSE] ELSE @[e]]]
    IN  IF ~Running(m) THEN m
        ELSE IF m.pauses # {}
        THEN IF waiting = {} THEN [parked EXCEPT !.sendTimer = FALSE] ELSE parked
        ELSE Pump(IF \E e \in Admitted(freed) : LocalRetryable(freed, e)
                  THEN ScheduleSendRetry(freed) ELSE freed)

(* A pause ends the publication the messenger is at. *)
Paused(m, reason) ==
    IF ~m.messenger THEN m
    ELSE StateChanged([m EXCEPT !.pauses = @ \cup {reason},
                                !.remote.paused = @ \/ m.remote.pc \in
                                    {"preparing", "staging", "transmitting", "sending"}])

Pause ==
    /\ mem.messenger /\ ~mem.closed /\ "network" \notin mem.pauses
    /\ Fault("pause")
    /\ mem' = Paused(mem, "network")
    /\ UNCHANGED <<row, offers, world>>

Release ==
    /\ "network" \in mem.pauses
    /\ mem' = StateChanged([mem EXCEPT !.pauses = @ \ {"network"}])
    /\ UNCHANGED <<row, offers, world, plan>>

(* setAvailable(false): the signer is gone. *)
Lock ==
    LET m == [Abort(mem, Entries) EXCEPT !.available = FALSE, !.configuring = FALSE,
                 !.sendTimer = FALSE, !.journaling = FALSE, !.journalTimer = FALSE]
    IN  /\ Running(mem)
        /\ Fault("lock")
        /\ mem' = Paused(m, "signer")
        /\ UNCHANGED <<row, offers, world>>

(* setAvailable(true) *)
Unlock ==
    LET m == PumpLocal(Wake([mem EXCEPT !.available = TRUE, !.journaling = TRUE,
                                        !.sendTimer = FALSE, !.unarchived = {}]))
    IN  /\ ~mem.available /\ ~mem.closed
        /\ mem' = [m EXCEPT
               !.retries = @ \cup {e \in Admitted(m) : m.obj[e].localRetryable},
               !.obj = [e \in Entries |-> IF e \in m.listed /\ SendRetryable(@[e])
                                          THEN [@[e] EXCEPT !.failed = FALSE] ELSE @[e]],
               !.configuring = TRUE]
        /\ UNCHANGED <<row, offers, world, plan>>

(* configure: the messenger exists, its signer pause ends, everything wakes.   *)
Configured ==
    /\ mem.configuring
    /\ mem' = Pump(Wake(StateChanged([mem EXCEPT !.configuring = FALSE, !.messenger = TRUE,
                                                 !.pauses = @ \ {"signer"}])))
    /\ UNCHANGED <<row, offers, world, plan>>

Close ==
    LET m == [Abort(mem, Entries) EXCEPT !.closed = TRUE, !.available = FALSE,
                 !.configuring = FALSE, !.sendTimer = FALSE, !.retries = {}, !.parked = {}]
    IN  /\ ~mem.closed
        /\ Fault("close")
        /\ mem' = Paused(m, "closed")
        /\ UNCHANGED <<row, offers, world>>

Working(m) ==
    \/ m.remote.pc # "idle" \/ m.local.pc # "idle" \/ m.cleaning # {}
    \/ \E e \in Entries : offers[e] = "putting"

StopJournal ==
    /\ mem.closed /\ ~mem.stopped /\ ~Working(mem)
    /\ mem' = [mem EXCEPT !.stopped = TRUE, !.journalTimer = FALSE]
    /\ UNCHANGED <<row, offers, world, plan>>

Closed ==
    /\ mem.stopped /\ ~Working(mem)
    /\ mem.worker.pc = "idle" /\ mem.removing = {} /\ mem.resolved = {}
    /\ \A e \in Entries : mem.queued[e] = {} /\ mem.flying[e].who = {}
    /\ mem' = NoSession
    /\ UNCHANGED <<row, offers, world, plan>>

Crash ==
    /\ Fault("crash")
    /\ mem' = NoSession
    /\ offers' = [e \in Entries |-> IF offers[e] = "putting" THEN "lost" ELSE offers[e]]
    /\ UNCHANGED <<row, world>>

(* The session is made again and reads its rows. *)
Restart ==
    /\ mem = NoSession
    /\ mem' = NewMemory
    /\ UNCHANGED <<row, offers, world, plan>>

--------------------------------------------------------------------------------
Init ==
    /\ row = [e \in Entries |-> NoRow]
    /\ mem = NewMemory
    /\ offers = [e \in Entries |-> "new"]
    /\ stored = {} /\ archived = {} /\ sent = {} /\ acked = {} /\ told = {} /\ dropped = {}
    /\ plan \in Plans

Alive == mem # NoSession

Local == Alive /\ (LocalPass \/ LocalCheck \/ LocalSaved \/ LocalRefused \/ LocalWritten \/ LocalSettles)
Remote == Alive /\ (\/ RemotePass \/ RemoteCheck \/ RemotePrepare \/ RemoteStaged \/ RemoteTransmit
                    \/ RemoteAccepted \/ RemoteRefused \/ RemoteAdvance \/ RemoteFailed
                    \/ RemoteCancelled \/ RemoteDropped)
Worker == Alive /\ (\/ WorkerPass \/ WorkerChecked \/ WorkerWaited \/ WorkerArchives
                    \/ WorkerForgot)
Database(e) == Alive /\ (\/ StartWrite(e) \/ WriteCommits(e) \/ WriteFails(e) \/ CleanupCommits(e)
                         \/ CleanupFails(e) \/ RemovalCommits(e))
Admission(e) == Alive /\ (PutCommits(e) \/ PutFails(e))
Continuation(e) == Alive /\ (CancelWritten(e) \/ AckWritten(e))
User(e) == Alive /\ (Enqueue(e) \/ Cancel(e) \/ Retry(e))
Recovery == Alive /\ (Unlock \/ Configured \/ Release \/ StopJournal \/ Closed)
Timers == Alive /\ (SendTimerFires \/ JournalTimerFires)

Next ==
    \/ Local \/ Remote \/ Worker \/ Recovery \/ Timers \/ Restart
    \/ \E e \in Entries : Database(e) \/ Admission(e) \/ Continuation(e) \/ User(e)
    \/ Alive /\ (Pause \/ Lock \/ Close \/ Crash)

(* Whatever runs goes on running: loops, timers, transactions, the signer and  *)
(* the network coming back, and a closed application being opened again.       *)
Fairness ==
    /\ WF_vars(Local) /\ WF_vars(Remote) /\ WF_vars(Worker)
    /\ WF_vars(Recovery) /\ WF_vars(Restart)
    /\ WF_vars(Alive /\ SendTimerFires) /\ WF_vars(Alive /\ JournalTimerFires)
    /\ \A e \in Entries : WF_vars(Database(e)) /\ WF_vars(Admission(e) \/ Continuation(e))

Spec == Init /\ [][Next]_vars
FairSpec == Spec /\ Fairness

--------------------------------------------------------------------------------
(* Shape of the state. *)
EntryShape(e) ==
    [index : 0..Length[e], local : BOOLEAN, status : Statuses,
     delivered : BOOLEAN, failed : BOOLEAN, retryable : BOOLEAN, localFailed : BOOLEAN,
     localRetryable : BOOLEAN, cancelled : BOOLEAN, packet : Packet \cup {NoPacket}]

TypeOK ==
    /\ \A e \in Entries : row[e] # NoRow => row[e] \in EntryShape(e)
    /\ offers \in [Entries -> {"new", "putting", "accepted", "refused", "lost"}]
    /\ stored \subseteq Entries /\ dropped \subseteq Entries
    /\ \E p \in Plans : plan \in {[p EXCEPT !.left = n] : n \in 0..p.left}
    /\ Alive => /\ \A e \in Entries : mem.obj[e] \in EntryShape(e)
                /\ mem.unadmitted \subseteq mem.listed \cap Self
                /\ mem.durable \cup mem.cleaning \cup mem.parked \subseteq Entries

(* The seeds of an event that was transmitted are recoverable at every         *)
(* instant: they are archived, or the durable row of the entry carries them    *)
(* for the worker to archive (stage before transmission, worker, cancel).      *)
SeedRecoverable ==
    plan.recover => \A s \in sent :
        \/ <<s[1], s[2]>> \in archived
        \/ /\ row[s[1]] # NoRow
           /\ row[s[1]].packet # NoPacket
           /\ row[s[1]].packet.index = s[2]
           /\ ~row[s[1]].packet.archived

(* An event is only ever transmitted in one envelope, over failures, retries   *)
(* and restarts: what was prepared is used again (stage, preparedPublications). *)
OneEnvelope == \A s, t \in sent : s[1] = t[1] /\ s[2] = t[2] => s[3] = t[3]

(* Saved is shown only when it is true: a self entry is in the message store   *)
(* and durable or already cleaned up, a remote one has every event acked.      *)
SavedMeansDone ==
    Alive => \A e \in mem.listed :
        mem.obj[e].status = "saved" =>
            IF e \in Self THEN e \in stored /\ e \notin mem.unadmitted
            ELSE \A index \in 0..Length[e] - 1 : <<e, index>> \in acked

(* A durable intent goes away only when it is done, locally and remotely, or   *)
(* was cancelled by the user or blocked by the store.                          *)
DroppedWhenDone ==
    [][\A e \in Entries : row[e] # NoRow /\ row'[e] = NoRow =>
          \/ e \in mem.cancelled
          \/ /\ e \in stored
             /\ e \in Self \/ \A index \in 0..Length[e] - 1 : <<e, index>> \in acked]_vars

(* Once cancel() has resolved, the entry transmits nothing new, and no row     *)
(* brings it back as a live intent, restart or not.                            *)
CancelHolds ==
    [][\A e \in dropped :
          /\ {s \in sent' : s[1] = e} = {s \in sent : s[1] = e}
          /\ row'[e] # NoRow => row'[e].cancelled]_vars

(* A pause or an unavailable messenger is never reported as a failed send.     *)
PauseNeverSurfaces ==
    \A report \in told : report[2] \notin {"paused", "unavailable", "interrupted", "abort"}

(* Short of a lock, which aborts the send in progress, that holds: neither a   *)
(* network pause nor a crash nor a write that fails makes a send an error.     *)
OnlyALockSurfaces == "lock" \notin plan.faults => PauseNeverSurfaces

(* What the session says is so: one envelope for an event, saved when it is saved, no error of a pause. *)
OutboxHonest == TypeOK /\ OneEnvelope /\ SavedMeansDone /\ OnlyALockSurfaces

(* An intent goes away only when it is done, and stays away once it was cancelled. *)
IntentsKept == DroppedWhenDone /\ CancelHolds

Shown(e) == \E report \in told : report[1] = e

(* An accepted intent is published, stored and cleaned up, or its failure is   *)
(* shown to the user.                                                          *)
EveryIntentSettles ==
    <>[](\A e \in Entries : offers[e] = "accepted" => row[e] = NoRow \/ Shown(e))
================================================================================
