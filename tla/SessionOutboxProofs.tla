-------------------------- MODULE SessionOutboxProofs --------------------------
(***************************************************************************)
(* SessionOutbox, for any entries, plan and number of faults, over crashes,    *)
(* closes, failing writes, cancels, retries, pauses and locks: the recovery    *)
(* seeds of what was transmitted are archived or in the durable row; an event  *)
(* goes out in one envelope, and saved and failed are shown only when so; and  *)
(* an intent goes away only when done or cancelled, and stays away.            *)
(*                                                                         *)
(* The invariant follows an entry through the four places it is in: the        *)
(* session's memory, the snapshot on its way to the row, the row, and the      *)
(* archive.                                                                *)
(***************************************************************************)
EXTENDS SessionOutbox, NaturalsLemmas

Writers == {"cancel", "local", "remote", "worker", "ack"}
RemoteStages == {"idle", "pass", "checking", "preparing", "staging", "transmitting", "sending", "accepted",
                 "failing", "cancelling", "dropping"}
Causes == {"none", "paused", "unavailable", "abort", "interrupted", "storage", "refused", "denied"}
Snapshot == [who : SUBSET Writers, entry : Entry]
RemoteLoop == [pc : RemoteStages, entry : Nat, visited : SUBSET Entries, again : BOOLEAN,
               aborted : BOOLEAN, paused : BOOLEAN, cause : Causes, patient : BOOLEAN]
LocalLoop == [pc : {"idle", "pass", "checking", "saving", "writing", "failing"},
              entry : Nat, visited : SUBSET Entries, again : BOOLEAN]
WorkerLoop == [pc : {"idle", "pass", "checkpoint", "waiting", "archiving", "forgetting"},
               entry : Nat, visited : SUBSET Entries]
Memory ==
    [available : BOOLEAN, closed : BOOLEAN, stopped : BOOLEAN, messenger : BOOLEAN,
     configuring : BOOLEAN, pauses : SUBSET {"network", "signer", "closed"}, journaling : BOOLEAN,
     obj : [Entries -> Entry], listed : SUBSET Entries,
     unadmitted : SUBSET Self, discarded : SUBSET Self,
     cancelled : SUBSET Entries, durable : SUBSET Entries,
     queued : [Entries -> SUBSET Writers], flying : [Entries -> Snapshot],
     resolved : SUBSET (Writers \X Entries \X BOOLEAN),
     removing : SUBSET Entries, cleaning : SUBSET Entries,
     remote : RemoteLoop, local : LocalLoop, worker : WorkerLoop,
     sendTimer : BOOLEAN, journalTimer : BOOLEAN,
     unarchived : SUBSET Entries, parked : SUBSET Entries, retries : SUBSET Entries]

(* The entry whose event pumpRemote is publishing, and the one the worker is at. *)
Sending(m, e) == m.remote.pc \notin {"idle", "pass"} /\ m.remote.entry = e
Archiving(m, e) == m.worker.pc \notin {"idle", "pass"} /\ m.worker.entry = e

(* The plans under which recovery seeds are kept: the mode wants them, and no close *)
(* lets the worker forget a packet it has not archived.                            *)
Keeps == plan.recover /\ "close" \notin plan.faults
PlanKept == plan'.recover = plan.recover /\ plan'.faults = plan.faults

(* The entry pumpLocal is saving. *)
Saving(m, e) == m.local.pc \notin {"idle", "pass"} /\ m.local.entry = e

(* An entry whose first row is not written yet: only its unadmitted self entry is worked on. *)
Fresh(e) == offers[e] \in {"new", "putting"}
Known(m, e) == e \in m.unadmitted \/ ~Fresh(e)

(* x holds the packet of y, and row and snapshot that of the entry in memory. *)
SamePacket(x, y) == x.packet # NoPacket /\ y.packet # NoPacket /\ x.packet.index = y.packet.index
InRow(m, e) ==
    /\ row[e] # NoRow /\ SamePacket(row[e], m.obj[e])
    /\ m.flying[e].who # {} => SamePacket(m.flying[e].entry, m.obj[e])

(* A write that a loop waits for is queued, on its way or over: one of them. *)
Waits(m, who, e) ==
    \/ who \in m.queued[e] \/ who \in m.flying[e].who \/ \E ok \in BOOLEAN : <<who, e, ok>> \in m.resolved
OnePlace(m, who, e) ==
    /\ who \in m.queued[e] => who \notin m.flying[e].who
    /\ who \in m.queued[e] \cup m.flying[e].who => \A ok \in BOOLEAN : <<who, e, ok>> \notin m.resolved
(* The wait of the loop who on a checkpoint of e's packet. *)
Checkpoints(m, who, e) ==
    /\ m.obj[e].packet # NoPacket \/ e \in m.cancelled
    /\ who \in m.flying[e].who => e \in m.cancelled \/ SamePacket(m.flying[e].entry, m.obj[e])
    /\ <<who, e, TRUE>> \in m.resolved => e \in m.cancelled \/ InRow(m, e)

ObjectsOK(m) ==
    \A e \in Entries :
        /\ m.obj[e].cancelled => e \in m.cancelled
        /\ e \in Self => m.obj[e].packet = NoPacket /\ m.flying[e].entry.packet = NoPacket
        /\ m.obj[e].delivered => e \in Self \/ m.obj[e].status = "saved"
        /\ e \in m.listed => e \in Self \/ row[e] # NoRow \/ e \in m.cancelled
        /\ m.obj[e].packet # NoPacket => row[e] # NoRow \/ e \in m.cancelled
        /\ e \in m.durable => e \in m.cancelled \/ InRow(m, e)
        /\ e \in m.cleaning => \/ e \in m.cancelled
                               \/ m.obj[e].packet = NoPacket /\ (e \in Self \/ m.obj[e].delivered)
        /\ e \in m.removing => e \in m.cancelled
        /\ offers[e] \in {"new", "putting"} =>
              /\ e \in m.listed => e \in Self
              /\ ~Sending(m, e) /\ e \notin m.durable /\ m.obj[e].packet = NoPacket

RemoteOK(m) ==
    \A e \in Entries : Sending(m, e) =>
        /\ e \notin Self /\ ~m.obj[e].delivered /\ (e \in m.cancelled => m.remote.aborted)
        /\ m.obj[e].packet # NoPacket => ~m.obj[e].packet.accepted
        /\ row[e] # NoRow \/ e \in m.cancelled
        /\ m.remote.pc \in {"transmitting", "sending", "accepted"} =>
              e \in m.cancelled \/ (e \in m.durable /\ m.obj[e].packet # NoPacket)
        /\ m.remote.pc = "dropping" => e \in m.cancelled /\ m.obj[e].packet = NoPacket
        /\ m.remote.pc = "staging" => Checkpoints(m, "remote", e)

WorkerOK(m) ==
    \A e \in Entries : Archiving(m, e) =>
        /\ m.worker.pc \in {"checkpoint", "waiting", "archiving"} => m.obj[e].packet # NoPacket
        /\ m.worker.pc = "checkpoint" => Checkpoints(m, "worker", e)

WaitsOK(m) ==
    \A e \in Entries :
        /\ Waits(m, "remote", e) => Sending(m, e) /\ m.remote.pc \in {"staging", "failing", "cancelling"}
        /\ Waits(m, "worker", e) => Archiving(m, e) /\ m.worker.pc \in {"checkpoint", "forgetting"}
        /\ OnePlace(m, "remote", e) /\ OnePlace(m, "worker", e)

(* Nothing is marked archived that is not. *)
ReallyArchived(x, e) == x.packet # NoPacket /\ x.packet.archived => <<e, x.packet.index>> \in archived
MarksOK(m) ==
    Keeps => \A e \in Entries : ReallyArchived(m.obj[e], e) /\ ReallyArchived(m.flying[e].entry, e)

(* The seeds of event i of e are in the packet of x, for the worker to archive. *)
Carries(x, i) == x.packet # NoPacket /\ x.packet.index = i /\ ~x.packet.archived
Unsaved(e, i) == <<e, i>> \notin archived /\ \E s \in sent : s[1] = e /\ s[2] = i
SeedsHeld(m) ==
    Keeps => \A e \in Entries, i \in Nat : Unsaved(e, i) =>
        /\ Carries(m.obj[e], i)
        /\ m.flying[e].who # {} => Carries(m.flying[e].entry, i)
        /\ e \notin m.cleaning \cup m.removing

(* What x, be it an entry, a snapshot of it or its row, says of e is so. *)
Right(x, e) ==
    /\ x.index <= Length[e] /\ (x.local => e \in stored)
    /\ e \in Self => x.index = 0 /\ ~x.delivered /\ (x.status = "saved" => e \in stored)
    /\ e \notin Self => /\ x.delivered <=> x.index = Length[e]
                        /\ x.status = "saved" => x.delivered
                        /\ \A i \in Nat : i < x.index => <<e, i>> \in acked
    /\ x.packet # NoPacket => x.packet.index = IF x.packet.accepted THEN x.index - 1 ELSE x.index

(* What is on the wire of e, unless it was cancelled, is behind x or in its packet: *)
(* the event x sends next is wrapped for the first time, or was before.            *)
Kept(x, e) ==
    \/ x.cancelled \/ row[e] = NoRow
    \/ /\ x.packet # NoPacket => x.packet.envelope = 1
       /\ \A s \in sent : s[1] = e => s[2] < x.index \/ (x.packet # NoPacket /\ x.packet.index = s[2])

HonestOK(m) ==
    \A e \in Entries :
        /\ Right(m.obj[e], e) /\ Right(m.flying[e].entry, e)
        /\ Kept(m.obj[e], e) /\ (m.flying[e].who # {} => Kept(m.flying[e].entry, e))
        /\ Sending(m, e) /\ m.remote.pc = "accepted" => <<e, m.obj[e].index>> \in acked
        /\ e \in m.cleaning => e \in m.cancelled \/ m.obj[e].local

(* A cancel is known to the memory first, then to the snapshots, then to the row. *)
CancelOK(m) ==
    \A e \in Entries :
        /\ row[e] # NoRow /\ row[e].cancelled =>
              m.obj[e].cancelled /\ (m.flying[e].who # {} => m.flying[e].entry.cancelled)
        /\ m.flying[e].entry.cancelled => m.obj[e].cancelled
        /\ "cancel" \in m.queued[e] => m.obj[e].cancelled
        /\ "cancel" \in m.flying[e].who => m.flying[e].entry.cancelled
        /\ <<"cancel", e, TRUE>> \in m.resolved => row[e] = NoRow \/ row[e].cancelled

(* Before its first row is written, an entry is listed and saved only as an unadmitted one. *)
AdmissionOK(m) ==
    \A e \in Entries :
        /\ e \in m.unadmitted => e \in m.listed /\ e \notin m.cleaning /\ m.obj[e].status # "saved"
        /\ Fresh(e) => /\ e \in m.listed \/ Saving(m, e) => e \in m.unadmitted
                       /\ ~Archiving(m, e) /\ ~Waits(m, "cancel", e) /\ e \notin m.cleaning \cup m.removing
                       /\ m.flying[e].entry.packet = NoPacket /\ m.obj[e].status # "saved"

(* A send is aborted by a cancel or a close, if there is no lock: what is reported as a *)
(* failure is neither a pause nor an interruption.                                    *)
Impatient == {"paused", "unavailable", "interrupted", "abort"}
Ended(m, e) == e \in m.cancelled \/ m.closed \/ "lock" \in plan.faults
PauseOK(m) ==
    \A e \in Entries : Sending(m, e) =>
        /\ m.remote.aborted => Ended(m, e)
        /\ m.remote.pc = "failing" /\ ~m.remote.patient /\ m.remote.cause \in Impatient => Ended(m, e)

MemoryOK(m) ==
    /\ m \in Memory /\ (m.closed => "close" \in plan.faults)
    /\ m.remote.pc \notin {"idle", "pass"} => m.remote.entry \in Entries \ Self
    /\ m.local.pc \notin {"idle", "pass"} => m.local.entry \in Entries
    /\ m.worker.pc \notin {"idle", "pass"} => m.worker.entry \in Entries
    /\ ObjectsOK(m) /\ RemoteOK(m) /\ WorkerOK(m) /\ WaitsOK(m) /\ MarksOK(m) /\ SeedsHeld(m)
    /\ HonestOK(m) /\ CancelOK(m) /\ AdmissionOK(m) /\ PauseOK(m)

(* What outlives the memory. *)
StoresOK ==
    /\ row \in [Entries -> Entry \cup {NoRow}]
    /\ sent \subseteq (Entries \ Self) \X Nat \X Nat /\ IsFiniteSet(sent)
    /\ offers \in [Entries -> {"new", "putting", "accepted", "refused", "lost"}]
    /\ \A e \in Entries : row[e] # NoRow =>
          /\ offers[e] \notin {"new", "putting"}
          /\ e \in Self => row[e].packet = NoPacket
          /\ Keeps => ReallyArchived(row[e], e)
          /\ Right(row[e], e) /\ Kept(row[e], e)
    /\ \A s \in sent : offers[s[1]] \notin {"new", "putting"} /\ s[3] = 1
    /\ Keeps => SeedRecoverable
    /\ stored \subseteq Entries /\ dropped \subseteq Entries
    /\ \A e \in dropped : ~Fresh(e) /\ (row[e] = NoRow \/ row[e].cancelled)
    /\ OnlyALockSurfaces

PlanOK ==
    /\ plan \in [offered : SUBSET Entries, recover : BOOLEAN, faults : SUBSET FaultKinds, left : Nat]
    /\ \E p \in Plans : plan \in {[p EXCEPT !.left = n] : n \in 0..p.left}

IInv == PlanOK /\ StoresOK /\ (Alive => MemoryOK(mem))
--------------------------------------------------------------------------------
(* What most of the code does to the memory: nothing to any packet.  A loop may  *)
(* start, an entry may be cancelled or go to cleanup, waits are consumed.         *)
Asleep == {"idle", "pass"}
Loops == {"remote", "worker"}
(* y with nothing changed of what was sent, acknowledged, stored or cancelled; and only *)
(* an admitted self entry in the message store is newly saved.                         *)
SameSend(x, y) ==
    /\ x.packet = y.packet /\ x.delivered = y.delivered /\ x.index = y.index /\ x.local = y.local
    /\ y.cancelled => x.cancelled
SavesRightly(x, y, e, unadmitted) ==
    x.status = "saved" => y.status = "saved" \/ (e \in Self \ unadmitted /\ x.local /\ ~Fresh(e))
MayClean(m, n, e) ==
    /\ m.obj[e].packet = NoPacket
    /\ e \in n.cancelled \/ (m.obj[e].local /\ (e \in Self \/ m.obj[e].delivered))
    /\ e \notin n.unadmitted /\ ~Fresh(e)
SameEntry(m, n, e) ==
    /\ SameSend(n.obj[e], m.obj[e])
    /\ n.obj[e].cancelled => e \in n.cancelled
    /\ n.obj[e].status = m.obj[e].status \/ e \in Self \/ ~m.obj[e].delivered
    /\ SavesRightly(n.obj[e], m.obj[e], e, n.unadmitted)
    /\ \A who \in Loops : who \in n.queued[e] <=> who \in m.queued[e]
    /\ "cancel" \in n.queued[e] => "cancel" \in m.queued[e] \/ (n.obj[e].cancelled /\ ~Fresh(e))
    /\ n.flying[e] = m.flying[e]
    /\ \A who \in Loops \cup {"cancel"}, ok \in BOOLEAN : <<who, e, ok>> \in n.resolved => <<who, e, ok>> \in m.resolved
    /\ e \in n.listed => e \in m.listed \/ (e \in Self /\ Known(n, e))
    /\ e \in n.unadmitted => e \in n.listed /\ (e \in m.unadmitted \/ Fresh(e))
    /\ e \in m.unadmitted => Known(n, e)
    /\ e \in n.durable <=> e \in m.durable
    /\ e \in n.removing => e \in m.removing
    /\ e \in m.cancelled => e \in n.cancelled
    /\ e \in n.cleaning => e \in m.cleaning \/ MayClean(m, n, e)
    /\ Saving(n, e) => Saving(m, e) \/ Known(n, e)
SameSending(x, y, ended) ==
    /\ x.pc = y.pc /\ x.entry = y.entry /\ x.cause = y.cause /\ x.patient = y.patient
    /\ y.aborted => x.aborted
    /\ x.aborted => y.aborted \/ ended
Mild(m, n) ==
    /\ n \in Memory /\ n.closed = m.closed
    /\ \A e \in Entries : SameEntry(m, n, e)
    /\ \/ n.remote.pc \in Asleep /\ m.remote.pc \in Asleep
       \/ /\ SameSending(n.remote, m.remote, Ended(n, m.remote.entry))
          /\ m.remote.entry \in n.cancelled => n.remote.aborted \/ m.remote.entry \in m.cancelled
    /\ \/ n.worker.pc \in Asleep /\ m.worker.pc \in Asleep
       \/ n.worker.pc = m.worker.pc /\ n.worker.entry = m.worker.entry
    /\ n.local.pc \notin Asleep => n.local.entry \in Entries

LEMMA RightStays ==
    ASSUME NEW x, NEW y, NEW e \in Entries, Right(y, e), SameSend(x, y),
           x.status = "saved" => y.status = "saved" \/ (e \in Self /\ x.local)
    PROVE  Right(x, e)
<1>1. x.packet = y.packet /\ x.delivered = y.delivered /\ x.index = y.index /\ x.local = y.local
  BY DEF SameSend
<1> QED BY <1>1, Zenon DEF Right

LEMMA KeptStays ==
    ASSUME NEW x, NEW y, NEW e \in Entries, Kept(y, e), SameSend(x, y) PROVE Kept(x, e)
<1>1. x.packet = y.packet /\ x.index = y.index /\ (y.cancelled => x.cancelled)
  BY DEF SameSend
<1> QED BY <1>1, Zenon DEF Kept

LEMMA MildAgain ==
    ASSUME NEW m, NEW n, NEW p, Mild(m, n), Mild(n, p) PROVE Mild(m, p)
<1>1. ASSUME NEW e \in Entries PROVE SameEntry(m, p, e)
  <2>1. SameEntry(m, n, e) /\ SameEntry(n, p, e)
    BY DEF Mild
  <2> QED BY <2>1 DEF SameEntry, SameSend, SavesRightly, Known, MayClean
<1>2. m.remote.entry \in n.cancelled /\ n.remote.entry = m.remote.entry => n.remote.entry \in n.cancelled
  OBVIOUS
<1>3. n.cancelled \subseteq p.cancelled /\ n.closed = p.closed
  BY DEF Mild, SameEntry, Memory
<1> QED BY <1>1, <1>2, <1>3 DEF Mild, Asleep, SameSending, Ended

LEMMA MildKeeps ==
    ASSUME NEW m, NEW n, MemoryOK(m), Mild(m, n) PROVE MemoryOK(n)
<1>1. ASSUME NEW e \in Entries PROVE SameEntry(m, n, e)
  BY DEF Mild
<1>2. ASSUME NEW e \in Entries
      PROVE  /\ Sending(n, e) <=> Sending(m, e)
             /\ Archiving(n, e) <=> Archiving(m, e)
             /\ Sending(n, e) => n.remote.pc = m.remote.pc
             /\ Archiving(n, e) => n.worker.pc = m.worker.pc
             /\ InRow(n, e) <=> InRow(m, e)
             /\ \A who \in Loops : /\ Waits(n, who, e) => Waits(m, who, e)
                                   /\ OnePlace(m, who, e) => OnePlace(n, who, e)
                                   /\ Checkpoints(m, who, e) => Checkpoints(n, who, e)
  <2>1. /\ Sending(n, e) <=> Sending(m, e)
        /\ Archiving(n, e) <=> Archiving(m, e)
        /\ Sending(n, e) => n.remote.pc = m.remote.pc
        /\ Archiving(n, e) => n.worker.pc = m.worker.pc
    BY DEF Mild, SameSending, Asleep, Sending, Archiving
  <2>2. InRow(n, e) <=> InRow(m, e)
    BY <1>1 DEF SameEntry, SameSend, InRow, SamePacket
  <2>3. ASSUME NEW who \in Loops
        PROVE  /\ Waits(n, who, e) => Waits(m, who, e)
               /\ OnePlace(m, who, e) => OnePlace(n, who, e)
               /\ Checkpoints(m, who, e) => Checkpoints(n, who, e)
    BY <1>1, <2>2 DEF SameEntry, SameSend, Waits, OnePlace, Checkpoints, SamePacket
  <2> QED BY <2>1, <2>2, <2>3
<1>3. ObjectsOK(n)
  <2> SUFFICES ASSUME NEW e \in Entries
               PROVE  /\ n.obj[e].cancelled => e \in n.cancelled
                      /\ e \in Self => n.obj[e].packet = NoPacket /\ n.flying[e].entry.packet = NoPacket
                      /\ n.obj[e].delivered => e \in Self \/ n.obj[e].status = "saved"
                      /\ e \in n.listed => e \in Self \/ row[e] # NoRow \/ e \in n.cancelled
                      /\ n.obj[e].packet # NoPacket => row[e] # NoRow \/ e \in n.cancelled
                      /\ e \in n.durable => e \in n.cancelled \/ InRow(n, e)
                      /\ e \in n.cleaning => \/ e \in n.cancelled
                                             \/ n.obj[e].packet = NoPacket /\ (e \in Self \/ n.obj[e].delivered)
                      /\ e \in n.removing => e \in n.cancelled
                      /\ offers[e] \in {"new", "putting"} =>
                            /\ e \in n.listed => e \in Self
                            /\ ~Sending(n, e) /\ e \notin n.durable /\ n.obj[e].packet = NoPacket
    BY DEF ObjectsOK
  <2> QED BY <1>1, <1>2 DEF SameEntry, SameSend, MemoryOK, ObjectsOK, Known, Fresh, MayClean
<1>4. RemoteOK(n)
  <2> SUFFICES ASSUME NEW e \in Entries, Sending(n, e)
               PROVE  /\ e \notin Self /\ ~n.obj[e].delivered /\ (e \in n.cancelled => n.remote.aborted)
                      /\ n.obj[e].packet # NoPacket => ~n.obj[e].packet.accepted
                      /\ row[e] # NoRow \/ e \in n.cancelled
                      /\ n.remote.pc \in {"transmitting", "sending", "accepted"} =>
                            e \in n.cancelled \/ (e \in n.durable /\ n.obj[e].packet # NoPacket)
                      /\ n.remote.pc = "dropping" => e \in n.cancelled /\ n.obj[e].packet = NoPacket
                      /\ n.remote.pc = "staging" => Checkpoints(n, "remote", e)
    BY DEF RemoteOK
  <2>1. n.remote.pc = m.remote.pc /\ Sending(m, e) /\ m.remote.entry = e
    BY <1>2 DEF Sending
  <2>2. e \in n.cancelled => n.remote.aborted
    BY <2>1 DEF Mild, SameSending, MemoryOK, RemoteOK, Asleep, Sending
  <2> QED BY <1>1, <1>2, <2>1, <2>2 DEF SameEntry, SameSend, MemoryOK, RemoteOK, Loops
<1>5. WorkerOK(n)
  BY <1>1, <1>2 DEF SameEntry, SameSend, MemoryOK, WorkerOK, Loops
<1>6. WaitsOK(n)
  BY <1>1, <1>2 DEF SameEntry, MemoryOK, WaitsOK, Loops
<1>7. MarksOK(n)
  BY <1>1 DEF SameEntry, SameSend, MemoryOK, MarksOK, ReallyArchived
<1>8. SeedsHeld(n)
  BY <1>1 DEF SameEntry, SameSend, MemoryOK, SeedsHeld, Carries, MayClean
<1>9. /\ n \in Memory /\ (n.closed => "close" \in plan.faults)
      /\ n.remote.pc \notin {"idle", "pass"} => n.remote.entry \in Entries \ Self
      /\ n.local.pc \notin {"idle", "pass"} => n.local.entry \in Entries
      /\ n.worker.pc \notin {"idle", "pass"} => n.worker.entry \in Entries
  BY DEF Mild, SameSending, MemoryOK, Asleep
<1>10. HonestOK(n)
  <2> SUFFICES ASSUME NEW e \in Entries
               PROVE  /\ Right(n.obj[e], e) /\ Right(n.flying[e].entry, e)
                      /\ Kept(n.obj[e], e) /\ (n.flying[e].who # {} => Kept(n.flying[e].entry, e))
                      /\ Sending(n, e) /\ n.remote.pc = "accepted" => <<e, n.obj[e].index>> \in acked
                      /\ e \in n.cleaning => e \in n.cancelled \/ n.obj[e].local
    BY DEF HonestOK
  <2>1. Right(n.obj[e], e)
    BY <1>1, RightStays DEF SameEntry, SavesRightly, MemoryOK, HonestOK
  <2>2. Kept(n.obj[e], e)
    BY <1>1, KeptStays DEF SameEntry, MemoryOK, HonestOK
  <2>3. Sending(n, e) /\ n.remote.pc = "accepted" => <<e, n.obj[e].index>> \in acked
    BY <1>1, <1>2 DEF SameEntry, SameSend, MemoryOK, HonestOK
  <2>4. e \in n.cleaning => e \in n.cancelled \/ n.obj[e].local
    BY <1>1 DEF SameEntry, SameSend, MayClean, MemoryOK, HonestOK
  <2>5. Right(n.flying[e].entry, e) /\ (n.flying[e].who # {} => Kept(n.flying[e].entry, e))
    BY <1>1 DEF SameEntry, MemoryOK, HonestOK
  <2> QED BY <2>1, <2>2, <2>3, <2>4, <2>5
<1>11. CancelOK(n)
  BY <1>1 DEF SameEntry, SameSend, MemoryOK, CancelOK
<1>12. AdmissionOK(n)
  <2> SUFFICES ASSUME NEW e \in Entries
               PROVE  /\ e \in n.unadmitted => e \in n.listed /\ e \notin n.cleaning /\ n.obj[e].status # "saved"
                      /\ Fresh(e) => /\ e \in n.listed \/ Saving(n, e) => e \in n.unadmitted
                                     /\ ~Archiving(n, e) /\ ~Waits(n, "cancel", e) /\ e \notin n.cleaning \cup n.removing
                                     /\ n.flying[e].entry.packet = NoPacket /\ n.obj[e].status # "saved"
    BY DEF AdmissionOK
  <2>1. SameEntry(m, n, e) /\ (Archiving(n, e) <=> Archiving(m, e))
    BY <1>1, <1>2
  <2>2. e \in n.unadmitted => e \in n.listed /\ e \notin n.cleaning /\ n.obj[e].status # "saved"
    BY <2>1 DEF SameEntry, SavesRightly, MayClean, MemoryOK, AdmissionOK
  <2>3. ASSUME Fresh(e)
        PROVE  /\ e \in n.listed \/ Saving(n, e) => e \in n.unadmitted
               /\ e \notin n.cleaning \cup n.removing
               /\ n.flying[e].entry.packet = NoPacket /\ n.obj[e].status # "saved"
    BY <2>1, <2>3 DEF SameEntry, SavesRightly, MayClean, Known, MemoryOK, AdmissionOK
  <2>4. Fresh(e) => ~Waits(n, "cancel", e) /\ ~Archiving(n, e)
    BY <2>1 DEF SameEntry, MemoryOK, AdmissionOK, Waits
  <2> QED BY <2>2, <2>3, <2>4
<1>13. PauseOK(n)
  <2> SUFFICES ASSUME NEW e \in Entries, Sending(n, e)
               PROVE  /\ n.remote.aborted => Ended(n, e)
                      /\ n.remote.pc = "failing" /\ ~n.remote.patient /\ n.remote.cause \in Impatient => Ended(n, e)
    BY DEF PauseOK
  <2>1. Sending(m, e) /\ m.remote.entry = e /\ SameSending(n.remote, m.remote, Ended(n, m.remote.entry))
    BY <1>2 DEF Sending, Mild, Asleep
  <2>2. Ended(m, e) => Ended(n, e)
    BY <1>1 DEF Ended, Mild, SameEntry
  <2> QED BY <2>1, <2>2 DEF SameSending, MemoryOK, PauseOK
<1> QED BY <1>3, <1>4, <1>5, <1>6, <1>7, <1>8, <1>9, <1>10, <1>11, <1>12, <1>13 DEF MemoryOK

(* The fields that tell of packets, writes and removals. *)
Untouched(m, n) ==
    /\ n.obj = m.obj /\ n.queued = m.queued /\ n.flying = m.flying /\ n.resolved = m.resolved
    /\ n.listed = m.listed /\ n.durable = m.durable /\ n.removing = m.removing
    /\ n.cancelled = m.cancelled /\ n.cleaning = m.cleaning /\ n.unadmitted = m.unadmitted

(* pumpLocal goes on with its entry, turns to one it may save, or stops. *)
LocalGoes(m, n) ==
    n.local.pc \notin Asleep =>
        /\ n.local.entry \in Entries
        /\ Saving(m, n.local.entry) \/ Known(m, n.local.entry)

LEMMA UntouchedEntries ==
    ASSUME NEW m, MemoryOK(m), NEW n, Untouched(m, n), LocalGoes(m, n) PROVE \A e \in Entries : SameEntry(m, n, e)
<1> SUFFICES ASSUME NEW e \in Entries PROVE SameEntry(m, n, e)
  OBVIOUS
<1>1. /\ m.obj[e].cancelled => e \in m.cancelled
      /\ e \in m.unadmitted => e \in m.listed
  BY DEF MemoryOK, ObjectsOK, AdmissionOK
<1>2. Saving(n, e) => Saving(m, e) \/ Known(n, e)
  BY DEF LocalGoes, Saving, Known, Asleep, Untouched
<1> QED BY <1>1, <1>2 DEF Untouched, SameEntry, SameSend, SavesRightly, Known

(* How a memory is one that another became by harmless steps. *)
LEMMA Stays == ASSUME NEW m, MemoryOK(m) PROVE Mild(m, m)
<1>1. Untouched(m, m) /\ LocalGoes(m, m)
  BY DEF MemoryOK, Untouched, LocalGoes, Saving, Asleep
<1> QED BY <1>1, UntouchedEntries DEF MemoryOK, Mild, SameSending, Asleep

LEMMA Parts ==
    ASSUME NEW m \in Memory
    PROVE  /\ m.remote \in RemoteLoop /\ m.local \in LocalLoop /\ m.worker \in WorkerLoop
           /\ m.obj \in [Entries -> Entry] /\ m.queued \in [Entries -> SUBSET Writers] /\ m.flying \in [Entries -> Snapshot]
BY DEF Memory

(* Loops move, and what the invariant is not about changes. *)
RemoteGoes(m, n) ==
    \/ n.remote.pc \in Asleep /\ m.remote.pc \in Asleep
    \/ SameSending(n.remote, m.remote, Ended(m, m.remote.entry))
WorkerGoes(m, n) ==
    \/ n.worker.pc \in Asleep /\ m.worker.pc \in Asleep
    \/ n.worker.pc = m.worker.pc /\ n.worker.entry = m.worker.entry

LEMMA LoopsMove ==
    ASSUME NEW m, MemoryOK(m), NEW n, n \in Memory, Untouched(m, n), n.closed = m.closed,
           RemoteGoes(m, n), WorkerGoes(m, n), LocalGoes(m, n)
    PROVE  Mild(m, n)
<1>1. /\ m.remote.entry \in n.cancelled => m.remote.entry \in m.cancelled
      /\ Ended(m, m.remote.entry) <=> Ended(n, m.remote.entry)
  BY DEF Untouched, Ended
<1>2. \A e \in Entries : SameEntry(m, n, e)
  BY UntouchedEntries
<1>3. n.local.pc \notin Asleep => n.local.entry \in Entries
  BY DEF LocalGoes
<1> QED BY <1>1, <1>2, <1>3 DEF Mild, RemoteGoes, WorkerGoes, SameSending

LEMMA RemoteMoves ==
    ASSUME NEW m, MemoryOK(m), NEW x \in RemoteLoop,
           \/ x.pc \in Asleep /\ m.remote.pc \in Asleep
           \/ SameSending(x, m.remote, Ended(m, m.remote.entry))
    PROVE  Mild(m, [m EXCEPT !.remote = x])
<1>1. m \in Memory /\ LocalGoes(m, m)
  BY DEF MemoryOK, LocalGoes, Saving, Asleep
<1>2. ASSUME NEW n, n = [m EXCEPT !.remote = x] PROVE Mild(m, n)
  <2>1. /\ n \in Memory /\ Untouched(m, n) /\ n.remote = x
        /\ n.closed = m.closed /\ n.local = m.local /\ n.worker = m.worker
    BY <1>1, <1>2 DEF Memory, Untouched
  <2>2. RemoteGoes(m, n) /\ WorkerGoes(m, n) /\ LocalGoes(m, n)
    BY <1>1, <2>1 DEF RemoteGoes, WorkerGoes, LocalGoes
  <2> QED BY <1>1, <2>1, <2>2, LoopsMove
<1> QED BY <1>2

LEMMA LocalMoves ==
    ASSUME NEW m, MemoryOK(m), NEW x \in LocalLoop,
           x.pc \notin Asleep => x.entry \in Entries /\ (Saving(m, x.entry) \/ Known(m, x.entry))
    PROVE  Mild(m, [m EXCEPT !.local = x])
<1>1. m \in Memory
  BY DEF MemoryOK
<1>2. ASSUME NEW n, n = [m EXCEPT !.local = x] PROVE Mild(m, n)
  <2>1. /\ n \in Memory /\ Untouched(m, n) /\ n.local = x
        /\ n.closed = m.closed /\ n.remote = m.remote /\ n.worker = m.worker
    BY <1>1, <1>2 DEF Memory, Untouched
  <2>2. RemoteGoes(m, n) /\ WorkerGoes(m, n) /\ LocalGoes(m, n)
    BY <2>1 DEF RemoteGoes, WorkerGoes, SameSending, LocalGoes
  <2> QED BY <1>1, <2>1, <2>2, LoopsMove
<1> QED BY <1>2

LEMMA WorkerMoves ==
    ASSUME NEW m, MemoryOK(m), NEW x \in WorkerLoop,
           \/ x.pc \in Asleep /\ m.worker.pc \in Asleep
           \/ x.pc = m.worker.pc /\ x.entry = m.worker.entry
    PROVE  Mild(m, [m EXCEPT !.worker = x])
<1>1. m \in Memory /\ LocalGoes(m, m)
  BY DEF MemoryOK, LocalGoes, Saving, Asleep
<1>2. ASSUME NEW n, n = [m EXCEPT !.worker = x] PROVE Mild(m, n)
  <2>1. /\ n \in Memory /\ Untouched(m, n) /\ n.worker = x
        /\ n.closed = m.closed /\ n.remote = m.remote /\ n.local = m.local
    BY <1>1, <1>2 DEF Memory, Untouched
  <2>2. RemoteGoes(m, n) /\ WorkerGoes(m, n) /\ LocalGoes(m, n)
    BY <1>1, <2>1 DEF RemoteGoes, WorkerGoes, SameSending, LocalGoes
  <2> QED BY <1>1, <2>1, <2>2, LoopsMove
<1> QED BY <1>2

(* Timers, lists of what waits and flags. *)
LEMMA OtherwiseStays ==
    ASSUME NEW m, MemoryOK(m), NEW n, n \in Memory, Untouched(m, n), n.closed = m.closed,
           n.remote = m.remote, n.local = m.local, n.worker = m.worker
    PROVE  Mild(m, n)
<1>1. LocalGoes(m, n)
  BY DEF MemoryOK, LocalGoes, Saving, Asleep
<1>2. RemoteGoes(m, n) /\ WorkerGoes(m, n)
  BY DEF RemoteGoes, WorkerGoes, SameSending
<1> QED BY <1>1, <1>2, LoopsMove

LEMMA PumpsMildly ==
    ASSUME NEW m, MemoryOK(m)
    PROVE  Mild(m, PumpRemote(m)) /\ Mild(m, PumpLocal(m)) /\ Mild(m, Wake(m))
<1>0. m \in Memory /\ m.remote \in RemoteLoop /\ m.local \in LocalLoop /\ m.worker \in WorkerLoop
  BY Parts DEF MemoryOK
<1>1. Mild(m, PumpRemote(m))
  <2>1. ASSUME m.remote.pc = "idle" PROVE Mild(m, [m EXCEPT !.remote.pc = "pass"])
    <3> DEFINE x == [m.remote EXCEPT !.pc = "pass"]
    <3>1. x \in RemoteLoop /\ x.pc = "pass"
      BY <1>0 DEF RemoteLoop, RemoteStages
    <3>2. [m EXCEPT !.remote.pc = "pass"] = [m EXCEPT !.remote = x]
      OBVIOUS
    <3> QED BY <2>1, <3>1, <3>2, RemoteMoves DEF Asleep
  <2>2. Mild(m, [m EXCEPT !.remote.again = TRUE])
    <3> DEFINE x == [m.remote EXCEPT !.again = TRUE]
    <3>1. x \in RemoteLoop /\ SameSending(x, m.remote, FALSE)
      BY <1>0 DEF RemoteLoop, SameSending
    <3>2. [m EXCEPT !.remote.again = TRUE] = [m EXCEPT !.remote = x]
      OBVIOUS
    <3> HIDE DEF x
    <3> QED BY <3>1, <3>2, RemoteMoves DEF SameSending
  <2> QED BY <2>1, <2>2, Stays DEF PumpRemote
<1>2. Mild(m, PumpLocal(m))
  <2>1. ASSUME m.local.pc = "idle" PROVE Mild(m, [m EXCEPT !.local.pc = "pass"])
    <3> DEFINE x == [m.local EXCEPT !.pc = "pass"]
    <3>1. x \in LocalLoop /\ x.pc = "pass"
      BY <1>0 DEF LocalLoop
    <3>2. [m EXCEPT !.local.pc = "pass"] = [m EXCEPT !.local = x]
      OBVIOUS
    <3> QED BY <2>1, <3>1, <3>2, LocalMoves DEF Asleep
  <2>2. Mild(m, [m EXCEPT !.local.again = TRUE])
    <3> DEFINE x == [m.local EXCEPT !.again = TRUE]
    <3>1. x \in LocalLoop /\ x.pc = m.local.pc /\ x.entry = m.local.entry
      BY <1>0 DEF LocalLoop
    <3>2. [m EXCEPT !.local.again = TRUE] = [m EXCEPT !.local = x]
      OBVIOUS
    <3>3. x.pc \notin Asleep => x.entry \in Entries /\ Saving(m, x.entry)
      BY <3>1 DEF MemoryOK, Saving, Asleep
    <3> QED BY <3>1, <3>2, <3>3, LocalMoves
  <2> QED BY <2>1, <2>2, Stays DEF PumpLocal
<1>3. Mild(m, Wake(m))
  <2>1. ASSUME m.worker.pc = "idle" PROVE Mild(m, [m EXCEPT !.worker.pc = "pass"])
    <3> DEFINE x == [m.worker EXCEPT !.pc = "pass"]
    <3>1. x \in WorkerLoop /\ x.pc = "pass"
      BY <1>0 DEF WorkerLoop
    <3>2. [m EXCEPT !.worker.pc = "pass"] = [m EXCEPT !.worker = x]
      OBVIOUS
    <3> QED BY <2>1, <3>1, <3>2, WorkerMoves DEF Asleep
  <2> QED BY <2>1, Stays DEF Wake
<1> QED BY <1>1, <1>2, <1>3

LEMMA TimersMildly ==
    ASSUME NEW m, MemoryOK(m)
    PROVE  Mild(m, ScheduleSendRetry(m)) /\ Mild(m, RetryLater(m)) /\ Mild(m, ResetWhenNothingPends(m))
<1>1. m \in Memory
  BY DEF MemoryOK
<1>2. ASSUME NEW b \in BOOLEAN PROVE Mild(m, [m EXCEPT !.sendTimer = b]) /\ Mild(m, [m EXCEPT !.journalTimer = b])
  <2>1. /\ [m EXCEPT !.sendTimer = b] \in Memory /\ Untouched(m, [m EXCEPT !.sendTimer = b])
        /\ [m EXCEPT !.journalTimer = b] \in Memory /\ Untouched(m, [m EXCEPT !.journalTimer = b])
    BY <1>1 DEF Memory, Untouched
  <2>2. ASSUME NEW n \in {[m EXCEPT !.sendTimer = b], [m EXCEPT !.journalTimer = b]}
        PROVE  n.closed = m.closed /\ n.remote = m.remote /\ n.local = m.local /\ n.worker = m.worker
    BY <1>1 DEF Memory
  <2> QED BY <2>1, <2>2, OtherwiseStays
<1> QED BY <1>2, Stays DEF ScheduleSendRetry, RetryLater, ResetWhenNothingPends

LEMMA PumpMildly == ASSUME NEW m, MemoryOK(m) PROVE Mild(m, Pump(m))
BY PumpsMildly, MildKeeps, MildAgain DEF Pump

(* What is left alone when only objects, cancels and cleanups change. *)
RestUntouched(m, n) ==
    /\ n.queued = m.queued /\ n.flying = m.flying /\ n.resolved = m.resolved
    /\ n.listed = m.listed /\ n.durable = m.durable /\ n.removing = m.removing
    /\ n.unadmitted = m.unadmitted /\ n.local = m.local
(* What an entry may become without a word to its row. *)
MayBecome(m, e, x) ==
    /\ SameSend(x, m.obj[e]) /\ (x.cancelled => e \in m.cancelled)
    /\ x.status = m.obj[e].status \/ e \in Self \/ ~m.obj[e].delivered
    /\ SavesRightly(x, m.obj[e], e, m.unadmitted)

LEMMA RestStays ==
    ASSUME NEW m, MemoryOK(m), NEW n, RestUntouched(m, n), NEW e \in Entries, MayBecome(m, e, n.obj[e]),
           e \in m.cancelled => e \in n.cancelled,
           e \in n.cleaning => e \in m.cleaning \/ MayClean(m, n, e)
    PROVE  SameEntry(m, n, e)
<1>1. e \in m.unadmitted => e \in m.listed
  BY DEF MemoryOK, AdmissionOK
<1> QED BY <1>1 DEF RestUntouched, SameEntry, MayBecome, Known, Saving

LEMMA SameObject == ASSUME NEW m, MemoryOK(m), NEW e \in Entries PROVE MayBecome(m, e, m.obj[e])
BY DEF MemoryOK, ObjectsOK, MayBecome, SameSend, SavesRightly

(* One entry changes, but for its packet. *)
LEMMA EntryMoves ==
    ASSUME NEW m, MemoryOK(m), NEW e \in Entries, NEW x \in Entry, MayBecome(m, e, x)
    PROVE  Mild(m, [m EXCEPT !.obj[e] = x])
<1>1. m \in Memory /\ (m.local.pc \notin Asleep => m.local.entry \in Entries) /\ m.obj \in [Entries -> Entry]
  BY Parts DEF MemoryOK, Asleep
<1>2. ASSUME NEW n, n = [m EXCEPT !.obj[e] = x] PROVE Mild(m, n)
  <2>1. [m.obj EXCEPT ![e] = x] \in [Entries -> Entry]
    BY <1>1
  <2>2. n = [m EXCEPT !.obj = [m.obj EXCEPT ![e] = x]]
    BY <1>2
  <2>3. /\ n \in Memory /\ n.obj = [m.obj EXCEPT ![e] = x]
        /\ n.queued = m.queued /\ n.flying = m.flying /\ n.resolved = m.resolved
        /\ n.listed = m.listed /\ n.durable = m.durable /\ n.removing = m.removing
        /\ n.cancelled = m.cancelled /\ n.cleaning = m.cleaning
        /\ n.closed = m.closed /\ n.local = m.local /\ n.remote = m.remote /\ n.worker = m.worker
        /\ n.unadmitted = m.unadmitted
    BY <1>1, <2>1, <2>2 DEF Memory
  <2>4. n.obj[e] = x /\ \A f \in Entries \ {e} : n.obj[f] = m.obj[f]
    BY <1>1, <2>3
  <2>5. ASSUME NEW f \in Entries PROVE SameEntry(m, n, f)
    <3>1. MayBecome(m, f, n.obj[f])
      BY <2>4, SameObject
    <3>2. RestUntouched(m, n)
      BY <2>3 DEF RestUntouched
    <3> QED BY <2>3, <3>1, <3>2, RestStays
  <2> QED BY <1>1, <2>3, <2>5 DEF Mild, SameSending
<1> QED BY <1>2

(* The send of some entries is aborted. *)
LEMMA AbortsMildly ==
    ASSUME NEW m, MemoryOK(m), NEW es, \A e \in es : Ended(m, e) PROVE Mild(m, Abort(m, es))
<1>1. m.remote \in RemoteLoop
  BY Parts DEF MemoryOK
<1>2. ASSUME m.remote.entry \in es PROVE Mild(m, [m EXCEPT !.remote.aborted = TRUE])
  <2> DEFINE x == [m.remote EXCEPT !.aborted = TRUE]
  <2>1. x \in RemoteLoop /\ SameSending(x, m.remote, TRUE)
    BY <1>1 DEF RemoteLoop, SameSending
  <2>2. [m EXCEPT !.remote.aborted = TRUE] = [m EXCEPT !.remote = x]
    OBVIOUS
  <2> HIDE DEF x
  <2> QED BY <1>2, <2>1, <2>2, RemoteMoves DEF SameSending
<1> QED BY <1>2, Stays DEF Abort

(* Entries are cancelled, and the send of them is aborted. *)
LEMMA CancelsMildly ==
    ASSUME NEW m, MemoryOK(m), NEW e \in Entries, NEW n, n = Abort([m EXCEPT !.cancelled = @ \cup {e}], {e})
    PROVE  Mild(m, n) /\ e \in n.cancelled /\ n.obj = m.obj
<1>1. m \in Memory /\ (m.local.pc \notin Asleep => m.local.entry \in Entries) /\ m.remote \in RemoteLoop
  BY Parts DEF MemoryOK, Asleep
<1>2. PICK b \in BOOLEAN : /\ n = [m EXCEPT !.cancelled = @ \cup {e}, !.remote = [m.remote EXCEPT !.aborted = b]]
                           /\ b = (m.remote.aborted \/ (m.remote.pc \notin Asleep /\ m.remote.entry = e))
  <2> DEFINE c == [m EXCEPT !.cancelled = @ \cup {e}]
  <2>1. c \in Memory /\ c.remote = m.remote
    BY <1>1 DEF Memory
  <2>2. CASE m.remote.pc \notin Asleep /\ m.remote.entry = e
    <3>1. n = [c EXCEPT !.remote.aborted = TRUE]
      BY <2>1, <2>2 DEF Abort, Asleep
    <3>2. n = [m EXCEPT !.cancelled = @ \cup {e}, !.remote = [m.remote EXCEPT !.aborted = TRUE]]
      BY <1>1, <3>1 DEF Memory
    <3> QED BY <2>2, <3>2
  <2>3. CASE ~(m.remote.pc \notin Asleep /\ m.remote.entry = e)
    <3>1. n = c
      BY <2>1, <2>3 DEF Abort, Asleep
    <3>2. m.remote = [m.remote EXCEPT !.aborted = m.remote.aborted] /\ m.remote.aborted \in BOOLEAN
      BY <1>1 DEF RemoteLoop
    <3>3. n = [m EXCEPT !.cancelled = @ \cup {e}, !.remote = [m.remote EXCEPT !.aborted = m.remote.aborted]]
      BY <1>1, <3>1, <3>2 DEF Memory
    <3> QED BY <2>3, <3>2, <3>3
  <2> QED BY <2>2, <2>3
<1>3. PICK x \in RemoteLoop : x = [m.remote EXCEPT !.aborted = b]
  BY <1>1 DEF RemoteLoop
<1>0. PICK y \in SUBSET Entries : n = [m EXCEPT !.cancelled = y, !.remote = x] /\ y = m.cancelled \cup {e}
  <2>1. m.cancelled \cup {e} \in SUBSET Entries
    BY <1>1 DEF Memory
  <2> QED BY <1>2, <1>3, <2>1
<1>4. /\ n \in Memory /\ n.cancelled = y /\ n.remote = x
      /\ n.obj = m.obj /\ n.queued = m.queued /\ n.flying = m.flying /\ n.resolved = m.resolved
      /\ n.listed = m.listed /\ n.durable = m.durable /\ n.removing = m.removing /\ n.cleaning = m.cleaning
      /\ n.closed = m.closed /\ n.local = m.local /\ n.worker = m.worker /\ n.unadmitted = m.unadmitted
  BY <1>1, <1>0, ZenonT(40) DEF Memory
<1>5. /\ n.remote.pc = m.remote.pc /\ n.remote.entry = m.remote.entry /\ n.remote.aborted = b
      /\ n.remote.cause = m.remote.cause /\ n.remote.patient = m.remote.patient
  BY <1>1, <1>3, <1>4 DEF RemoteLoop
<1>6. ASSUME NEW f \in Entries PROVE SameEntry(m, n, f)
  <2>1. MayBecome(m, f, n.obj[f])
    BY <1>4, SameObject
  <2>2. RestUntouched(m, n)
    BY <1>4 DEF RestUntouched
  <2> QED BY <1>0, <1>4, <2>1, <2>2, RestStays
<1>7. \/ n.remote.pc \in Asleep /\ m.remote.pc \in Asleep
      \/ /\ SameSending(n.remote, m.remote, Ended(n, m.remote.entry))
         /\ m.remote.entry \in n.cancelled => n.remote.aborted \/ m.remote.entry \in m.cancelled
  BY <1>0, <1>2, <1>4, <1>5 DEF SameSending, Ended
<1> QED BY <1>0, <1>1, <1>4, <1>5, <1>6, <1>7 DEF Mild

LEMMA CleansMildly ==
    ASSUME NEW m, MemoryOK(m), NEW es \in SUBSET Entries, \A e \in es : Known(m, e)
    PROVE  Mild(m, CleanupEntries(m, es))
<1>1. m \in Memory /\ (m.local.pc \notin Asleep => m.local.entry \in Entries)
  BY DEF MemoryOK, Asleep
<1>2. ASSUME NEW n, n = [m EXCEPT !.cleaning = @ \cup {e \in es : CleansUp(m, e)}] PROVE Mild(m, n) /\ Mild(m, Wake(n))
  <2>1. \A e \in es : CleansUp(m, e) => MayClean(m, m, e)
    BY DEF CleansUp, Completed, MemoryOK, ObjectsOK, MayClean, Known
  <2>2. /\ n \in Memory /\ n.cleaning = m.cleaning \cup {e \in es : CleansUp(m, e)}
        /\ n.obj = m.obj /\ n.queued = m.queued /\ n.flying = m.flying /\ n.resolved = m.resolved
        /\ n.listed = m.listed /\ n.durable = m.durable /\ n.removing = m.removing /\ n.cancelled = m.cancelled
        /\ n.closed = m.closed /\ n.local = m.local /\ n.worker = m.worker /\ n.remote = m.remote
        /\ n.unadmitted = m.unadmitted
    BY <1>1, <1>2 DEF Memory
  <2>3. ASSUME NEW f \in Entries PROVE SameEntry(m, n, f)
    <3>1. MayBecome(m, f, n.obj[f])
      BY <2>2, SameObject
    <3>2. RestUntouched(m, n)
      BY <2>2 DEF RestUntouched
    <3>3. MayClean(m, m, f) => MayClean(m, n, f)
      BY <2>2 DEF MayClean
    <3> QED BY <2>1, <2>2, <3>1, <3>2, <3>3, RestStays
  <2>4. Mild(m, n)
    BY <1>1, <2>2, <2>3 DEF Mild, SameSending
  <2> QED BY <2>4, PumpsMildly, MildKeeps, MildAgain
<1> QED BY <1>2 DEF CleanupEntries

(* The fields a change does not name, of a memory that has them. *)
LEMMA TakesMildly == ASSUME NEW m, MemoryOK(m), NEW r PROVE Mild(m, [m EXCEPT !.resolved = @ \ r])
<1>1. m \in Memory /\ (m.local.pc \notin Asleep => m.local.entry \in Entries)
  BY DEF MemoryOK, Asleep
<1>2. ASSUME NEW n, n = [m EXCEPT !.resolved = @ \ r] PROVE Mild(m, n)
  <2>1. /\ n \in Memory /\ n.resolved = m.resolved \ r
        /\ n.obj = m.obj /\ n.queued = m.queued /\ n.flying = m.flying /\ n.cleaning = m.cleaning
        /\ n.listed = m.listed /\ n.durable = m.durable /\ n.removing = m.removing /\ n.cancelled = m.cancelled
        /\ n.closed = m.closed /\ n.local = m.local /\ n.worker = m.worker /\ n.remote = m.remote
        /\ n.unadmitted = m.unadmitted
    BY <1>1, <1>2 DEF Memory
  <2>2. ASSUME NEW f \in Entries PROVE SameEntry(m, n, f)
    <3>1. /\ m.obj[f].cancelled => f \in m.cancelled
          /\ f \in m.unadmitted => f \in m.listed
      BY DEF MemoryOK, ObjectsOK, AdmissionOK
    <3> QED BY <2>1, <3>1 DEF SameEntry, SameSend, SavesRightly, Known, Saving
  <2> QED BY <1>1, <2>1, <2>2 DEF Mild, SameSending
<1> QED BY <1>2

LEMMA WritesMildly ==
    ASSUME NEW m, MemoryOK(m), NEW e \in Entries, NEW who \in Writers \ Loops,
           who = "cancel" => m.obj[e].cancelled /\ ~Fresh(e)
    PROVE  Mild(m, WriteEntry(m, e, who))
<1>1. m \in Memory /\ (m.local.pc \notin Asleep => m.local.entry \in Entries) /\ m.queued \in [Entries -> SUBSET Writers]
  BY Parts DEF MemoryOK, Asleep
<1>2. PICK q \in [Entries -> SUBSET Writers] : q = [m.queued EXCEPT ![e] = @ \cup {who}]
  BY <1>1
<1>3. ASSUME NEW n, n = WriteEntry(m, e, who) PROVE Mild(m, n)
  <2>0. n = [m EXCEPT !.queued = q]
    BY <1>2, <1>3 DEF WriteEntry
  <2>1. /\ n \in Memory /\ n.queued = q
        /\ n.obj = m.obj /\ n.resolved = m.resolved /\ n.flying = m.flying /\ n.cleaning = m.cleaning
        /\ n.listed = m.listed /\ n.durable = m.durable /\ n.removing = m.removing /\ n.cancelled = m.cancelled
        /\ n.closed = m.closed /\ n.local = m.local /\ n.worker = m.worker /\ n.remote = m.remote
        /\ n.unadmitted = m.unadmitted
    BY <1>1, <2>0 DEF Memory
  <2>2. ASSUME NEW f \in Entries PROVE SameEntry(m, n, f)
    <3>1. /\ m.obj[f].cancelled => f \in m.cancelled
          /\ f \in m.unadmitted => f \in m.listed
      BY DEF MemoryOK, ObjectsOK, AdmissionOK
    <3>2. /\ \A loop \in Loops : loop \in q[f] <=> loop \in m.queued[f]
          /\ "cancel" \in q[f] => "cancel" \in m.queued[f] \/ (m.obj[f].cancelled /\ ~Fresh(f))
      BY <1>1, <1>2
    <3> QED BY <2>1, <3>1, <3>2 DEF SameEntry, SameSend, SavesRightly, Known, Saving
  <2> QED BY <1>1, <2>1, <2>2 DEF Mild, SameSending
<1> QED BY <1>3

LEMMA JournalRetriesMildly == ASSUME NEW m, MemoryOK(m) PROVE Mild(m, JournalRetry(m))
<1> DEFINE n == [m EXCEPT !.unarchived = {}, !.journalTimer = FALSE]
<1>1. m \in Memory
  BY DEF MemoryOK
<1>2. /\ n \in Memory /\ Untouched(m, n) /\ n.closed = m.closed /\ n.remote = m.remote
      /\ n.local = m.local /\ n.worker = m.worker
  BY <1>1 DEF Memory, Untouched
<1> HIDE DEF n
<1>3. Mild(m, n)
  BY <1>2, OtherwiseStays
<1> QED BY <1>3, PumpsMildly, MildKeeps, MildAgain DEF JournalRetry, n

(* The passes end. *)
LEMMA LocalPassEndsMildly == ASSUME NEW m, MemoryOK(m), m.local.pc = "pass" PROVE Mild(m, LocalPassEnds(m))
<1>1. m.local \in LocalLoop
  BY Parts DEF MemoryOK
<1>2. PICK x \in LocalLoop : x = (IF m.local.again THEN [m.local EXCEPT !.again = FALSE, !.visited = {}] ELSE IdleLocal) /\ x.pc \in Asleep
  <2> DEFINE y == [m.local EXCEPT !.again = FALSE, !.visited = {}]
  <2>1. y \in LocalLoop
    BY <1>1 DEF LocalLoop
  <2>2. y.pc \in Asleep
    BY <1>1 DEF LocalLoop, Asleep
  <2>3. IdleLocal \in LocalLoop /\ IdleLocal.pc \in Asleep
    BY DEF LocalLoop, IdleLocal, Asleep
  <2> HIDE DEF y
  <2>4. CASE m.local.again
    BY <2>1, <2>2, <2>4 DEF y
  <2>5. CASE ~m.local.again
    BY <2>3, <2>5
  <2> QED BY <2>4, <2>5
<1>3. Mild(m, [m EXCEPT !.local = x])
  BY <1>2, LocalMoves
<1>4. Mild(m, ScheduleSendRetry([m EXCEPT !.local = x]))
  BY <1>3, TimersMildly, MildKeeps, MildAgain
<1>5. LocalPassEnds(m) \in {[m EXCEPT !.local = x], ScheduleSendRetry([m EXCEPT !.local = x])}
  BY <1>2, Zenon DEF LocalPassEnds
<1> QED BY <1>3, <1>4, <1>5

LEMMA RemotePassEndsMildly == ASSUME NEW m, MemoryOK(m), m.remote.pc = "pass" PROVE Mild(m, RemotePassEnds(m))
<1>1. m.remote \in RemoteLoop /\ 0 \in Nat /\ "none" \in Causes
  BY Parts DEF MemoryOK, Causes
<1>2. PICK x \in RemoteLoop : x = [m.remote EXCEPT !.again = FALSE, !.visited = {}] /\ x.pc \in Asleep
  <2> DEFINE y == [m.remote EXCEPT !.again = FALSE, !.visited = {}]
  <2>1. y \in RemoteLoop
    BY <1>1 DEF RemoteLoop
  <2>2. y.pc \in Asleep
    BY <1>1 DEF RemoteLoop, Asleep
  <2> QED BY <2>1, <2>2
<1>3. IdleRemote \in RemoteLoop /\ IdleRemote.pc \in Asleep
  BY <1>1 DEF RemoteLoop, IdleRemote, RemoteStages, Asleep
<1>4. m.remote.pc \in Asleep
  BY DEF Asleep
<1>5. Mild(m, [m EXCEPT !.remote = x]) /\ Mild(m, [m EXCEPT !.remote = IdleRemote])
  BY <1>2, <1>3, <1>4, RemoteMoves
<1>6. Mild(m, ResetWhenNothingPends([m EXCEPT !.remote = IdleRemote]))
  BY <1>5, TimersMildly, MildKeeps, MildAgain
<1>7. [m EXCEPT !.remote.again = FALSE, !.remote.visited = {}] = [m EXCEPT !.remote = x]
  <2>1. m \in Memory
    BY DEF MemoryOK
  <2> QED BY <1>2, <2>1 DEF Memory
<1> QED BY <1>5, <1>6, <1>7 DEF RemotePassEnds

LEMMA WorkerPassEndsMildly == ASSUME NEW m, MemoryOK(m), m.worker.pc = "pass" PROVE Mild(m, WorkerPassEnds(m))
<1>1. IdleWorker \in WorkerLoop /\ IdleWorker.pc \in Asleep /\ m.worker.pc \in Asleep
  BY DEF WorkerLoop, IdleWorker, Asleep
<1>2. Mild(m, [m EXCEPT !.worker = IdleWorker])
  BY <1>1, WorkerMoves
<1>3. Mild(m, Wake([m EXCEPT !.worker = IdleWorker]))
  BY <1>2, PumpsMildly, MildKeeps, MildAgain
<1> QED BY <1>2, <1>3 DEF WorkerPassEnds

(* pumpLocal *)
LEMMA Records ==
    ASSUME NEW m, MemoryOK(m), NEW e \in Entries
    PROVE  /\ m \in Memory /\ m.obj[e] \in Entry
           /\ m.remote \in RemoteLoop /\ m.local \in LocalLoop /\ m.worker \in WorkerLoop
           /\ m.obj[e].cancelled => e \in m.cancelled
BY Parts DEF MemoryOK, ObjectsOK

(* What a loop works on is in its first row, or unadmitted. *)
LEMMA WorkedOn ==
    ASSUME NEW m, MemoryOK(m), NEW e \in Entries,
           e \in m.listed \/ Saving(m, e) \/ Sending(m, e) \/ Archiving(m, e)
    PROVE  Known(m, e)
BY DEF MemoryOK, AdmissionOK, ObjectsOK, Known, Fresh

LEMMA KnownStays == ASSUME NEW m, NEW n, Mild(m, n), NEW e \in Entries, Known(m, e) PROVE Known(n, e)
BY DEF Mild, SameEntry, Known

LEMMA LoopRecords ==
    /\ \A x \in LocalLoop, e \in Nat, pc \in {"pass", "checking"} :
          LET y == [x EXCEPT !.pc = pc, !.entry = e] IN y \in LocalLoop /\ y.pc = pc /\ y.entry = e
    /\ \A x \in LocalLoop, pc \in {"saving", "failing", "writing"} :
          LET y == [x EXCEPT !.pc = pc] IN y \in LocalLoop /\ y.pc = pc /\ y.entry = x.entry
BY DEF LocalLoop

LEMMA VisitsMildly ==
    ASSUME NEW m, MemoryOK(m), NEW s \in SUBSET Entries
    PROVE  /\ Mild(m, [m EXCEPT !.local.visited = s])
           /\ Mild(m, [m EXCEPT !.remote.visited = s])
           /\ Mild(m, [m EXCEPT !.worker.visited = s])
<1>1. m.remote \in RemoteLoop /\ m.local \in LocalLoop /\ m.worker \in WorkerLoop
  BY Parts DEF MemoryOK
<1>2. m.local.pc \notin Asleep => m.local.entry \in Entries /\ Saving(m, m.local.entry)
  BY DEF MemoryOK, Saving, Asleep
<1>3. PICK x \in LocalLoop : x = [m.local EXCEPT !.visited = s] /\ x.pc = m.local.pc /\ x.entry = m.local.entry
  <2> DEFINE z == [m.local EXCEPT !.visited = s]
  <2>1. z \in LocalLoop /\ z.pc = m.local.pc /\ z.entry = m.local.entry
    BY <1>1 DEF LocalLoop
  <2> HIDE DEF z
  <2>2. z = [m.local EXCEPT !.visited = s]
    BY DEF z
  <2> QED BY <2>1, <2>2
<1>4. PICK y \in RemoteLoop : y = [m.remote EXCEPT !.visited = s] /\ SameSending(y, m.remote, FALSE)
  <2> DEFINE z == [m.remote EXCEPT !.visited = s]
  <2>1. z \in RemoteLoop /\ SameSending(z, m.remote, FALSE)
    BY <1>1 DEF RemoteLoop, SameSending
  <2> HIDE DEF z
  <2>2. z = [m.remote EXCEPT !.visited = s]
    BY DEF z
  <2> QED BY <2>1, <2>2
<1>5. PICK z \in WorkerLoop : z = [m.worker EXCEPT !.visited = s] /\ z.pc = m.worker.pc /\ z.entry = m.worker.entry
  <2> DEFINE z == [m.worker EXCEPT !.visited = s]
  <2>1. z \in WorkerLoop /\ z.pc = m.worker.pc /\ z.entry = m.worker.entry
    BY <1>1 DEF WorkerLoop
  <2> HIDE DEF z
  <2>2. z = [m.worker EXCEPT !.visited = s]
    BY DEF z
  <2> QED BY <2>1, <2>2
<1>6. Mild(m, [m EXCEPT !.remote.visited = s])
  BY <1>4, RemoteMoves DEF SameSending
<1> QED BY <1>2, <1>3, <1>5, <1>6, LocalMoves, WorkerMoves

LEMMA BeginsSavesMildly ==
    ASSUME NEW m, MemoryOK(m), NEW e \in Entries, Known(m, e) PROVE Mild(m, BeginSave(m, e))
<1> DEFINE status == IF e \in Self \ m.unadmitted THEN "pending" ELSE m.obj[e].status
<1>1. /\ m \in Memory /\ m.obj[e] \in Entry /\ m.local \in LocalLoop /\ (m.obj[e].cancelled => e \in m.cancelled)
      /\ e \in Nat
  BY Records, EntriesAssumption
<1>2. status \in Statuses
  BY <1>1 DEF Entry, Statuses
<1>3. PICK x \in Entry : x = [m.obj[e] EXCEPT !.status = status]
  BY <1>1, <1>2 DEF Entry
<1>4. MayBecome(m, e, x)
  BY <1>1, <1>3 DEF Entry, MayBecome, SameSend, SavesRightly
<1>5. PICK y \in LocalLoop : y = [m.local EXCEPT !.pc = "checking", !.entry = e] /\ y.entry = e
  <2> DEFINE z == [m.local EXCEPT !.pc = "checking", !.entry = e]
  <2>1. z \in LocalLoop /\ z.entry = e
    BY <1>1, LoopRecords
  <2> HIDE DEF z
  <2>2. z = [m.local EXCEPT !.pc = "checking", !.entry = e]
    BY DEF z
  <2> QED BY <2>1, <2>2
<1>6. Mild(m, [m EXCEPT !.obj[e] = x])
  BY <1>1, <1>4, EntryMoves
<1>7. Known([m EXCEPT !.obj[e] = x], e)
  BY <1>6, KnownStays
<1>8. Mild(m, [[m EXCEPT !.obj[e] = x] EXCEPT !.local = y])
  BY <1>5, <1>6, <1>7, LocalMoves, MildKeeps, MildAgain
<1>9. BeginSave(m, e) = [[m EXCEPT !.obj[e] = x] EXCEPT !.local = y]
  BY <1>1, <1>3, <1>5 DEF BeginSave, Memory
<1> QED BY <1>8, <1>9

LEMMA SaveEndsMildly ==
    ASSUME NEW m, MemoryOK(m), NEW e \in Entries PROVE Mild(m, SaveEnds(m, e))
<1>1. m \in Memory /\ m.local \in LocalLoop
  BY Records
<1>2. PICK y \in LocalLoop : y = [m.local EXCEPT !.pc = "pass", !.entry = 0] /\ y.pc = "pass"
  <2> DEFINE z == [m.local EXCEPT !.pc = "pass", !.entry = 0]
  <2>1. z \in LocalLoop /\ z.pc = "pass"
    BY <1>1, LoopRecords
  <2> HIDE DEF z
  <2>2. z = [m.local EXCEPT !.pc = "pass", !.entry = 0]
    BY DEF z
  <2> QED BY <2>1, <2>2
<1>3. Mild(m, [m EXCEPT !.local = y])
  BY <1>2, LocalMoves DEF Asleep
<1>4. ASSUME NEW n, n = [m EXCEPT !.local = y] PROVE Mild(n, [n EXCEPT !.retries = @ \ {e}])
  <2>1. MemoryOK(n) /\ n \in Memory
    BY <1>3, <1>4, MildKeeps DEF MemoryOK
  <2>2. ASSUME NEW p, p = [n EXCEPT !.retries = @ \ {e}]
        PROVE  /\ p \in Memory /\ Untouched(n, p) /\ p.closed = n.closed /\ p.remote = n.remote
               /\ p.local = n.local /\ p.worker = n.worker
    BY <2>1, <2>2 DEF Memory, Untouched
  <2> QED BY <2>1, <2>2, OtherwiseStays
<1>5. [m EXCEPT !.local.pc = "pass", !.local.entry = 0, !.retries = @ \ {e}] = [[m EXCEPT !.local = y] EXCEPT !.retries = @ \ {e}]
  BY <1>1, <1>2 DEF Memory
<1>6. Mild(m, [m EXCEPT !.local.pc = "pass", !.local.entry = 0, !.retries = @ \ {e}])
  BY <1>3, <1>4, <1>5, MildAgain
<1> QED BY <1>6, PumpsMildly, MildKeeps, MildAgain DEF SaveEnds

LEMMA ChecksMildly == ASSUME NEW m, MemoryOK(m), NEW e \in Entries PROVE Mild(m, Checked(m, e))
BY CancelsMildly, Stays DEF Checked

(* An entry changes, and the local loop moves on with it. *)
LEMMA EntryAndLoop ==
    ASSUME NEW m, MemoryOK(m), NEW e \in Entries, NEW x \in Entry, m.local.entry = e, Known(m, e), MayBecome(m, e, x),
           NEW pc \in {"saving", "failing", "writing"}
    PROVE  Mild(m, [m EXCEPT !.local.pc = pc, !.obj[e] = x])
<1>1. m \in Memory /\ m.local \in LocalLoop
  BY Records
<1>2. PICK y \in LocalLoop : y = [m.local EXCEPT !.pc = pc] /\ y.entry = m.local.entry
  <2> DEFINE z == [m.local EXCEPT !.pc = pc]
  <2>1. z \in LocalLoop /\ z.entry = m.local.entry
    BY <1>1 DEF LocalLoop
  <2> QED BY <2>1
<1>3. Mild(m, [m EXCEPT !.obj[e] = x])
  BY EntryMoves
<1>4. Mild(m, [[m EXCEPT !.obj[e] = x] EXCEPT !.local = y])
  BY <1>2, <1>3, KnownStays, LocalMoves, MildKeeps, MildAgain
<1>5. [m EXCEPT !.local.pc = pc, !.obj[e] = x] = [[m EXCEPT !.obj[e] = x] EXCEPT !.local = y]
  BY <1>1, <1>2 DEF Memory
<1> QED BY <1>4, <1>5

LEMMA CancelledSaveEndsMildly ==
    ASSUME NEW m, MemoryOK(m), NEW e \in Entries, e \in m.cancelled, Known(m, e)
    PROVE  /\ Mild(m, [m EXCEPT !.obj[e].cancelled = TRUE])
           /\ Mild(m, SaveEnds(CleanupEntries([m EXCEPT !.obj[e].cancelled = TRUE], {e}), e))
<1>1. m \in Memory /\ m.obj[e] \in Entry
  BY Records
<1>2. Mild(m, [m EXCEPT !.obj[e].cancelled = TRUE])
  <2> DEFINE x == [m.obj[e] EXCEPT !.cancelled = TRUE]
  <2>1. x \in Entry /\ MayBecome(m, e, x)
    BY <1>1 DEF Entry, MayBecome, SameSend, SavesRightly
  <2>2. [m EXCEPT !.obj[e].cancelled = TRUE] = [m EXCEPT !.obj[e] = x]
    OBVIOUS
  <2> HIDE DEF x
  <2> QED BY <2>1, <2>2, EntryMoves
<1>3. ASSUME NEW n, Mild(m, n) PROVE Mild(m, SaveEnds(CleanupEntries(n, {e}), e))
  <2>1. Mild(m, CleanupEntries(n, {e}))
    BY <1>3, KnownStays, CleansMildly, MildKeeps, MildAgain
  <2> QED BY <2>1, SaveEndsMildly, MildKeeps, MildAgain
<1> QED BY <1>2, <1>3

LEMMA SaveFailsMildly ==
    ASSUME NEW m, MemoryOK(m), NEW e \in Entries, m.local.entry = e, Known(m, e), NEW cause
    PROVE  Mild(m, SaveFails(m, e, cause))
<1>1. m \in Memory /\ m.obj[e] \in Entry /\ (m.obj[e].cancelled => e \in m.cancelled) /\ (cause # "denied") \in BOOLEAN
  BY Records
<1> DEFINE c == cause # "denied"
           x == [m.obj[e] EXCEPT !.localFailed = TRUE, !.localRetryable = c]
           noted == [m EXCEPT !.obj[e].localFailed = TRUE, !.obj[e].localRetryable = c]
<1>2. x \in Entry /\ MayBecome(m, e, x)
  BY <1>1 DEF Entry, MayBecome, SameSend, SavesRightly
<1>3. noted = [m EXCEPT !.obj[e] = x]
  BY <1>1, ZenonT(40) DEF Memory
<1>4. Mild(m, noted)
  <2> HIDE DEF x, noted
  <2> QED BY <1>1, <1>2, <1>3, EntryMoves
<1>5. noted.obj[e] = x /\ noted.local = m.local
  BY <1>1, <1>3 DEF Memory
<1>6. CASE e \in m.cancelled /\ e \notin m.discarded
  <2>1. ASSUME NEW n, n = Abort(m, {e}) PROVE Mild(m, SaveEnds(CleanupEntries([n EXCEPT !.obj[e].cancelled = TRUE], {e}), e))
    <3>1. Mild(m, n) /\ e \in n.cancelled /\ Known(n, e)
      BY <1>6, <2>1, AbortsMildly, KnownStays DEF Mild, SameEntry, Ended
    <3> QED BY <3>1, CancelledSaveEndsMildly, MildKeeps, MildAgain
  <2> QED BY <1>6, <2>1 DEF SaveFails
<1>7. CASE e \in m.discarded \/ (e \notin m.cancelled /\ ~Running(m))
  BY <1>7, SaveEndsMildly, Zenon DEF SaveFails
<1>8. CASE e \notin m.discarded /\ e \notin m.cancelled /\ Running(m) /\ e \in m.unadmitted
  <2>1. SaveFails(m, e, cause) = SaveEnds(noted, e)
    BY <1>8, Zenon DEF SaveFails
  <2> HIDE DEF noted
  <2> QED BY <1>4, <2>1, SaveEndsMildly, MildKeeps, MildAgain
<1>9. CASE e \notin m.discarded /\ e \notin m.cancelled /\ Running(m) /\ e \notin m.unadmitted
  <2> DEFINE entry == IF e \in Self THEN [x EXCEPT !.status = "error", !.retryable = c] ELSE x
             n == [noted EXCEPT !.local.pc = "failing", !.obj[e] = entry]
  <2>1. /\ entry \in Entry /\ SameSend(entry, x) /\ entry.cancelled = x.cancelled
        /\ entry = x \/ (e \in Self /\ entry.status = "error")
    <3>1. LET y == [x EXCEPT !.status = "error", !.retryable = c]
          IN  y \in Entry /\ SameSend(y, x) /\ y.cancelled = x.cancelled /\ y.status = "error"
      <4>1. ASSUME NEW z \in Entry, NEW d \in BOOLEAN
            PROVE  LET y == [z EXCEPT !.status = "error", !.retryable = d]
                   IN  y \in Entry /\ SameSend(y, z) /\ y.cancelled = z.cancelled /\ y.status = "error"
        BY DEF Entry, Statuses, SameSend
      <4> HIDE DEF x
      <4> QED BY <1>2, <4>1
    <3>2. SameSend(x, x)
      BY DEF SameSend
    <3> HIDE DEF x
    <3> QED BY <1>2, <3>1, <3>2
  <2>2. SaveFails(m, e, cause) = WriteEntry(n, e, "local")
    BY <1>5, <1>9, ZenonT(40) DEF SaveFails
  <2>3. MemoryOK(noted) /\ noted.local.entry = e /\ (noted.obj[e].cancelled => e \in noted.cancelled)
    BY <1>4, <1>5, MildKeeps, Records
  <2> HIDE DEF entry, noted, x
  <2>4. Mild(noted, n)
    <3>1. MayBecome(noted, e, entry)
      BY <1>5, <2>1, <2>3 DEF MayBecome, SavesRightly
    <3>2. Known(noted, e)
      BY <1>4, KnownStays
    <3> QED BY <1>5, <2>1, <2>3, <3>1, <3>2, EntryAndLoop
  <2>5. "local" \in Writers \ Loops
    BY DEF Writers, Loops
  <2> HIDE DEF n
  <2>6. Mild(m, n)
    BY <1>4, <2>4, MildAgain
  <2> QED BY <2>2, <2>5, <2>6, WritesMildly, MildKeeps, MildAgain
<1> QED BY <1>6, <1>7, <1>8, <1>9

LEMMA SaveSucceedsMildly ==
    ASSUME NEW m, MemoryOK(m), NEW e \in Entries, m.local.entry = e, Known(m, e), m.obj[e].local
    PROVE  Mild(m, SaveSucceeds(m, e))
<1>1. m \in Memory /\ m.obj[e] \in Entry /\ (m.obj[e].cancelled => e \in m.cancelled)
  BY Records
<1> DEFINE status == IF e \in Self \ m.unadmitted THEN "saved" ELSE m.obj[e].status
           x == [m.obj[e] EXCEPT !.localFailed = FALSE, !.status = status]
           kept == [m EXCEPT !.obj[e].localFailed = FALSE, !.obj[e].status = status]
<1>2. status \in Statuses
  BY <1>1 DEF Entry, Statuses
<1>3. x \in Entry /\ MayBecome(m, e, x)
  BY <1>1, <1>2 DEF Entry, MayBecome, SameSend, SavesRightly, Known
<1>4. kept = [m EXCEPT !.obj[e] = x]
  <2> HIDE DEF status
  <2> QED BY <1>1, ZenonT(40) DEF Memory
<1>5. Mild(m, kept)
  <2> HIDE DEF x, kept
  <2> QED BY <1>1, <1>3, <1>4, EntryMoves
<1>6. kept.obj[e] = x /\ kept.local = m.local
  BY <1>1, <1>4 DEF Memory
<1>7. ASSUME NEW n, n = [kept EXCEPT !.local.pc = "writing"] PROVE Mild(m, WriteEntry(n, e, "local"))
  <2> HIDE DEF kept, x
  <2>1. MemoryOK(kept) /\ kept.local.entry = e /\ (kept.obj[e].cancelled => e \in kept.cancelled) /\ kept \in Memory
    BY <1>5, <1>6, MildKeeps, Records
  <2>2. [kept EXCEPT !.local.pc = "writing"] = [kept EXCEPT !.local.pc = "writing", !.obj[e] = kept.obj[e]]
    BY <2>1 DEF Memory
  <2>3. Mild(kept, n)
    <3>1. kept.obj[e] \in Entry /\ MayBecome(kept, e, kept.obj[e]) /\ Known(kept, e)
      BY <1>3, <1>5, <1>6, <2>1, SameObject, KnownStays
    <3>2. Mild(kept, [kept EXCEPT !.local.pc = "writing", !.obj[e] = kept.obj[e]])
      BY <2>1, <3>1, EntryAndLoop
    <3> QED BY <1>7, <2>2, <3>2
  <2>4. "local" \in Writers \ Loops
    BY DEF Writers, Loops
  <2> QED BY <1>5, <2>3, <2>4, WritesMildly, MildKeeps, MildAgain
<1>8. SaveSucceeds(m, e) \in {SaveEnds(kept, e), SaveEnds(CleanupEntries(kept, {e}), e),
                              WriteEntry([kept EXCEPT !.local.pc = "writing"], e, "local")}
  BY Zenon DEF SaveSucceeds
<1> HIDE DEF kept
<1>9. Mild(m, CleanupEntries(kept, {e}))
  BY <1>5, KnownStays, CleansMildly, MildKeeps, MildAgain
<1> QED BY <1>5, <1>7, <1>8, <1>9, SaveEndsMildly, MildKeeps, MildAgain

(* Failures of entries are put off, or taken back. *)
LEMMA ObjectsMove ==
    ASSUME NEW m, MemoryOK(m), NEW n, n \in Memory, RestUntouched(m, n),
           n.cancelled = m.cancelled, n.cleaning = m.cleaning, n.closed = m.closed,
           n.remote = m.remote, n.worker = m.worker,
           \A e \in Entries : /\ SameSend(n.obj[e], m.obj[e]) /\ n.obj[e].status = m.obj[e].status
                              /\ n.obj[e].cancelled = m.obj[e].cancelled
    PROVE  Mild(m, n)
<1>1. n.local.pc \notin Asleep => n.local.entry \in Entries
  BY DEF MemoryOK, Asleep, RestUntouched
<1>2. ASSUME NEW e \in Entries PROVE SameEntry(m, n, e)
  <2>1. MayBecome(m, e, n.obj[e])
    BY DEF MemoryOK, ObjectsOK, MayBecome, SavesRightly
  <2> QED BY <2>1, RestStays
<1> QED BY <1>1, <1>2 DEF Mild, SameSending

LEMMA FreedObjects ==
    ASSUME NEW m, m \in Memory, NEW S
    PROVE  LET objs == [e \in Entries |-> IF e \in S THEN [m.obj[e] EXCEPT !.failed = FALSE] ELSE m.obj[e]]
           IN  /\ objs \in [Entries -> Entry]
               /\ \A e \in Entries : /\ SameSend(objs[e], m.obj[e]) /\ objs[e].status = m.obj[e].status
                                     /\ objs[e].cancelled = m.obj[e].cancelled
<1>1. m.obj \in [Entries -> Entry]
  BY Parts
<1>2. ASSUME NEW e \in Entries
      PROVE  LET x == [m.obj[e] EXCEPT !.failed = FALSE]
             IN  /\ x \in Entry /\ SameSend(x, m.obj[e]) /\ x.status = m.obj[e].status
                 /\ x.cancelled = m.obj[e].cancelled
  <2>1. m.obj[e] \in Entry
    BY <1>1
  <2> QED BY <2>1 DEF Entry, SameSend
<1>3. \A e \in Entries : SameSend(m.obj[e], m.obj[e])
  BY DEF SameSend
<1> QED BY <1>1, <1>2, <1>3

LEMMA StateChangesMildly == ASSUME NEW m, MemoryOK(m) PROVE Mild(m, StateChanged(m))
<1>1. m \in Memory
  BY DEF MemoryOK
<1> DEFINE failing == {e \in m.listed \ Self : m.obj[e].failed /\ m.obj[e].status = "pending"}
           parked == [m EXCEPT !.parked = @ \cup failing]
           objs == [e \in Entries |-> IF e \in m.parked THEN [m.obj[e] EXCEPT !.failed = FALSE] ELSE m.obj[e]]
           freed == [m EXCEPT !.sendTimer = FALSE, !.parked = {}, !.obj = objs]
<1>2. Mild(m, parked) /\ Mild(m, [parked EXCEPT !.sendTimer = FALSE])
  <2>1. failing \subseteq Entries
    BY <1>1 DEF Memory
  <2> HIDE DEF failing
  <2>2. ASSUME NEW n, n \in {parked, [parked EXCEPT !.sendTimer = FALSE]}
        PROVE  /\ n \in Memory /\ Untouched(m, n) /\ n.closed = m.closed
               /\ n.remote = m.remote /\ n.local = m.local /\ n.worker = m.worker
    <3>1. CASE n = parked
      BY <1>1, <2>1, <3>1 DEF Memory, Untouched
    <3>2. CASE n = [parked EXCEPT !.sendTimer = FALSE]
      BY <1>1, <2>1, <3>2 DEF Memory, Untouched
    <3> QED BY <2>2, <3>1, <3>2
  <2> HIDE DEF parked
  <2> QED BY <2>2, OtherwiseStays
<1>3. Mild(m, freed)
  <2>1. /\ objs \in [Entries -> Entry]
        /\ \A e \in Entries : /\ SameSend(objs[e], m.obj[e]) /\ objs[e].status = m.obj[e].status
                              /\ objs[e].cancelled = m.obj[e].cancelled
    BY <1>1, FreedObjects
  <2> HIDE DEF objs
  <2>2. /\ freed \in Memory /\ freed.obj = objs /\ RestUntouched(m, freed)
        /\ freed.cancelled = m.cancelled /\ freed.cleaning = m.cleaning /\ freed.closed = m.closed
        /\ freed.remote = m.remote /\ freed.local = m.local /\ freed.worker = m.worker
    BY <1>1, <2>1 DEF Memory, RestUntouched
  <2> HIDE DEF freed
  <2> QED BY <2>1, <2>2, ObjectsMove
<1>4. StateChanged(m) \in {m, parked, [parked EXCEPT !.sendTimer = FALSE], Pump(freed), Pump(ScheduleSendRetry(freed))}
  BY Zenon DEF StateChanged
<1> HIDE DEF parked, freed
<1>5. Mild(m, Pump(freed)) /\ Mild(m, Pump(ScheduleSendRetry(freed)))
  BY <1>3, TimersMildly, PumpMildly, MildKeeps, MildAgain
<1> QED BY <1>2, <1>4, <1>5, Stays

LEMMA PausesMildly ==
    ASSUME NEW m, MemoryOK(m), NEW reason \in {"network", "signer", "closed"} PROVE Mild(m, Paused(m, reason))
<1>1. m \in Memory /\ m.remote \in RemoteLoop /\ m.pauses \cup {reason} \in SUBSET {"network", "signer", "closed"}
  BY Parts DEF MemoryOK, Memory
<1>2. ASSUME NEW b \in BOOLEAN, NEW n, n = [m EXCEPT !.pauses = @ \cup {reason}, !.remote.paused = b] PROVE Mild(m, n)
  <2>1. PICK x \in RemoteLoop : x = [m.remote EXCEPT !.paused = b] /\ SameSending(x, m.remote, FALSE)
    <3> DEFINE z == [m.remote EXCEPT !.paused = b]
    <3>1. z \in RemoteLoop /\ SameSending(z, m.remote, FALSE)
      BY <1>1 DEF RemoteLoop, SameSending
    <3> HIDE DEF z
    <3> QED BY <3>1 DEF z
  <2>2. PICK y \in SUBSET {"network", "signer", "closed"} : y = m.pauses \cup {reason}
    BY <1>1
  <2>3. n = [m EXCEPT !.pauses = y, !.remote = x]
    BY <1>1, <1>2, <2>1, <2>2 DEF Memory
  <2>4. /\ n \in Memory /\ Untouched(m, n) /\ n.closed = m.closed /\ n.remote = x
        /\ n.local = m.local /\ n.worker = m.worker
    BY <1>1, <2>3 DEF Memory, Untouched
  <2>5. RemoteGoes(m, n) /\ WorkerGoes(m, n) /\ LocalGoes(m, n)
    BY <2>1, <2>4 DEF RemoteGoes, WorkerGoes, SameSending, LocalGoes, Saving, MemoryOK, Asleep
  <2> QED BY <2>4, <2>5, LoopsMove
<1> DEFINE b == m.remote.paused \/ m.remote.pc \in {"preparing", "staging", "transmitting", "sending"}
<1>3. b \in BOOLEAN
  BY <1>1 DEF RemoteLoop
<1>4. Paused(m, reason) \in {m, StateChanged([m EXCEPT !.pauses = @ \cup {reason}, !.remote.paused = b])}
  BY Zenon DEF Paused
<1> HIDE DEF b
<1>5. Mild(m, StateChanged([m EXCEPT !.pauses = @ \cup {reason}, !.remote.paused = b]))
  BY <1>2, <1>3, StateChangesMildly, MildKeeps, MildAgain
<1> QED BY <1>4, <1>5, Stays

LEMMA DiscardsMildly == ASSUME NEW m, MemoryOK(m), NEW e \in Entries, ~Fresh(e) PROVE Mild(m, Discard(m, e))
<1>1. m \in Memory /\ (m.local.pc \notin Asleep => m.local.entry \in Entries)
  BY DEF MemoryOK, Asleep
<1>2. ASSUME NEW n, e \in Self,
             n = [m EXCEPT !.discarded = @ \cup {e}, !.unadmitted = @ \ {e}, !.listed = @ \ {e}]
      PROVE  Mild(m, n)
  <2>0. PICK d \in SUBSET Self, u \in SUBSET Self, l \in SUBSET Entries :
            n = [m EXCEPT !.discarded = d, !.unadmitted = u, !.listed = l] /\ l = m.listed \ {e} /\ u = m.unadmitted \ {e}
    <3>1. /\ m.discarded \cup {e} \in SUBSET Self /\ m.unadmitted \ {e} \in SUBSET Self
          /\ m.listed \ {e} \in SUBSET Entries
      BY <1>1, <1>2 DEF Memory
    <3> QED BY <1>2, <3>1
  <2>1. /\ n \in Memory /\ n.listed = l /\ n.unadmitted = u
        /\ n.obj = m.obj /\ n.queued = m.queued /\ n.flying = m.flying /\ n.cleaning = m.cleaning
        /\ n.resolved = m.resolved /\ n.durable = m.durable /\ n.removing = m.removing /\ n.cancelled = m.cancelled
        /\ n.closed = m.closed /\ n.local = m.local /\ n.worker = m.worker /\ n.remote = m.remote
    BY <1>1, <2>0 DEF Memory
  <2>2. ASSUME NEW f \in Entries PROVE SameEntry(m, n, f)
    <3>1. /\ m.obj[f].cancelled => f \in m.cancelled
          /\ f \in m.unadmitted => f \in m.listed
      BY DEF MemoryOK, ObjectsOK, AdmissionOK
    <3> QED BY <1>2, <2>0, <2>1, <3>1 DEF SameEntry, SameSend, SavesRightly, Known, Saving
  <2> QED BY <1>1, <2>1, <2>2 DEF Mild, SameSending
<1> QED BY <1>2, Stays DEF Discard

(* The books of the invariant, in a memory that another with the same cancels, lists, *)
(* snapshots and finished writes becomes.                                            *)
SameBooks(m, n) ==
    /\ n.flying = m.flying /\ n.resolved = m.resolved /\ n.cancelled = m.cancelled /\ n.listed = m.listed
    /\ n.unadmitted = m.unadmitted /\ n.cleaning = m.cleaning /\ n.removing = m.removing /\ n.local = m.local
    /\ \A e \in Entries : "cancel" \in n.queued[e] => "cancel" \in m.queued[e]

LEMMA BooksStay ==
    ASSUME NEW m, MemoryOK(m), NEW n, SameBooks(m, n),
           \A e \in Entries :
               /\ Right(n.obj[e], e) /\ Kept(n.obj[e], e)
               /\ Sending(n, e) /\ n.remote.pc = "accepted" => <<e, n.obj[e].index>> \in acked
               /\ Archiving(n, e) => Archiving(m, e) \/ ~Fresh(e)
               /\ n.obj[e].cancelled = m.obj[e].cancelled /\ n.obj[e].local = m.obj[e].local
               /\ n.obj[e].status = "saved" => m.obj[e].status = "saved" \/ (~Fresh(e) /\ e \notin m.unadmitted)
    PROVE  HonestOK(n) /\ CancelOK(n) /\ AdmissionOK(n)
<1>1. HonestOK(n)
  BY DEF SameBooks, MemoryOK, HonestOK
<1>2. CancelOK(n)
  BY DEF SameBooks, MemoryOK, CancelOK
<1>3. AdmissionOK(n)
  <2> SUFFICES ASSUME NEW e \in Entries
               PROVE  /\ e \in n.unadmitted => e \in n.listed /\ e \notin n.cleaning /\ n.obj[e].status # "saved"
                      /\ Fresh(e) => /\ e \in n.listed \/ Saving(n, e) => e \in n.unadmitted
                                     /\ ~Archiving(n, e) /\ ~Waits(n, "cancel", e) /\ e \notin n.cleaning \cup n.removing
                                     /\ n.flying[e].entry.packet = NoPacket /\ n.obj[e].status # "saved"
    BY DEF AdmissionOK
  <2>1. Waits(n, "cancel", e) => Waits(m, "cancel", e)
    BY DEF SameBooks, Waits
  <2> QED BY <2>1 DEF SameBooks, MemoryOK, AdmissionOK, Saving
<1> QED BY <1>1, <1>2, <1>3

LEMMA ObjectBooks ==
    ASSUME NEW m, MemoryOK(m), NEW e \in Entries
    PROVE  /\ Right(m.obj[e], e) /\ Kept(m.obj[e], e)
           /\ Sending(m, e) /\ m.remote.pc = "accepted" => <<e, m.obj[e].index>> \in acked
BY DEF MemoryOK, HonestOK

(* They say as much of what the stores become: more stored, more acknowledged, rows gone. *)
BooksOK(m) == HonestOK(m) /\ CancelOK(m) /\ AdmissionOK(m) /\ PauseOK(m)
Later ==
    /\ PlanKept /\ stored \subseteq stored' /\ acked \subseteq acked' /\ archived \subseteq archived'
    /\ \A e \in Entries : Fresh(e)' => Fresh(e)

LEMMA BooksLater ==
    ASSUME NEW m, BooksOK(m), UNCHANGED sent, Later, \A e \in Entries : row'[e] \in {row[e], NoRow}
    PROVE  BooksOK(m)'
<1>1. HonestOK(m)'
  <2> SUFFICES ASSUME NEW e \in Entries
               PROVE  /\ Right(m.obj[e], e)' /\ Right(m.flying[e].entry, e)'
                      /\ Kept(m.obj[e], e)' /\ (m.flying[e].who # {} => Kept(m.flying[e].entry, e)')
                      /\ Sending(m, e) /\ m.remote.pc = "accepted" => <<e, m.obj[e].index>> \in acked'
                      /\ e \in m.cleaning => e \in m.cancelled \/ m.obj[e].local
    BY DEF HonestOK, Sending
  <2>1. /\ Right(m.obj[e], e) /\ Right(m.flying[e].entry, e)
        /\ Kept(m.obj[e], e) /\ (m.flying[e].who # {} => Kept(m.flying[e].entry, e))
        /\ Sending(m, e) /\ m.remote.pc = "accepted" => <<e, m.obj[e].index>> \in acked
        /\ e \in m.cleaning => e \in m.cancelled \/ m.obj[e].local
    BY DEF BooksOK, HonestOK
  <2>2. Right(m.obj[e], e)' /\ Right(m.flying[e].entry, e)'
    BY <2>1 DEF Right, Later
  <2>3. Kept(m.obj[e], e)' /\ (m.flying[e].who # {} => Kept(m.flying[e].entry, e)')
    BY <2>1 DEF Kept
  <2> QED BY <2>1, <2>2, <2>3 DEF Later
<1>2. CancelOK(m)'
  BY DEF BooksOK, CancelOK
<1>3. AdmissionOK(m)'
  BY DEF BooksOK, AdmissionOK, Later, Saving, Archiving, Waits
<1>4. PauseOK(m)'
  BY DEF BooksOK, PauseOK, Later, PlanKept, Sending, Ended
<1> QED BY <1>1, <1>2, <1>3, <1>4 DEF BooksOK

--------------------------------------------------------------------------------
(* What touches a packet.  A send moves when none of its writes is awaited. *)
NoWait(m, who) == \A e \in Entries : ~Waits(m, who, e)

(* What pumpRemote may be at, with the entry x.entry. *)
MayBeAt(m, x) ==
    LET e == x.entry
    IN  /\ e \in Entries \ Self /\ (Sending(m, e) \/ e \in m.listed)
        /\ ~m.obj[e].delivered /\ (e \in m.cancelled => x.aborted)
        /\ m.obj[e].packet # NoPacket => ~m.obj[e].packet.accepted
        /\ x.pc \in {"transmitting", "sending", "accepted"} =>
              e \in m.cancelled \/ (e \in m.durable /\ m.obj[e].packet # NoPacket)
        /\ x.pc = "dropping" => e \in m.cancelled /\ m.obj[e].packet = NoPacket
        /\ x.pc = "staging" => e \in m.cancelled \/ m.obj[e].packet # NoPacket
        /\ x.pc = "accepted" => <<e, m.obj[e].index>> \in acked
        /\ x.aborted => Ended(m, e)
        /\ x.pc = "failing" /\ ~x.patient /\ x.cause \in Impatient => Ended(m, e)

LEMMA RemoteSteps ==
    ASSUME NEW m, MemoryOK(m), NEW x, x \in RemoteLoop, NoWait(m, "remote"), x.pc \notin Asleep => MayBeAt(m, x)
    PROVE  MemoryOK([m EXCEPT !.remote = x])
<1>0. m \in Memory
  BY DEF MemoryOK
<1>1. SUFFICES ASSUME NEW n, n = [m EXCEPT !.remote = x] PROVE MemoryOK(n)
  OBVIOUS
<1>2. /\ n \in Memory /\ n.remote = x
      /\ n.obj = m.obj /\ n.queued = m.queued /\ n.flying = m.flying /\ n.cleaning = m.cleaning
      /\ n.resolved = m.resolved /\ n.durable = m.durable /\ n.removing = m.removing /\ n.cancelled = m.cancelled
      /\ n.closed = m.closed /\ n.local = m.local /\ n.worker = m.worker /\ n.listed = m.listed /\ n.unadmitted = m.unadmitted
  BY <1>0, <1>1 DEF Memory
<1>3. ASSUME NEW e \in Entries
      PROVE  /\ Archiving(n, e) <=> Archiving(m, e)
             /\ InRow(n, e) <=> InRow(m, e)
             /\ Sending(n, e) => MayBeAt(m, x) /\ x.entry = e
             /\ \A who \in Loops : /\ Waits(n, who, e) <=> Waits(m, who, e)
                                   /\ OnePlace(n, who, e) <=> OnePlace(m, who, e)
                                   /\ Checkpoints(n, who, e) <=> Checkpoints(m, who, e)
             /\ ~Waits(m, "remote", e)
  BY <1>2 DEF Archiving, InRow, Sending, Waits, OnePlace, Checkpoints, NoWait, Asleep
<1>4. ASSUME NEW e \in Entries, Sending(n, e)
      PROVE  /\ e \notin Self /\ ~n.obj[e].delivered /\ (e \in n.cancelled => n.remote.aborted)
             /\ n.obj[e].packet # NoPacket => ~n.obj[e].packet.accepted
             /\ row[e] # NoRow \/ e \in n.cancelled
             /\ n.remote.pc \in {"transmitting", "sending", "accepted"} =>
                   e \in n.cancelled \/ (e \in n.durable /\ n.obj[e].packet # NoPacket)
             /\ n.remote.pc = "dropping" => e \in n.cancelled /\ n.obj[e].packet = NoPacket
             /\ n.remote.pc = "staging" => Checkpoints(n, "remote", e)
             /\ offers[e] \notin {"new", "putting"}
  <2>1. MayBeAt(m, x) /\ x.entry = e /\ ~Waits(m, "remote", e)
    BY <1>3, <1>4
  <2>2. row[e] # NoRow \/ e \in m.cancelled
    BY <2>1 DEF MayBeAt, MemoryOK, ObjectsOK, RemoteOK
  <2>3. x.pc = "staging" => Checkpoints(n, "remote", e)
    BY <1>2, <2>1 DEF MayBeAt, Checkpoints, Waits
  <2>4. offers[e] \notin {"new", "putting"}
    BY <2>1 DEF MayBeAt, MemoryOK, ObjectsOK
  <2> QED BY <1>2, <2>1, <2>2, <2>3, <2>4 DEF MayBeAt
<1>5. ObjectsOK(n)
  BY <1>2, <1>3, <1>4 DEF MemoryOK, ObjectsOK
<1>6. RemoteOK(n)
  BY <1>4 DEF RemoteOK
<1>7. WorkerOK(n)
  BY <1>2, <1>3 DEF MemoryOK, WorkerOK, Loops
<1>8. WaitsOK(n)
  BY <1>2, <1>3 DEF MemoryOK, WaitsOK, Loops
<1>9. MarksOK(n) /\ SeedsHeld(n)
  BY <1>2 DEF MemoryOK, MarksOK, SeedsHeld
<1>10. /\ n.remote.pc \notin {"idle", "pass"} => n.remote.entry \in Entries \ Self
       /\ n.local.pc \notin {"idle", "pass"} => n.local.entry \in Entries
       /\ n.worker.pc \notin {"idle", "pass"} => n.worker.entry \in Entries
       /\ n.closed => "close" \in plan.faults
  BY <1>2 DEF MemoryOK, Asleep, MayBeAt
<1>11. HonestOK(n) /\ CancelOK(n) /\ AdmissionOK(n)
  <2>1. SameBooks(m, n)
    BY <1>2 DEF SameBooks
  <2>2. ASSUME NEW e \in Entries
        PROVE  /\ Right(n.obj[e], e) /\ Kept(n.obj[e], e)
               /\ Sending(n, e) /\ n.remote.pc = "accepted" => <<e, n.obj[e].index>> \in acked
               /\ Archiving(n, e) => Archiving(m, e)
    BY <1>2, <1>3, ObjectBooks DEF MayBeAt
  <2> QED BY <1>2, <2>1, <2>2, BooksStay
<1>12. PauseOK(n)
  <2>1. ASSUME NEW e \in Entries, Sending(n, e)
        PROVE  /\ n.remote.aborted => Ended(n, e)
               /\ n.remote.pc = "failing" /\ ~n.remote.patient /\ n.remote.cause \in Impatient => Ended(n, e)
    <3>1. MayBeAt(m, x) /\ x.entry = e
      BY <1>3, <2>1
    <3>2. Ended(m, e) <=> Ended(n, e)
      BY <1>2 DEF Ended
    <3> QED BY <1>2, <3>1, <3>2 DEF MayBeAt
  <2> QED BY <2>1 DEF PauseOK
<1> QED BY <1>2, <1>5, <1>6, <1>7, <1>8, <1>9, <1>10, <1>11, <1>12 DEF MemoryOK

LEMMA SendEndsKeeps == ASSUME NEW m, MemoryOK(m), NoWait(m, "remote") PROVE MemoryOK(SendEnds(m))
<1> DEFINE x == [IdleRemote EXCEPT !.pc = "pass", !.visited = m.remote.visited, !.again = m.remote.again]
<1>1. m.remote \in RemoteLoop /\ 0 \in Nat
  BY Parts DEF MemoryOK
<1>2. IdleRemote \in RemoteLoop
  BY DEF RemoteLoop, IdleRemote, RemoteStages, Causes
<1>3. x \in RemoteLoop /\ x.pc = "pass"
  BY <1>1, <1>2 DEF RemoteLoop, RemoteStages
<1> HIDE DEF x
<1>4. MemoryOK([m EXCEPT !.remote = x])
  BY <1>3, RemoteSteps DEF Asleep
<1> QED BY <1>4, Zenon DEF SendEnds, x

(* The loop who waits for the write it asks for. *)
LEMMA LoopWrites ==
    ASSUME NEW m, MemoryOK(m), NEW e \in Entries, NEW who \in Loops, ~Waits(m, who, e),
           \/ who = "remote" /\ Sending(m, e) /\ m.remote.pc \in {"staging", "failing", "cancelling"}
           \/ who = "worker" /\ Archiving(m, e) /\ m.worker.pc \in {"checkpoint", "forgetting"}
    PROVE  MemoryOK(WriteEntry(m, e, who))
<1>0. m \in Memory /\ m.queued \in [Entries -> SUBSET Writers] /\ who \in Writers
  BY Parts DEF MemoryOK, Loops, Writers
<1>1. SUFFICES ASSUME NEW n, n = WriteEntry(m, e, who) PROVE MemoryOK(n)
  OBVIOUS
<1>2. PICK q \in [Entries -> SUBSET Writers] : q = [m.queued EXCEPT ![e] = @ \cup {who}]
  BY <1>0
<1>3. /\ n \in Memory /\ n.queued = q
      /\ n.obj = m.obj /\ n.remote = m.remote /\ n.flying = m.flying /\ n.cleaning = m.cleaning
      /\ n.resolved = m.resolved /\ n.durable = m.durable /\ n.removing = m.removing /\ n.cancelled = m.cancelled
      /\ n.closed = m.closed /\ n.local = m.local /\ n.worker = m.worker /\ n.listed = m.listed /\ n.unadmitted = m.unadmitted
  <2>1. n = [m EXCEPT !.queued = q]
    BY <1>1, <1>2 DEF WriteEntry
  <2> QED BY <1>0, <2>1 DEF Memory
<1>4. ASSUME NEW f \in Entries, NEW by \in Loops
      PROVE  /\ Sending(n, f) <=> Sending(m, f)
             /\ Archiving(n, f) <=> Archiving(m, f)
             /\ InRow(n, f) <=> InRow(m, f)
             /\ Checkpoints(n, by, f) <=> Checkpoints(m, by, f)
             /\ Waits(n, by, f) => Waits(m, by, f) \/ (f = e /\ by = who)
             /\ OnePlace(m, by, f) => OnePlace(n, by, f)
  <2>1. /\ Sending(n, f) <=> Sending(m, f)
        /\ Archiving(n, f) <=> Archiving(m, f)
        /\ InRow(n, f) <=> InRow(m, f)
        /\ Checkpoints(n, by, f) <=> Checkpoints(m, by, f)
    BY <1>3 DEF Sending, Archiving, InRow, Checkpoints
  <2>2. by \in n.queued[f] => by \in m.queued[f] \/ (f = e /\ by = who)
    BY <1>0, <1>2, <1>3
  <2>3. Waits(n, by, f) => Waits(m, by, f) \/ (f = e /\ by = who)
    BY <1>3, <2>2 DEF Waits
  <2>4. OnePlace(m, by, f) => OnePlace(n, by, f)
    BY <1>3, <2>2 DEF OnePlace, Waits
  <2> QED BY <2>1, <2>3, <2>4
<1>5. ObjectsOK(n) /\ RemoteOK(n) /\ WorkerOK(n)
  BY <1>3, <1>4 DEF MemoryOK, ObjectsOK, RemoteOK, WorkerOK, Loops
<1>6. WaitsOK(n)
  BY <1>3, <1>4 DEF MemoryOK, WaitsOK, Loops
<1>7. MarksOK(n) /\ SeedsHeld(n)
  BY <1>3 DEF MemoryOK, MarksOK, SeedsHeld
<1>8. HonestOK(n) /\ CancelOK(n) /\ AdmissionOK(n)
  <2>1. \A f \in Entries : "cancel" \in n.queued[f] => "cancel" \in m.queued[f]
    BY <1>0, <1>2, <1>3 DEF Loops
  <2>2. SameBooks(m, n)
    BY <1>3, <2>1 DEF SameBooks
  <2>3. \A f \in Entries : (Sending(n, f) <=> Sending(m, f)) /\ (Archiving(n, f) <=> Archiving(m, f))
    BY <1>4 DEF Loops
  <2> QED BY <1>3, <2>2, <2>3, ObjectBooks, BooksStay
<1>9. PauseOK(n)
  BY <1>3 DEF MemoryOK, PauseOK, Sending, Ended
<1> QED BY <1>3, <1>5, <1>6, <1>7, <1>8, <1>9 DEF MemoryOK

LEMMA MildNoWait ==
    ASSUME NEW m, NEW n, Mild(m, n), NEW who \in Loops, NoWait(m, who) PROVE NoWait(n, who)
<1>1. ASSUME NEW e \in Entries PROVE ~Waits(n, who, e)
  <2>1. SameEntry(m, n, e) /\ ~Waits(m, who, e)
    BY DEF Mild, NoWait
  <2> QED BY <2>1 DEF SameEntry, Waits
<1> QED BY <1>1 DEF NoWait

(* The send of e goes to another stage. *)
LEMMA StageSteps ==
    ASSUME NEW m, MemoryOK(m), NoWait(m, "remote"), NEW e \in Entries, Sending(m, e),
           NEW x, x \in RemoteLoop, x.entry = e, x.aborted = m.remote.aborted,
           x.pc \in {"transmitting", "sending", "accepted"} =>
               e \in m.cancelled \/ (e \in m.durable /\ m.obj[e].packet # NoPacket),
           x.pc = "dropping" => e \in m.cancelled /\ m.obj[e].packet = NoPacket,
           x.pc = "staging" => e \in m.cancelled \/ m.obj[e].packet # NoPacket,
           x.pc = "accepted" => <<e, m.obj[e].index>> \in acked,
           x.pc = "failing" /\ ~x.patient /\ x.cause \in Impatient => Ended(m, e)
    PROVE  MemoryOK([m EXCEPT !.remote = x])
<1>1. MayBeAt(m, x)
  <2>1. e \notin Self /\ ~m.obj[e].delivered /\ (e \in m.cancelled => m.remote.aborted)
        /\ (m.obj[e].packet # NoPacket => ~m.obj[e].packet.accepted)
        /\ (m.remote.aborted => Ended(m, e))
    BY DEF MemoryOK, RemoteOK, PauseOK
  <2> QED BY <2>1 DEF MayBeAt
<1> QED BY <1>1, RemoteSteps

LEMMA CatchKeeps ==
    ASSUME NEW m, MemoryOK(m), NEW e \in Entries, Sending(m, e), NoWait(m, "remote"), NEW cause, cause \in Causes,
           cause = "abort" => m.remote.aborted
    PROVE  MemoryOK(Catch(m, cause))
<1>0. /\ m \in Memory /\ m.obj[e] \in Entry /\ m.remote \in RemoteLoop /\ m.remote.entry = e
      /\ m.remote.pc \notin Asleep /\ (m.obj[e].cancelled => e \in m.cancelled) /\ "remote" \in Loops
      /\ Known(m, e)
  BY Records, WorkedOn DEF Sending, Asleep, Loops
<1>1. ASSUME e \in m.cancelled, NEW pc, \/ pc = "dropping" /\ m.obj[e].packet = NoPacket
                                        \/ pc = "cancelling"
      PROVE  LET n == [m EXCEPT !.obj[e].cancelled = TRUE, !.remote.pc = pc]
             IN  MemoryOK(n) /\ Sending(n, e) /\ NoWait(n, "remote") /\ n.remote.pc = pc
  <2> DEFINE x == [m.remote EXCEPT !.pc = pc]
  <2>1. x \in RemoteLoop /\ x.pc = pc /\ x.entry = e /\ x.aborted = m.remote.aborted
    BY <1>0, <1>1 DEF RemoteLoop, RemoteStages
  <2>2. ASSUME NEW c, c = [m EXCEPT !.obj[e].cancelled = TRUE]
        PROVE  LET n == [c EXCEPT !.remote = x]
               IN  MemoryOK(n) /\ Sending(n, e) /\ NoWait(n, "remote") /\ n.remote.pc = pc
    <3>1. Mild(m, c) /\ MemoryOK(c) /\ NoWait(c, "remote") /\ c \in Memory
      BY <1>0, <1>1, <2>2, CancelledSaveEndsMildly, MildKeeps, MildNoWait, ZenonT(40) DEF Mild
    <3>2. c.remote = m.remote /\ e \in c.cancelled /\ c.obj[e].packet = m.obj[e].packet /\ Sending(c, e)
      BY <1>0, <1>1, <2>2, <3>1 DEF Memory, Mild, SameEntry, Sending
    <3> HIDE DEF x
    <3>3. MemoryOK([c EXCEPT !.remote = x])
      BY <1>1, <2>1, <3>1, <3>2, StageSteps
    <3>4. ASSUME NEW n, n = [c EXCEPT !.remote = x]
          PROVE  Sending(n, e) /\ NoWait(n, "remote") /\ n.remote.pc = pc
      <4>1. n.remote = x /\ n.queued = c.queued /\ n.flying = c.flying /\ n.resolved = c.resolved
        BY <3>1, <3>4 DEF Memory
      <4> QED BY <1>1, <2>1, <3>1, <4>1 DEF Sending, NoWait, Waits
    <3> QED BY <3>3, <3>4
  <2>3. [m EXCEPT !.obj[e].cancelled = TRUE, !.remote.pc = pc] = [[m EXCEPT !.obj[e].cancelled = TRUE] EXCEPT !.remote = x]
    BY <1>0 DEF Memory
  <2> QED BY <2>2, <2>3
<1>2. ASSUME NEW n, MemoryOK(n), Sending(n, e), NoWait(n, "remote"), n.remote.pc \in {"staging", "failing", "cancelling"}
      PROVE  MemoryOK(WriteEntry(n, e, "remote"))
  BY <1>0, <1>2, LoopWrites DEF NoWait
<1>3. CASE e \in m.cancelled
  <2> DEFINE n(pc) == [m EXCEPT !.obj[e].cancelled = TRUE, !.remote.pc = pc]
  <2>1. CASE m.obj[e].packet = NoPacket
    <3>1. Catch(m, cause) = n("dropping")
      BY <1>0, <1>3, <2>1, Zenon DEF Catch
    <3> QED BY <1>1, <1>3, <2>1, <3>1
  <2>2. CASE m.obj[e].packet # NoPacket
    <3>1. Catch(m, cause) = WriteEntry(n("cancelling"), e, "remote")
      BY <1>0, <1>3, <2>2, Zenon DEF Catch
    <3>2. MemoryOK(n("cancelling")) /\ Sending(n("cancelling"), e) /\ NoWait(n("cancelling"), "remote")
          /\ n("cancelling").remote.pc = "cancelling"
      BY <1>1, <1>3
    <3> HIDE DEF n
    <3> QED BY <1>2, <3>1, <3>2
  <2> QED BY <2>1, <2>2
<1>4. CASE e \notin m.cancelled
  <2> DEFINE patient == Patient(m, cause)
             retryable == cause # "denied"
             status == IF m.obj[e].status = "saved" THEN m.obj[e].status ELSE IF patient THEN "pending" ELSE "error"
             failed == [m.obj[e] EXCEPT !.status = status, !.failed = TRUE, !.retryable = retryable]
             x == [m.remote EXCEPT !.pc = "failing", !.cause = cause, !.patient = patient]
             n == [m EXCEPT !.obj[e] = failed, !.remote.pc = "failing", !.remote.cause = cause, !.remote.patient = patient]
  <2>1. patient \in BOOLEAN /\ retryable \in BOOLEAN
    BY DEF Patient
  <2>2. status \in Statuses
    BY <1>0 DEF Entry, Statuses
  <2>3. Catch(m, cause) = WriteEntry(n, e, "remote")
    BY <1>0, <1>4, Zenon DEF Catch
  <2> HIDE DEF patient, retryable, status
  <2>4. /\ failed \in Entry /\ failed.packet = m.obj[e].packet /\ failed.delivered = m.obj[e].delivered
        /\ failed.cancelled = m.obj[e].cancelled /\ failed.index = m.obj[e].index /\ failed.local = m.obj[e].local
        /\ failed.status = status
    BY <1>0, <2>1, <2>2 DEF Entry
  <2>11. status = "saved" => m.obj[e].status = "saved"
    BY DEF status
  <2>5. x \in RemoteLoop /\ x.pc = "failing" /\ x.entry = e /\ x.aborted = m.remote.aborted
    BY <1>0, <2>1 DEF RemoteLoop, RemoteStages
  <2>6. ~m.obj[e].delivered
    BY DEF MemoryOK, RemoteOK
  <2>9. x.pc = "failing" /\ ~x.patient /\ x.cause \in Impatient => Ended(m, e)
    <3>1. m.remote.aborted => Ended(m, e)
      BY DEF MemoryOK, PauseOK
    <3>2. ~Patient(m, cause) /\ cause \in Impatient => m.remote.aborted
      BY DEF Patient, Impatient
    <3>3. x.patient = Patient(m, cause) /\ x.cause = cause
      BY <1>0 DEF RemoteLoop, patient
    <3> QED BY <3>1, <3>2, <3>3
  <2>10. MayBecome(m, e, failed)
    BY <1>0, <2>4, <2>6, <2>11 DEF MayBecome, SameSend, SavesRightly
  <2>7. n = [[m EXCEPT !.obj[e] = failed] EXCEPT !.remote = x]
    BY <1>0 DEF Memory
  <2> HIDE DEF failed, x, n
  <2>8. ASSUME NEW c, c = [m EXCEPT !.obj[e] = failed], NEW d, d = [c EXCEPT !.remote = x]
        PROVE  MemoryOK(d) /\ Sending(d, e) /\ NoWait(d, "remote") /\ d.remote.pc = "failing"
    <3>1. Mild(m, c)
      BY <2>4, <2>8, <2>10, EntryMoves
    <3>2. MemoryOK(c) /\ NoWait(c, "remote") /\ c \in Memory
      BY <1>0, <3>1, MildKeeps, MildNoWait DEF Mild
    <3>3. c.remote = m.remote /\ Sending(c, e) /\ (Ended(m, e) => Ended(c, e))
      BY <1>0, <2>8 DEF Memory, Sending, Ended
    <3>4. MemoryOK(d)
      BY <2>5, <2>8, <2>9, <3>2, <3>3, StageSteps
    <3>5. d.remote = x /\ d.queued = c.queued /\ d.flying = c.flying /\ d.resolved = c.resolved
      BY <2>8, <3>2 DEF Memory
    <3> QED BY <2>5, <3>2, <3>4, <3>5 DEF Sending, NoWait, Waits
  <2> QED BY <1>2, <2>3, <2>7, <2>8
<1> QED BY <1>3, <1>4

(* The worker moves, when none of its writes is awaited. *)
LEMMA WorkerSteps ==
    ASSUME NEW m, MemoryOK(m), NEW x, x \in WorkerLoop, NoWait(m, "worker"),
           x.pc \notin Asleep => x.entry \in Entries /\ ~Fresh(x.entry),
           x.pc \in {"checkpoint", "waiting", "archiving"} => m.obj[x.entry].packet # NoPacket
    PROVE  MemoryOK([m EXCEPT !.worker = x])
<1>0. m \in Memory
  BY DEF MemoryOK
<1>1. SUFFICES ASSUME NEW n, n = [m EXCEPT !.worker = x] PROVE MemoryOK(n)
  OBVIOUS
<1>2. /\ n \in Memory /\ n.worker = x
      /\ n.obj = m.obj /\ n.queued = m.queued /\ n.flying = m.flying /\ n.cleaning = m.cleaning
      /\ n.resolved = m.resolved /\ n.durable = m.durable /\ n.removing = m.removing /\ n.cancelled = m.cancelled
      /\ n.closed = m.closed /\ n.local = m.local /\ n.remote = m.remote /\ n.listed = m.listed /\ n.unadmitted = m.unadmitted
  BY <1>0, <1>1 DEF Memory
<1>3. ASSUME NEW e \in Entries
      PROVE  /\ Sending(n, e) <=> Sending(m, e)
             /\ InRow(n, e) <=> InRow(m, e)
             /\ Archiving(n, e) => x.entry = e
             /\ \A who \in Loops : /\ Waits(n, who, e) <=> Waits(m, who, e)
                                   /\ OnePlace(n, who, e) <=> OnePlace(m, who, e)
                                   /\ Checkpoints(n, who, e) <=> Checkpoints(m, who, e)
             /\ ~Waits(m, "worker", e)
  BY <1>2 DEF Archiving, InRow, Sending, Waits, OnePlace, Checkpoints, NoWait, Asleep
<1>4. ObjectsOK(n) /\ RemoteOK(n)
  BY <1>2, <1>3 DEF MemoryOK, ObjectsOK, RemoteOK, Loops
<1>5. WorkerOK(n)
  <2>1. ASSUME NEW e \in Entries, Archiving(n, e), n.worker.pc = "checkpoint" PROVE Checkpoints(n, "worker", e)
    BY <1>2, <1>3, <2>1 DEF Checkpoints, Waits
  <2> QED BY <1>2, <1>3, <2>1 DEF WorkerOK
<1>6. WaitsOK(n)
  BY <1>2, <1>3 DEF MemoryOK, WaitsOK, Loops
<1>7. MarksOK(n) /\ SeedsHeld(n)
  BY <1>2 DEF MemoryOK, MarksOK, SeedsHeld
<1>8. /\ n.remote.pc \notin {"idle", "pass"} => n.remote.entry \in Entries \ Self
      /\ n.local.pc \notin {"idle", "pass"} => n.local.entry \in Entries
      /\ n.worker.pc \notin {"idle", "pass"} => n.worker.entry \in Entries
      /\ n.closed => "close" \in plan.faults
  BY <1>2 DEF MemoryOK, Asleep
<1>9. HonestOK(n) /\ CancelOK(n) /\ AdmissionOK(n)
  <2>1. SameBooks(m, n)
    BY <1>2 DEF SameBooks
  <2>2. \A e \in Entries : /\ Sending(n, e) => Sending(m, e)
                           /\ Archiving(n, e) => ~Fresh(e)
    BY <1>2, <1>3 DEF Archiving, Asleep
  <2> QED BY <1>2, <2>1, <2>2, ObjectBooks, BooksStay
<1>10. PauseOK(n)
  BY <1>2, <1>3 DEF MemoryOK, PauseOK, Ended
<1> QED BY <1>2, <1>4, <1>5, <1>6, <1>7, <1>8, <1>9, <1>10 DEF MemoryOK

(* A wait is over. *)
LEMMA TakenKeeps ==
    ASSUME NEW m, MemoryOK(m), NEW e \in Entries, NEW who \in Loops, NEW ok \in BOOLEAN, <<who, e, ok>> \in m.resolved,
           NEW n, n = [m EXCEPT !.resolved = @ \ {<<who, e, TRUE>>, <<who, e, FALSE>>}]
    PROVE  MemoryOK(n) /\ NoWait(n, who)
<1>1. Mild(m, n) /\ m \in Memory
  BY TakesMildly DEF MemoryOK
<1>2. MemoryOK(n)
  BY <1>1, MildKeeps
<1>3. ASSUME NEW f \in Entries PROVE ~Waits(n, who, f)
  <2>1. n.queued = m.queued /\ n.flying = m.flying /\ n.resolved = m.resolved \ {<<who, e, TRUE>>, <<who, e, FALSE>>}
    BY <1>1 DEF Memory
  <2>2. Waits(m, who, e) /\ OnePlace(m, who, e)
    BY DEF Waits, MemoryOK, WaitsOK, Loops
  <2>3. CASE f = e
    BY <2>1, <2>2, <2>3 DEF Waits, OnePlace
  <2>4. CASE f # e
    <3>1. ~Waits(m, who, f)
      BY <2>2, <2>4 DEF MemoryOK, WaitsOK, Loops, Sending, Archiving
    <3> QED BY <2>1, <2>4, <3>1 DEF Waits
  <2> QED BY <2>3, <2>4
<1> QED BY <1>2, <1>3 DEF NoWait

(* What the row holds is durable. *)
LEMMA DurableKeeps ==
    ASSUME NEW m, MemoryOK(m), NEW e \in Entries, e \in m.cancelled \/ InRow(m, e), offers[e] \notin {"new", "putting"}
    PROVE  MemoryOK([m EXCEPT !.durable = @ \cup {e}])
<1>0. m \in Memory
  BY DEF MemoryOK
<1>1. SUFFICES ASSUME NEW n, n = [m EXCEPT !.durable = @ \cup {e}] PROVE MemoryOK(n)
  OBVIOUS
<1>2. /\ n \in Memory /\ n.durable = m.durable \cup {e}
      /\ n.obj = m.obj /\ n.queued = m.queued /\ n.flying = m.flying /\ n.cleaning = m.cleaning
      /\ n.resolved = m.resolved /\ n.worker = m.worker /\ n.removing = m.removing /\ n.cancelled = m.cancelled
      /\ n.closed = m.closed /\ n.local = m.local /\ n.remote = m.remote /\ n.listed = m.listed /\ n.unadmitted = m.unadmitted
  BY <1>0, <1>1 DEF Memory
<1>3. ASSUME NEW f \in Entries
      PROVE  /\ Sending(n, f) <=> Sending(m, f)
             /\ Archiving(n, f) <=> Archiving(m, f)
             /\ InRow(n, f) <=> InRow(m, f)
             /\ \A who \in Loops : /\ Waits(n, who, f) <=> Waits(m, who, f)
                                   /\ OnePlace(n, who, f) <=> OnePlace(m, who, f)
                                   /\ Checkpoints(n, who, f) <=> Checkpoints(m, who, f)
  BY <1>2 DEF Archiving, InRow, Sending, Waits, OnePlace, Checkpoints
<1>4. ObjectsOK(n)
  BY <1>2, <1>3 DEF MemoryOK, ObjectsOK
<1>5. RemoteOK(n) /\ WorkerOK(n)
  BY <1>2, <1>3 DEF MemoryOK, RemoteOK, WorkerOK, Loops
<1>6. WaitsOK(n)
  BY <1>2, <1>3 DEF MemoryOK, WaitsOK, Loops
<1>7. MarksOK(n) /\ SeedsHeld(n)
  BY <1>2 DEF MemoryOK, MarksOK, SeedsHeld
<1>8. HonestOK(n) /\ CancelOK(n) /\ AdmissionOK(n)
  <2>1. SameBooks(m, n)
    BY <1>2 DEF SameBooks
  <2> QED BY <1>2, <1>3, <2>1, ObjectBooks, BooksStay
<1>9. PauseOK(n)
  BY <1>2, <1>3 DEF MemoryOK, PauseOK, Ended
<1> QED BY <1>2, <1>4, <1>5, <1>6, <1>7, <1>8, <1>9 DEF MemoryOK

(* An entry nobody sends goes on, its packet accepted or not. *)
LEMMA EntryAdvances ==
    ASSUME NEW m, MemoryOK(m), NEW e \in Entries, ~Sending(m, e), NEW x, x \in Entry,
           x.packet = NoPacket <=> m.obj[e].packet = NoPacket,
           x.packet # NoPacket => /\ x.packet.index = m.obj[e].packet.index
                                  /\ x.packet.archived = m.obj[e].packet.archived,
           m.obj[e].delivered => x.delivered, x.delivered => e \in Self \/ x.status = "saved",
           Right(x, e), Kept(x, e), x.cancelled = m.obj[e].cancelled, x.local = m.obj[e].local,
           x.status = "saved" => m.obj[e].status = "saved" \/ (~Fresh(e) /\ e \notin m.unadmitted)
    PROVE  MemoryOK([m EXCEPT !.obj[e] = x])
<1>0. m \in Memory /\ m.obj \in [Entries -> Entry]
  BY Parts DEF MemoryOK
<1>1. SUFFICES ASSUME NEW n, n = [m EXCEPT !.obj[e] = x] PROVE MemoryOK(n)
  OBVIOUS
<1>2. /\ n \in Memory /\ n.obj[e] = x /\ \A f \in Entries \ {e} : n.obj[f] = m.obj[f]
      /\ n.durable = m.durable /\ n.queued = m.queued /\ n.flying = m.flying /\ n.cleaning = m.cleaning
      /\ n.resolved = m.resolved /\ n.worker = m.worker /\ n.removing = m.removing /\ n.cancelled = m.cancelled
      /\ n.closed = m.closed /\ n.local = m.local /\ n.remote = m.remote /\ n.listed = m.listed /\ n.unadmitted = m.unadmitted
  <2>1. PICK objs \in [Entries -> Entry] : objs = [m.obj EXCEPT ![e] = x]
    BY <1>0
  <2>2. n = [m EXCEPT !.obj = objs]
    BY <1>1, <2>1
  <2>3. objs[e] = x /\ \A f \in Entries \ {e} : objs[f] = m.obj[f]
    BY <1>0, <2>1
  <2> QED BY <1>0, <2>2, <2>3 DEF Memory
<1>3. ASSUME NEW f \in Entries
      PROVE  /\ Sending(n, f) <=> Sending(m, f)
             /\ Archiving(n, f) <=> Archiving(m, f)
             /\ InRow(n, f) <=> InRow(m, f)
             /\ n.obj[f].packet = NoPacket <=> m.obj[f].packet = NoPacket
             /\ \A who \in Loops : /\ Waits(n, who, f) <=> Waits(m, who, f)
                                   /\ OnePlace(n, who, f) <=> OnePlace(m, who, f)
                                   /\ Checkpoints(n, who, f) <=> Checkpoints(m, who, f)
  <2>1. /\ Sending(n, f) <=> Sending(m, f)
        /\ Archiving(n, f) <=> Archiving(m, f)
        /\ \A who \in Loops : /\ Waits(n, who, f) <=> Waits(m, who, f)
                              /\ OnePlace(n, who, f) <=> OnePlace(m, who, f)
    BY <1>2 DEF Archiving, Sending, Waits, OnePlace
  <2>2. /\ n.obj[f].packet = NoPacket <=> m.obj[f].packet = NoPacket
        /\ n.obj[f].packet # NoPacket => n.obj[f].packet.index = m.obj[f].packet.index
    BY <1>2
  <2>3. InRow(n, f) <=> InRow(m, f)
    BY <1>2, <2>2 DEF InRow, SamePacket
  <2>4. \A who \in Loops : Checkpoints(n, who, f) <=> Checkpoints(m, who, f)
    BY <1>2, <2>2, <2>3 DEF Checkpoints, SamePacket
  <2> QED BY <2>1, <2>2, <2>3, <2>4
<1>4. ObjectsOK(n)
  <2>1. ASSUME NEW f \in Entries
        PROVE  /\ n.obj[f].cancelled => f \in n.cancelled
               /\ n.obj[f].delivered => f \in Self \/ n.obj[f].status = "saved"
               /\ m.obj[f].delivered => n.obj[f].delivered
    BY <1>2 DEF MemoryOK, ObjectsOK
  <2> QED BY <1>2, <1>3, <2>1 DEF MemoryOK, ObjectsOK
<1>5. RemoteOK(n)
  <2>1. ASSUME NEW f \in Entries, Sending(n, f) PROVE n.obj[f] = m.obj[f] /\ Sending(m, f)
    BY <1>2, <1>3, <2>1
  <2> QED BY <1>2, <1>3, <2>1 DEF MemoryOK, RemoteOK, Loops
<1>6. WorkerOK(n)
  BY <1>2, <1>3 DEF MemoryOK, WorkerOK, Loops
<1>7. WaitsOK(n)
  BY <1>2, <1>3 DEF MemoryOK, WaitsOK, Loops
<1>8. MarksOK(n)
  BY <1>2, <1>3 DEF MemoryOK, MarksOK, ReallyArchived
<1>9. SeedsHeld(n)
  BY <1>2, <1>3 DEF MemoryOK, SeedsHeld, Carries
<1>10. HonestOK(n) /\ CancelOK(n) /\ AdmissionOK(n)
  <2>1. SameBooks(m, n)
    BY <1>2 DEF SameBooks
  <2>2. ASSUME NEW f \in Entries
        PROVE  /\ Right(n.obj[f], f) /\ Kept(n.obj[f], f)
               /\ Sending(n, f) /\ n.remote.pc = "accepted" => <<f, n.obj[f].index>> \in acked
               /\ Archiving(n, f) => Archiving(m, f) \/ ~Fresh(f)
               /\ n.obj[f].cancelled = m.obj[f].cancelled /\ n.obj[f].local = m.obj[f].local
               /\ n.obj[f].status = "saved" => m.obj[f].status = "saved" \/ (~Fresh(f) /\ f \notin m.unadmitted)
    BY <1>2, <1>3, ObjectBooks
  <2> QED BY <2>1, <2>2, BooksStay
<1>11. PauseOK(n)
  BY <1>2, <1>3 DEF MemoryOK, PauseOK, Ended
<1> QED BY <1>2, <1>4, <1>5, <1>6, <1>7, <1>8, <1>9, <1>10, <1>11 DEF MemoryOK

(* Where a loop waits for no write. *)
LEMMA Quiet ==
    ASSUME NEW m, MemoryOK(m)
    PROVE  /\ m.remote.pc \notin {"staging", "failing", "cancelling"} => NoWait(m, "remote")
           /\ m.worker.pc \notin {"checkpoint", "forgetting"} => NoWait(m, "worker")
BY DEF MemoryOK, WaitsOK, NoWait

(* Where a send of e goes when all is well. *)
MayGo(m, e, pc) ==
    \/ pc = "preparing"
    \/ pc = "staging" /\ (e \in m.cancelled \/ m.obj[e].packet # NoPacket)
    \/ /\ pc \in {"transmitting", "sending", "accepted"}
       /\ e \in m.cancelled \/ (e \in m.durable /\ m.obj[e].packet # NoPacket)
       /\ pc = "accepted" => <<e, m.obj[e].index>> \in acked

AtStage(m, pc) == [m EXCEPT !.remote.pc = pc]
LEMMA GoesTo ==
    ASSUME NEW m, MemoryOK(m), NoWait(m, "remote"), NEW e \in Entries, Sending(m, e), NEW pc, MayGo(m, e, pc),
           NEW n, n = AtStage(m, pc)
    PROVE  MemoryOK(n) /\ Sending(n, e) /\ NoWait(n, "remote") /\ n.remote.pc = pc /\ n.obj = m.obj
<1>0. m \in Memory /\ m.remote \in RemoteLoop /\ m.remote.entry = e
  BY Records DEF Sending
<1> DEFINE x == [m.remote EXCEPT !.pc = pc]
<1>5. pc \in RemoteStages \ (Asleep \cup {"failing", "dropping"})
  BY DEF MayGo, RemoteStages, Asleep
<1>1. x \in RemoteLoop /\ x.pc = pc /\ x.entry = e /\ x.aborted = m.remote.aborted
  BY <1>0, <1>5 DEF RemoteLoop
<1>2. n = [m EXCEPT !.remote = x]
  BY <1>0 DEF Memory, AtStage
<1> HIDE DEF x
<1>3. MemoryOK([m EXCEPT !.remote = x])
  BY <1>0, <1>1, <1>5, StageSteps DEF MayGo
<1>4. n.remote = x /\ n.queued = m.queued /\ n.flying = m.flying /\ n.resolved = m.resolved /\ n.obj = m.obj
  BY <1>0, <1>2 DEF Memory
<1> QED BY <1>1, <1>2, <1>3, <1>4, <1>5 DEF Sending, NoWait, Waits, Asleep

(* The event is wrapped: the entry has its packet, and no seed of it is out. *)
LEMMA PacketStaged ==
    ASSUME NEW m, MemoryOK(m), NEW e \in Entries, Sending(m, e), m.remote.pc = "preparing",
           m.obj[e].packet = NoPacket, NEW x, x \in Entry, x.packet # NoPacket, ~x.packet.accepted,
           Keeps => ~x.packet.archived, x.packet.index = m.obj[e].index,
           Kept(m.obj[e], e) => x.packet.envelope = 1 \/ m.obj[e].cancelled \/ row[e] = NoRow,
           x.delivered = m.obj[e].delivered, x.status = m.obj[e].status, x.cancelled = m.obj[e].cancelled,
           x.index = m.obj[e].index, x.local = m.obj[e].local
    PROVE  MemoryOK([m EXCEPT !.obj[e] = x])
<1>0. m \in Memory /\ m.obj \in [Entries -> Entry]
  BY Parts DEF MemoryOK
<1>1. SUFFICES ASSUME NEW n, n = [m EXCEPT !.obj[e] = x] PROVE MemoryOK(n)
  OBVIOUS
<1>2. /\ n \in Memory /\ n.obj[e] = x /\ \A f \in Entries \ {e} : n.obj[f] = m.obj[f]
      /\ n.durable = m.durable /\ n.queued = m.queued /\ n.flying = m.flying /\ n.cleaning = m.cleaning
      /\ n.resolved = m.resolved /\ n.worker = m.worker /\ n.removing = m.removing /\ n.cancelled = m.cancelled
      /\ n.closed = m.closed /\ n.local = m.local /\ n.remote = m.remote /\ n.listed = m.listed /\ n.unadmitted = m.unadmitted
  <2>1. PICK objs \in [Entries -> Entry] : objs = [m.obj EXCEPT ![e] = x]
    BY <1>0
  <2>2. n = [m EXCEPT !.obj = objs]
    BY <1>1, <2>1
  <2>3. objs[e] = x /\ \A f \in Entries \ {e} : objs[f] = m.obj[f]
    BY <1>0, <2>1
  <2> QED BY <1>0, <2>2, <2>3 DEF Memory
<1>3. /\ e \notin Self /\ ~m.obj[e].delivered /\ offers[e] \notin {"new", "putting"}
      /\ row[e] # NoRow \/ e \in m.cancelled
      /\ e \in m.durable => e \in m.cancelled
      /\ e \in m.cleaning => e \in m.cancelled
      /\ ~(Archiving(m, e) /\ m.worker.pc = "checkpoint")
  BY DEF MemoryOK, ObjectsOK, RemoteOK, WorkerOK, InRow, SamePacket
<1>4. ASSUME NEW f \in Entries
      PROVE  /\ Sending(n, f) <=> Sending(m, f)
             /\ Archiving(n, f) <=> Archiving(m, f)
             /\ \A who \in Loops : /\ Waits(n, who, f) <=> Waits(m, who, f)
                                   /\ OnePlace(n, who, f) <=> OnePlace(m, who, f)
             /\ f # e => /\ InRow(n, f) <=> InRow(m, f)
                         /\ \A who \in Loops : Checkpoints(n, who, f) <=> Checkpoints(m, who, f)
  BY <1>2 DEF Archiving, Sending, Waits, OnePlace, InRow, Checkpoints
<1>5. ObjectsOK(n)
  BY <1>2, <1>3, <1>4 DEF MemoryOK, ObjectsOK
<1>6. RemoteOK(n)
  BY <1>2, <1>4 DEF MemoryOK, RemoteOK, Loops, Sending
<1>7. WorkerOK(n)
  BY <1>2, <1>3, <1>4 DEF MemoryOK, WorkerOK, Loops
<1>8. WaitsOK(n)
  BY <1>2, <1>4 DEF MemoryOK, WaitsOK, Loops
<1>9. MarksOK(n)
  BY <1>2, ZenonT(40) DEF MemoryOK, MarksOK, ReallyArchived
<1>10. SeedsHeld(n)
  BY <1>2 DEF MemoryOK, SeedsHeld, Carries
<1>11. HonestOK(n) /\ CancelOK(n) /\ AdmissionOK(n)
  <2>1. SameBooks(m, n)
    BY <1>2 DEF SameBooks
  <2>2. Right(x, e) /\ Kept(x, e)
    <3>1. Right(m.obj[e], e) /\ Kept(m.obj[e], e)
      BY ObjectBooks
    <3> QED BY <3>1 DEF Right, Kept
  <2>3. ASSUME NEW f \in Entries
        PROVE  /\ Right(n.obj[f], f) /\ Kept(n.obj[f], f)
               /\ Sending(n, f) /\ n.remote.pc = "accepted" => <<f, n.obj[f].index>> \in acked
               /\ Archiving(n, f) => Archiving(m, f) \/ ~Fresh(f)
               /\ n.obj[f].cancelled = m.obj[f].cancelled /\ n.obj[f].local = m.obj[f].local
               /\ n.obj[f].status = "saved" => m.obj[f].status = "saved"
    BY <1>2, <1>4, <2>2, ObjectBooks
  <2> QED BY <2>1, <2>3, BooksStay
<1>12. PauseOK(n)
  BY <1>2, <1>4 DEF MemoryOK, PauseOK, Ended
<1> QED BY <1>2, <1>5, <1>6, <1>7, <1>8, <1>9, <1>10, <1>11, <1>12 DEF MemoryOK

LEMMA EnvelopeIsFirst ==
    ASSUME NEW e, NEW i, \A s \in sent : s[1] = e => s[2] # i PROVE Envelope(e, i) = 1
<1>1. {s[3] : s \in {t \in sent : t[1] = e /\ t[2] = i}} = {}
  OBVIOUS
<1> QED BY <1>1, FS_EmptySet DEF Envelope

LEMMA EnvelopeIsNumber == ASSUME IsFiniteSet(sent), NEW e, NEW i PROVE Envelope(e, i) \in Nat
<1> DEFINE used == {s \in sent : s[1] = e /\ s[2] = i}
           envelopes == {s[3] : s \in used}
<1>1. IsFiniteSet(used)
  BY FS_Subset
<1>2. IsFiniteSet(envelopes)
  <2> DEFINE third == [s \in used |-> s[3]]
  <2>1. third \in Surjection(used, envelopes)
    BY DEF Surjection
  <2> QED BY <1>1, <2>1, FS_Surjection
<1>3. Cardinality(envelopes) \in Nat
  BY <1>2, FS_CardinalityType
<1> QED BY <1>3 DEF Envelope

LEMMA StageKeeps ==
    ASSUME NEW m, MemoryOK(m), NEW e \in Entries, Sending(m, e), m.remote.pc = "preparing", IsFiniteSet(sent),
           sent \subseteq (Entries \ Self) \X Nat \X Nat, plan.recover \in BOOLEAN
    PROVE  MemoryOK(Stage(m, e))
<1>0. m \in Memory /\ m.obj[e] \in Entry /\ NoWait(m, "remote") /\ "remote" \in Loops /\ m.obj \in [Entries -> Entry]
  BY Records, Parts, Quiet DEF Loops
<1> DEFINE staged == [m EXCEPT !.obj[e].packet = Prepared(m, e)]
<1>1. ASSUME NEW n, MemoryOK(n), NoWait(n, "remote"), Sending(n, e), n.obj[e].packet # NoPacket
      PROVE  MemoryOK(WriteEntry([n EXCEPT !.remote.pc = "staging"], e, "remote"))
  <2>1. ASSUME NEW p, p = [n EXCEPT !.remote.pc = "staging"] PROVE MemoryOK(WriteEntry(p, e, "remote"))
    <3>1. MemoryOK(p) /\ Sending(p, e) /\ NoWait(p, "remote") /\ p.remote.pc = "staging"
      <4>1. MayGo(n, e, "staging")
        BY <1>1 DEF MayGo
      <4>2. MemoryOK(n) /\ NoWait(n, "remote") /\ Sending(n, e)
        BY <1>1
      <4>3. p = AtStage(n, "staging")
        BY <2>1 DEF AtStage
      <4> QED BY <4>1, <4>2, <4>3, GoesTo
    <3> QED BY <1>0, <3>1, LoopWrites DEF NoWait
  <2> QED BY <2>1
<1>2. CASE m.obj[e].packet # NoPacket
  <2>1. Prepared(m, e) = m.obj[e].packet
    BY <1>2 DEF Prepared
  <2>2. staged = m
    BY <1>0, <2>1 DEF Memory, Entry
  <2>3. Stage(m, e) = IF e \in m.durable THEN [m EXCEPT !.remote.pc = "transmitting"]
                      ELSE WriteEntry([m EXCEPT !.remote.pc = "staging"], e, "remote")
    <3> HIDE DEF staged
    <3>1. Stage(m, e) = IF e \in m.durable /\ staged.obj[e].packet = m.obj[e].packet
                        THEN [staged EXCEPT !.remote.pc = "transmitting"]
                        ELSE WriteEntry([staged EXCEPT !.remote.pc = "staging"], e, "remote")
      BY Zenon DEF Stage, staged
    <3> QED BY <2>2, <3>1, Zenon
  <2>4. e \in m.durable => MemoryOK([m EXCEPT !.remote.pc = "transmitting"])
    <3>1. e \in m.durable => MayGo(m, e, "transmitting")
      BY <1>2 DEF MayGo
    <3>2. e \in m.durable => MemoryOK(AtStage(m, "transmitting"))
      BY <1>0, <3>1, GoesTo
    <3> QED BY <3>2 DEF AtStage
  <2> QED BY <1>0, <1>1, <1>2, <2>3, <2>4
<1>3. CASE m.obj[e].packet = NoPacket
  <2> DEFINE p == [index |-> m.obj[e].index, envelope |-> Envelope(e, m.obj[e].index),
                   accepted |-> FALSE, archived |-> ~plan.recover]
             x == [m.obj[e] EXCEPT !.packet = p]
  <2>1. p \in Packet /\ ~p.accepted /\ (Keeps => ~p.archived) /\ p.index = m.obj[e].index
    <3>1. m.obj[e].index \in Nat
      BY <1>0 DEF Entry
    <3>2. Envelope(e, m.obj[e].index) \in Nat
      BY EnvelopeIsNumber
    <3> QED BY <3>1, <3>2 DEF Packet, Keeps
  <2>10. Kept(m.obj[e], e) => p.envelope = 1 \/ m.obj[e].cancelled \/ row[e] = NoRow
    <3>1. ASSUME \A s \in sent : s[1] = e => s[2] < m.obj[e].index PROVE p.envelope = 1
      <4>1. \A s \in sent : s[1] = e => s[2] # m.obj[e].index
        BY <1>0, <3>1 DEF Entry
      <4> QED BY <4>1, EnvelopeIsFirst
    <3> HIDE DEF p
    <3> QED BY <1>3, <3>1 DEF Kept
  <2>2. p # NoPacket
    BY <2>1, AbsenceAssumption
  <2>3. Prepared(m, e) = p
    BY <1>3, Zenon DEF Prepared
  <2> HIDE DEF p
  <2>4. /\ x \in Entry /\ x.packet = p /\ x.delivered = m.obj[e].delivered
        /\ x.status = m.obj[e].status /\ x.cancelled = m.obj[e].cancelled
        /\ x.index = m.obj[e].index /\ x.local = m.obj[e].local
    BY <1>0, <2>1 DEF Entry
  <2>5. staged = [m EXCEPT !.obj[e] = x]
    BY <2>3
  <2> HIDE DEF x
  <2>6. MemoryOK(staged)
    <3>1. MemoryOK([m EXCEPT !.obj[e] = x])
      BY <1>3, <2>1, <2>2, <2>4, <2>10, PacketStaged
    <3> HIDE DEF staged
    <3> QED BY <2>5, <3>1
  <2>7. /\ staged.obj[e].packet = p /\ staged.remote = m.remote
        /\ staged.queued = m.queued /\ staged.flying = m.flying /\ staged.resolved = m.resolved
    <3>1. staged.obj[e] = x
      BY <1>0, <2>5 DEF Memory
    <3>2. /\ staged.remote = m.remote
          /\ staged.queued = m.queued /\ staged.flying = m.flying /\ staged.resolved = m.resolved
      BY <1>0 DEF Memory
    <3> HIDE DEF staged
    <3> QED BY <2>4, <3>1, <3>2
  <2>8. Stage(m, e) = WriteEntry([staged EXCEPT !.remote.pc = "staging"], e, "remote")
    <3> HIDE DEF staged
    <3>1. Stage(m, e) = IF e \in m.durable /\ staged.obj[e].packet = m.obj[e].packet
                        THEN [staged EXCEPT !.remote.pc = "transmitting"]
                        ELSE WriteEntry([staged EXCEPT !.remote.pc = "staging"], e, "remote")
      BY Zenon DEF Stage, staged
    <3> QED BY <1>3, <2>2, <2>7, <3>1, Zenon
  <2> HIDE DEF staged
  <2>9. Sending(staged, e) /\ NoWait(staged, "remote")
    BY <1>0, <2>7 DEF Sending, NoWait, Waits
  <2> QED BY <1>1, <2>2, <2>6, <2>7, <2>8, <2>9
<1> QED BY <1>2, <1>3

LEMMA BeginSendKeeps ==
    ASSUME NEW m, MemoryOK(m), NoWait(m, "remote"), NEW e \in Entries \ Self, e \in m.listed, e \notin m.cancelled,
           ~m.obj[e].delivered, m.obj[e].packet # NoPacket => ~m.obj[e].packet.accepted
    PROVE  MemoryOK(BeginSend(m, e))
<1>0. m \in Memory /\ m.remote \in RemoteLoop /\ m.obj[e] \in Entry /\ (m.obj[e].cancelled => e \in m.cancelled) /\ e \in Nat
  BY Records, EntriesAssumption
<1> DEFINE begun == [m EXCEPT !.remote.pc = "checking", !.remote.entry = e, !.remote.aborted = FALSE,
                              !.remote.paused = FALSE, !.obj[e].status = "pending"]
           x == [m.obj[e] EXCEPT !.status = "pending"]
           y == [m.remote EXCEPT !.pc = "checking", !.entry = e, !.aborted = FALSE, !.paused = FALSE]
<1>1. x \in Entry /\ x.packet = m.obj[e].packet /\ x.delivered = m.obj[e].delivered /\ MayBecome(m, e, x)
  BY <1>0 DEF Entry, Statuses, MayBecome, SameSend, SavesRightly
<1>2. y \in RemoteLoop /\ y.pc = "checking" /\ y.entry = e /\ ~y.aborted
  BY <1>0 DEF RemoteLoop, RemoteStages
<1>3. begun = [[m EXCEPT !.obj[e] = x] EXCEPT !.remote = y]
  BY <1>0 DEF Memory
<1> HIDE DEF x, y, begun
<1>4. ASSUME NEW c, c = [m EXCEPT !.obj[e] = x], NEW n, n = [c EXCEPT !.remote = y]
      PROVE  MemoryOK(n) /\ Sending(n, e) /\ NoWait(n, "remote")
  <2>1. Mild(m, c)
    BY <1>0, <1>1, <1>4, EntryMoves
  <2>2. MemoryOK(c) /\ NoWait(c, "remote") /\ c \in Memory
    BY <2>1, MildKeeps, MildNoWait DEF Mild, Loops
  <2>3. c.obj[e] = x /\ c.listed = m.listed /\ c.cancelled = m.cancelled
    BY <1>0, <1>4 DEF Memory
  <2>4. MayBeAt(c, y)
    BY <1>1, <1>2, <2>3 DEF MayBeAt
  <2>5. MemoryOK(n)
    BY <1>2, <1>4, <2>2, <2>4, RemoteSteps
  <2>6. n.remote = y /\ n.queued = c.queued /\ n.flying = c.flying /\ n.resolved = c.resolved
    BY <1>4, <2>2 DEF Memory
  <2> QED BY <1>2, <2>2, <2>5, <2>6 DEF Sending, NoWait, Waits
<1>5. MemoryOK(begun) /\ Sending(begun, e) /\ NoWait(begun, "remote")
  BY <1>3, <1>4
<1>6. MemoryOK(Catch(begun, "paused"))
  BY <1>5, CatchKeeps DEF Causes
<1>7. BeginSend(m, e) \in {begun, Catch(begun, "paused")}
  BY Zenon DEF BeginSend, begun
<1> QED BY <1>5, <1>6, <1>7

(* An accepted event: its packet is accepted, and the send of the entry ends. *)
LEMMA AdvanceKeeps ==
    ASSUME NEW m, MemoryOK(m), NEW e \in Entries, Sending(m, e), m.remote.pc = "accepted", e \notin m.cancelled,
           sent \subseteq (Entries \ Self) \X Nat \X Nat
    PROVE  MemoryOK(Advance(m, e))
<1>0. m \in Memory /\ m.remote \in RemoteLoop /\ m.obj[e] \in Entry /\ (m.obj[e].cancelled => e \in m.cancelled)
      /\ m.obj \in [Entries -> Entry]
  BY Records, Parts
<1>1. m.obj[e].packet # NoPacket /\ ~m.obj[e].delivered /\ NoWait(m, "remote")
  BY Quiet DEF MemoryOK, RemoteOK
<1> DEFINE last == m.obj[e].index + 1 = Length[e]
           status == IF last THEN "saved" ELSE m.obj[e].status
           advanced == [m.obj[e] EXCEPT !.index = m.obj[e].index + 1, !.delivered = last, !.status = status]
           p == [m.obj[e].packet EXCEPT !.accepted = TRUE]
           x == [advanced EXCEPT !.packet = p]
           c == [m EXCEPT !.obj[e].index = @ + 1, !.obj[e].delivered = last, !.obj[e].status = IF last THEN "saved" ELSE @]
           k == SendEnds(m)
           n == [k EXCEPT !.obj[e] = x]
<1>2. last \in BOOLEAN /\ status \in Statuses /\ (last => status = "saved") /\ m.obj[e].index + 1 \in Nat
  BY <1>0 DEF Entry, Statuses
<1>3. /\ p \in Packet /\ p.index = m.obj[e].packet.index /\ p.archived = m.obj[e].packet.archived /\ p # NoPacket
      /\ p.envelope = m.obj[e].packet.envelope /\ p.accepted
  <2>1. m.obj[e].packet \in Packet
    BY <1>0, <1>1 DEF Entry
  <2>2. p \in Packet /\ p.index = m.obj[e].packet.index /\ p.archived = m.obj[e].packet.archived
        /\ p.envelope = m.obj[e].packet.envelope /\ p.accepted
    BY <2>1 DEF Packet
  <2> HIDE DEF p
  <2> QED BY <2>2, AbsenceAssumption
<1>4. Advance(m, e) = Accept(c, e)
  <2> HIDE DEF c
  <2> QED BY Zenon DEF Advance, c
<1>5. c.obj[e] = advanced /\ c \in Memory /\ c = [m EXCEPT !.obj[e] = advanced]
  <2>1. c = [m EXCEPT !.obj[e] = advanced]
    <3> DEFINE next == m.obj[e].index + 1
    <3>2. c = [m EXCEPT !.obj[e].index = next, !.obj[e].delivered = last, !.obj[e].status = status]
      <4> HIDE DEF last
      <4> QED BY <1>0 DEF Memory, Entry
    <3> HIDE DEF last, status, c
    <3>3. advanced = [m.obj[e] EXCEPT !.index = next, !.delivered = last, !.status = status]
      OBVIOUS
    <3> HIDE DEF next, advanced
    <3>4. [m EXCEPT !.obj[e].index = next, !.obj[e].delivered = last, !.obj[e].status = status] = [m EXCEPT !.obj[e] = advanced]
      BY <1>0, <3>3, ZenonT(40) DEF Memory
    <3> QED BY <3>2, <3>4, Zenon
  <2> HIDE DEF last, status
  <2>2. advanced \in Entry
    BY <1>0, <1>2 DEF Entry
  <2> HIDE DEF advanced, c
  <2>3. PICK objs \in [Entries -> Entry] : objs = [m.obj EXCEPT ![e] = advanced]
    BY <1>0, <2>2
  <2>6. objs[e] = advanced
    BY <1>0, <2>3
  <2>4. c = [m EXCEPT !.obj = objs]
    BY <2>1, <2>3
  <2>5. c \in Memory /\ c.obj = objs
    BY <1>0, <2>4 DEF Memory
  <2> QED BY <2>1, <2>6, <2>5
<1>6. advanced.packet = m.obj[e].packet /\ advanced.delivered = last /\ advanced.cancelled = m.obj[e].cancelled
      /\ advanced.status = status /\ advanced \in Entry
      /\ advanced.index = m.obj[e].index + 1 /\ advanced.local = m.obj[e].local
  <2> HIDE DEF last, status
  <2> QED BY <1>0, <1>2 DEF Entry
<1>16. last <=> m.obj[e].index + 1 = Length[e]
  OBVIOUS
<1>17. status = IF last THEN "saved" ELSE m.obj[e].status
  OBVIOUS
<1> HIDE DEF last, status, p, advanced, c
<1>7. /\ x \in Entry /\ x.packet = p /\ x.delivered = last /\ x.cancelled = m.obj[e].cancelled /\ x.status = status
      /\ x.index = m.obj[e].index + 1 /\ x.local = m.obj[e].local
  BY <1>3, <1>6 DEF Entry
<1>8. [c EXCEPT !.obj[e].packet.accepted = TRUE] = [m EXCEPT !.obj[e] = x]
  <2>1. [c EXCEPT !.obj[e].packet.accepted = TRUE] = [c EXCEPT !.obj[e] = x]
    BY <1>5, <1>6 DEF p
  <2>2. [c EXCEPT !.obj[e] = x] = [m EXCEPT !.obj[e] = x]
    <3> HIDE DEF x
    <3>1. ASSUME NEW y, NEW z PROVE [[m EXCEPT !.obj[e] = y] EXCEPT !.obj[e] = z] = [m EXCEPT !.obj[e] = z]
      BY <1>0 DEF Memory
    <3> QED BY <1>5, <3>1
  <2> QED BY <2>1, <2>2
<1> HIDE DEF x
<1>18. Right(x, e) /\ Kept(x, e) /\ e \notin Self /\ ~Fresh(e)
  <2>1. /\ Right(m.obj[e], e) /\ Kept(m.obj[e], e) /\ <<e, m.obj[e].index>> \in acked /\ e \notin Self /\ ~Fresh(e)
        /\ ~m.obj[e].packet.accepted
    BY <1>1, ObjectBooks DEF MemoryOK, ObjectsOK, RemoteOK, Fresh
  <2>2. m.obj[e].index \in Nat /\ Length[e] \in Nat /\ m.obj[e].packet.index \in Nat
    BY <1>0, <1>1, LengthAssumption DEF Entry, Packet
  <2>3. x.index \in Nat /\ x.index <= Length[e] /\ (x.delivered <=> x.index = Length[e])
    BY <1>1, <1>7, <1>16, <2>1, <2>2 DEF Right
  <2>4. x.status = "saved" => x.delivered
    BY <1>1, <1>7, <1>17, <2>1 DEF Right
  <2>5. \A i \in Nat : i < x.index => <<e, i>> \in acked
    <3>1. \A i \in Nat : i < x.index => i < m.obj[e].index \/ i = m.obj[e].index
      BY <1>7, <2>2
    <3> QED BY <2>1, <3>1 DEF Right
  <2>6. x.packet.accepted /\ x.packet.index = x.index - 1
    BY <1>1, <1>3, <1>7, <2>1, <2>2 DEF Right
  <2>7. Right(x, e)
    BY <1>7, <2>1, <2>3, <2>4, <2>5, <2>6 DEF Right
  <2>8. Kept(x, e)
    <3>1. \A s \in sent : s[2] < m.obj[e].index => s[2] < x.index
      BY <1>7, <2>2
    <3> QED BY <1>1, <1>3, <1>7, <2>1, <3>1 DEF Kept
  <2> QED BY <2>1, <2>7, <2>8
<1>9. SendEnds([c EXCEPT !.obj[e].packet.accepted = TRUE]) = n
  <2>1. ASSUME NEW y PROVE [[m EXCEPT !.obj[e] = x] EXCEPT !.remote = y] = [[m EXCEPT !.remote = y] EXCEPT !.obj[e] = x]
    BY <1>0 DEF Memory
  <2>2. [m EXCEPT !.obj[e] = x].remote = m.remote
    BY <1>0 DEF Memory
  <2> QED BY <1>8, <2>1, <2>2 DEF SendEnds
<1>10. Accept(c, e) = Wake(WriteEntry(n, e, "ack"))
  <2> HIDE DEF n
  <2> QED BY <1>9 DEF Accept
<1>11. MemoryOK(k) /\ k.remote.pc = "pass" /\ k.obj = m.obj /\ k.unadmitted \subseteq Self
  <2>1. MemoryOK(k)
    BY <1>1, SendEndsKeeps
  <2>2. k.remote.pc = "pass" /\ k.obj = m.obj /\ k.unadmitted \subseteq Self
    BY <1>0 DEF SendEnds, IdleRemote, Memory
  <2> QED BY <2>1, <2>2
<1> HIDE DEF k
<1>12. MemoryOK(n)
  <2>1. ~Sending(k, e)
    BY <1>11 DEF Sending
  <2> QED BY <1>1, <1>2, <1>3, <1>7, <1>11, <1>18, <2>1, EntryAdvances
<1> HIDE DEF n
<1>13. "ack" \in Writers \ Loops
  BY DEF Writers, Loops
<1>14. MemoryOK(WriteEntry(n, e, "ack"))
  BY <1>12, <1>13, WritesMildly, MildKeeps
<1>15. MemoryOK(Wake(WriteEntry(n, e, "ack")))
  BY <1>14, PumpsMildly, MildKeeps
<1> QED BY <1>4, <1>10, <1>15

(* The worker is done with a packet whose seeds are archived by now. *)
LEMMA ForgetKeeps ==
    ASSUME NEW m, MemoryOK(m), NEW e \in Entries, m.worker.entry = e, NoWait(m, "worker"), m.obj[e].packet # NoPacket,
           UNCHANGED <<row, offers, stored, sent, acked>>, PlanKept, archived \subseteq archived',
           sent \subseteq (Entries \ Self) \X Nat \X Nat,
           Keeps => <<e, m.obj[e].packet.index>> \in archived', mem' = Forget(m, e)
    PROVE  MemoryOK(mem)'
<1>0. /\ m \in Memory /\ m.obj[e] \in Entry /\ m.worker \in WorkerLoop /\ m.obj[e].packet \in Packet
      /\ m.obj \in [Entries -> Entry] /\ m.queued \in [Entries -> SUBSET Writers]
      /\ (m.obj[e].cancelled => e \in m.cancelled)
  BY Records, Parts DEF Entry
<1> DEFINE done == m.obj[e].packet.accepted \/ m.obj[e].cancelled
           p == [m.obj[e].packet EXCEPT !.archived = TRUE]
           packet == IF done THEN NoPacket ELSE p
           x == [m.obj[e] EXCEPT !.packet = packet]
           d == IF done THEN m.durable \ {e} ELSE m.durable
           w == [m.worker EXCEPT !.pc = "forgetting"]
           q == [m.queued EXCEPT ![e] = @ \cup {"worker"}]
           objs == [m.obj EXCEPT ![e] = x]
<1>1. /\ p \in Packet /\ p.index = m.obj[e].packet.index /\ p.accepted = m.obj[e].packet.accepted /\ p.archived
      /\ p.envelope = m.obj[e].packet.envelope
  BY <1>0 DEF Packet
<1>2. p # NoPacket
  BY <1>1, AbsenceAssumption
<1> HIDE DEF p
<1>3. packet \in Packet \cup {NoPacket} /\ (packet # NoPacket => packet = p /\ ~done) /\ (packet = NoPacket => done)
  BY <1>1, <1>2
<1>4. w \in WorkerLoop /\ w.pc = "forgetting" /\ w.entry = e
  BY <1>0 DEF WorkerLoop
<1>5. q \in [Entries -> SUBSET Writers] /\ \A f \in Entries, by \in Loops : by \in q[f] <=> by \in m.queued[f] \/ (f = e /\ by = "worker")
  <2>1. q \in [Entries -> SUBSET Writers]
    BY <1>0 DEF Writers
  <2>2. ASSUME NEW f \in Entries, NEW by \in Loops
        PROVE  by \in q[f] <=> by \in m.queued[f] \/ (f = e /\ by = "worker")
    BY <1>0
  <2> QED BY <2>1, <2>2
<1>6. d \in SUBSET Entries /\ d \subseteq m.durable /\ (done => e \notin d) /\ \A f \in Entries \ {e} : f \in d <=> f \in m.durable
  BY <1>0 DEF Memory
<1>7. mem' = [m EXCEPT !.obj = objs, !.durable = d, !.worker = w, !.queued = q]
  BY <1>0 DEF Forget, WriteEntry, p, Memory
<1> HIDE DEF packet
<1>8. x \in Entry /\ x.packet = packet /\ x.delivered = m.obj[e].delivered /\ x.status = m.obj[e].status
      /\ x.cancelled = m.obj[e].cancelled /\ x.index = m.obj[e].index /\ x.local = m.obj[e].local
  BY <1>0, <1>3 DEF Entry
<1> HIDE DEF x
<1>9. objs \in [Entries -> Entry] /\ objs[e] = x /\ \A f \in Entries \ {e} : objs[f] = m.obj[f]
  BY <1>0, <1>8
<1> HIDE DEF objs, d, w, q
<1>10. /\ mem' \in Memory /\ mem'.obj = objs /\ mem'.durable = d /\ mem'.worker = w /\ mem'.queued = q
       /\ mem'.flying = m.flying /\ mem'.cleaning = m.cleaning /\ mem'.resolved = m.resolved
       /\ mem'.removing = m.removing /\ mem'.cancelled = m.cancelled /\ mem'.closed = m.closed
       /\ mem'.local = m.local /\ mem'.remote = m.remote /\ mem'.listed = m.listed /\ mem'.unadmitted = m.unadmitted
  <2>1. m \in Memory /\ w \in WorkerLoop /\ q \in [Entries -> SUBSET Writers] /\ d \in SUBSET Entries
        /\ objs \in [Entries -> Entry]
    BY <1>0, <1>4, <1>5, <1>6, <1>9
  <2>2. ASSUME NEW n, n = [m EXCEPT !.obj = objs, !.durable = d] PROVE n \in Memory /\ n.obj = objs /\ n.durable = d
        /\ n.flying = m.flying /\ n.cleaning = m.cleaning /\ n.resolved = m.resolved
        /\ n.removing = m.removing /\ n.cancelled = m.cancelled /\ n.closed = m.closed
        /\ n.local = m.local /\ n.remote = m.remote /\ n.listed = m.listed /\ n.unadmitted = m.unadmitted
    BY <2>1, <2>2 DEF Memory
  <2>3. mem' = [[m EXCEPT !.obj = objs, !.durable = d] EXCEPT !.worker = w, !.queued = q]
    BY <1>7
  <2>4. ASSUME NEW n \in Memory, NEW l, l = [n EXCEPT !.worker = w, !.queued = q]
        PROVE  /\ l \in Memory /\ l.obj = n.obj /\ l.durable = n.durable /\ l.worker = w /\ l.queued = q
               /\ l.flying = n.flying /\ l.cleaning = n.cleaning /\ l.resolved = n.resolved
               /\ l.removing = n.removing /\ l.cancelled = n.cancelled /\ l.closed = n.closed
               /\ l.local = n.local /\ l.remote = n.remote /\ l.listed = n.listed /\ l.unadmitted = n.unadmitted
    BY <2>1, <2>4 DEF Memory
  <2>5. PICK n : n = [m EXCEPT !.obj = objs, !.durable = d]
    OBVIOUS
  <2>6. mem' = [n EXCEPT !.worker = w, !.queued = q]
    BY <2>3, <2>5, Zenon
  <2>7. /\ n \in Memory /\ n.obj = objs /\ n.durable = d
        /\ n.flying = m.flying /\ n.cleaning = m.cleaning /\ n.resolved = m.resolved
        /\ n.removing = m.removing /\ n.cancelled = m.cancelled /\ n.closed = m.closed
        /\ n.local = m.local /\ n.remote = m.remote /\ n.listed = m.listed /\ n.unadmitted = m.unadmitted
    BY <2>2, <2>5
  <2>8. ASSUME NEW l, l = [n EXCEPT !.worker = w, !.queued = q]
        PROVE  /\ l \in Memory /\ l.obj = n.obj /\ l.durable = n.durable /\ l.worker = w /\ l.queued = q
               /\ l.flying = n.flying /\ l.cleaning = n.cleaning /\ l.resolved = n.resolved
               /\ l.removing = n.removing /\ l.cancelled = n.cancelled /\ l.closed = n.closed
               /\ l.local = n.local /\ l.remote = n.remote /\ l.listed = n.listed /\ l.unadmitted = n.unadmitted
    BY <2>4, <2>7, <2>8, ZenonT(40)
  <2> QED BY <2>6, <2>7, <2>8
<1>11. e \notin Self /\ offers[e] \notin {"new", "putting"} /\ (e \in m.cleaning => e \in m.cancelled)
  BY DEF MemoryOK, ObjectsOK
<1>12. ASSUME NEW f \in Entries
       PROVE  /\ Sending(mem, f)' <=> Sending(m, f)
              /\ Archiving(mem, f)' <=> f = e
              /\ Waits(mem, "remote", f)' <=> Waits(m, "remote", f)
              /\ Waits(mem, "worker", f)' => f = e
              /\ OnePlace(mem, "remote", f)' <=> OnePlace(m, "remote", f)
              /\ OnePlace(mem, "worker", f)'
              /\ f # e => mem'.obj[f] = m.obj[f]
              /\ f # e => (InRow(mem, f)' <=> InRow(m, f))
              /\ f # e => (Checkpoints(mem, "remote", f)' <=> Checkpoints(m, "remote", f))
  <2>1. ~Waits(m, "worker", f)
    BY DEF NoWait
  <2>2. /\ Sending(mem, f)' <=> Sending(m, f)
        /\ Archiving(mem, f)' <=> f = e
    BY <1>4, <1>10 DEF Sending, Archiving
  <2>3. /\ Waits(mem, "remote", f)' <=> Waits(m, "remote", f)
        /\ OnePlace(mem, "remote", f)' <=> OnePlace(m, "remote", f)
    BY <1>5, <1>10 DEF Waits, OnePlace, Loops
  <2>4. /\ Waits(mem, "worker", f)' => f = e
        /\ OnePlace(mem, "worker", f)'
    BY <1>5, <1>10, <2>1 DEF Waits, OnePlace, Loops
  <2>5. f # e => mem'.obj[f] = m.obj[f]
    BY <1>9, <1>10
  <2>6. f # e => (InRow(mem, f)' <=> InRow(m, f))
    BY <1>10, <2>5 DEF InRow, SamePacket
  <2>7. f # e => (Checkpoints(mem, "remote", f)' <=> Checkpoints(m, "remote", f))
    BY <1>10, <2>5, <2>6 DEF Checkpoints, SamePacket
  <2> QED BY <2>2, <2>3, <2>4, <2>5, <2>6, <2>7
<1>13. /\ mem'.obj[e] = x /\ (x.packet # NoPacket => x.packet.index = m.obj[e].packet.index /\ ~x.packet.accepted /\ ~done)
       /\ ~done => x.packet = p
  BY <1>1, <1>3, <1>8, <1>9, <1>10 DEF packet
<1>14. ~done => /\ InRow(mem, e)' <=> InRow(m, e)
                /\ Checkpoints(mem, "remote", e)' <=> Checkpoints(m, "remote", e)
  <2>1. ~done => (InRow(mem, e)' <=> InRow(m, e))
    BY <1>1, <1>2, <1>10, <1>13 DEF InRow, SamePacket
  <2> QED BY <1>1, <1>2, <1>10, <1>13, <2>1 DEF Checkpoints, SamePacket
<1>15. ASSUME Sending(m, e)
       PROVE  /\ done => e \in m.cancelled
              /\ m.remote.pc # "dropping"
  <2>1. ~m.obj[e].packet.accepted /\ m.remote.pc # "dropping"
    BY <1>15 DEF MemoryOK, RemoteOK
  <2> QED BY <1>0, <2>1
<1>16. ObjectsOK(mem)'
  <2>1. ASSUME NEW f \in Entries
        PROVE  /\ mem'.obj[f].cancelled => f \in mem'.cancelled
               /\ f \in Self => mem'.obj[f].packet = NoPacket /\ mem'.flying[f].entry.packet = NoPacket
               /\ mem'.obj[f].delivered => f \in Self \/ mem'.obj[f].status = "saved"
               /\ f \in mem'.listed => f \in Self \/ row'[f] # NoRow \/ f \in mem'.cancelled
               /\ mem'.obj[f].packet # NoPacket => row'[f] # NoRow \/ f \in mem'.cancelled
               /\ f \in mem'.durable => f \in mem'.cancelled \/ InRow(mem, f)'
               /\ f \in mem'.cleaning => \/ f \in mem'.cancelled
                                         \/ mem'.obj[f].packet = NoPacket /\ (f \in Self \/ mem'.obj[f].delivered)
               /\ f \in mem'.removing => f \in mem'.cancelled
               /\ offers'[f] \in {"new", "putting"} =>
                     /\ f \in mem'.listed => f \in Self
                     /\ ~Sending(mem, f)' /\ f \notin mem'.durable /\ mem'.obj[f].packet = NoPacket
    <3>1. CASE f = e
      BY <1>0, <1>6, <1>8, <1>10, <1>11, <1>13, <1>14, <3>1 DEF MemoryOK, ObjectsOK
    <3>2. CASE f # e
      BY <1>6, <1>10, <1>12, <3>2 DEF MemoryOK, ObjectsOK
    <3> QED BY <3>1, <3>2
  <2> QED BY <2>1 DEF ObjectsOK
<1>17. RemoteOK(mem)'
  <2>1. ASSUME NEW f \in Entries, Sending(mem, f)'
        PROVE  /\ f \notin Self /\ ~mem'.obj[f].delivered /\ (f \in mem'.cancelled => mem'.remote.aborted)
               /\ mem'.obj[f].packet # NoPacket => ~mem'.obj[f].packet.accepted
               /\ row'[f] # NoRow \/ f \in mem'.cancelled
               /\ mem'.remote.pc \in {"transmitting", "sending", "accepted"} =>
                     f \in mem'.cancelled \/ (f \in mem'.durable /\ mem'.obj[f].packet # NoPacket)
               /\ mem'.remote.pc = "dropping" => f \in mem'.cancelled /\ mem'.obj[f].packet = NoPacket
               /\ mem'.remote.pc = "staging" => Checkpoints(mem, "remote", f)'
    <3>0. Sending(m, f)
      BY <1>12, <2>1
    <3>1. CASE f = e /\ ~done
      <4>1. d = m.durable /\ mem'.obj[e].packet # NoPacket
        BY <1>2, <1>13, <3>1 DEF d
      <4> QED BY <1>8, <1>10, <1>13, <1>14, <3>0, <3>1, <4>1 DEF MemoryOK, RemoteOK
    <3>2. CASE f = e /\ done
      <4>1. e \in m.cancelled /\ m.remote.pc # "dropping" /\ x.packet = NoPacket
        BY <1>13, <1>15, <3>0, <3>2
      <4>2. m.remote.pc = "staging" => Checkpoints(m, "remote", e)
        BY <3>0, <3>2 DEF MemoryOK, RemoteOK
      <4>3. m.remote.pc = "staging" => Checkpoints(mem, "remote", e)'
        BY <1>10, <4>1 DEF Checkpoints
      <4> QED BY <1>8, <1>10, <1>13, <3>0, <3>2, <4>1, <4>3 DEF MemoryOK, RemoteOK
    <3>3. CASE f # e
      BY <1>6, <1>10, <1>12, <3>0, <3>3 DEF MemoryOK, RemoteOK
    <3> QED BY <3>1, <3>2, <3>3
  <2> QED BY <2>1 DEF RemoteOK
<1>18. WorkerOK(mem)'
  BY <1>4, <1>10 DEF WorkerOK
<1>19. WaitsOK(mem)'
  BY <1>4, <1>10, <1>12 DEF MemoryOK, WaitsOK
<1>20. MarksOK(mem)'
  <2>1. ASSUME Keeps', NEW f \in Entries PROVE ReallyArchived(mem.obj[f], f)' /\ ReallyArchived(mem.flying[f].entry, f)'
    <3>1. ReallyArchived(m.obj[f], f) /\ ReallyArchived(m.flying[f].entry, f) /\ Keeps
      BY <2>1 DEF MemoryOK, MarksOK, Keeps, PlanKept
    <3>2. ReallyArchived(mem.flying[f].entry, f)'
      BY <1>10, <3>1 DEF ReallyArchived
    <3>3. ReallyArchived(mem.obj[f], f)'
      BY <1>12, <1>13, <3>1 DEF ReallyArchived
    <3> QED BY <3>2, <3>3
  <2> QED BY <2>1 DEF MarksOK
<1>21. SeedsHeld(mem)'
  <2>1. ASSUME Keeps', NEW f \in Entries, NEW i \in Nat, Unsaved(f, i)'
        PROVE  /\ Carries(mem.obj[f], i)'
               /\ mem'.flying[f].who # {} => Carries(mem.flying[f].entry, i)'
               /\ f \notin mem'.cleaning \cup mem'.removing
    <3>1. Unsaved(f, i) /\ Keeps /\ <<f, i>> \notin archived'
      BY <2>1 DEF Unsaved, Keeps, PlanKept
    <3>2. /\ Carries(m.obj[f], i)
          /\ m.flying[f].who # {} => Carries(m.flying[f].entry, i)
          /\ f \notin m.cleaning \cup m.removing
      BY <3>1 DEF MemoryOK, SeedsHeld
    <3>3. f # e
      BY <3>1, <3>2 DEF Carries
    <3> QED BY <1>10, <1>12, <3>2, <3>3 DEF Carries
  <2> QED BY <2>1 DEF SeedsHeld
<1>22. /\ mem'.closed => "close" \in plan'.faults
       /\ mem'.remote.pc \notin {"idle", "pass"} => mem'.remote.entry \in Entries \ Self
       /\ mem'.local.pc \notin {"idle", "pass"} => mem'.local.entry \in Entries
       /\ mem'.worker.pc \notin {"idle", "pass"} => mem'.worker.entry \in Entries
  BY <1>4, <1>10 DEF MemoryOK, PlanKept
<1>23. BooksOK(mem')
  <2>1. SameBooks(m, mem')
    <3>1. \A f \in Entries : "cancel" \in q[f] => "cancel" \in m.queued[f]
      BY <1>0 DEF q
    <3> QED BY <1>10, <3>1 DEF SameBooks
  <2>2. Right(x, e) /\ Kept(x, e)
    <3>1. Right(m.obj[e], e) /\ Kept(m.obj[e], e)
      BY ObjectBooks
    <3>2. Right(x, e)
      <4>1. x.packet # NoPacket => x.packet.index = IF x.packet.accepted THEN x.index - 1 ELSE x.index
        BY <1>1, <1>3, <1>8, <3>1 DEF Right
      <4> QED BY <1>8, <3>1, <4>1 DEF Right
    <3>3. Kept(x, e)
      <4>1. CASE x.packet # NoPacket
        <5>1. x.packet.index = m.obj[e].packet.index /\ x.packet.envelope = m.obj[e].packet.envelope
          BY <1>1, <1>3, <1>8, <4>1
        <5> QED BY <1>8, <3>1, <4>1, <5>1 DEF Kept
      <4>2. CASE x.packet = NoPacket
        <5>1. m.obj[e].cancelled \/ m.obj[e].packet.accepted
          BY <1>3, <1>8, <4>2
        <5>2. m.obj[e].packet.accepted => m.obj[e].packet.index < m.obj[e].index
          <6>1. m.obj[e].packet.index \in Nat /\ m.obj[e].index \in Nat
            BY <1>0 DEF Packet, Entry
          <6> QED BY <3>1, <6>1 DEF Right
        <5> QED BY <1>8, <3>1, <4>2, <5>1, <5>2 DEF Kept
      <4> QED BY <4>1, <4>2
    <3> QED BY <3>2, <3>3
  <2>3. ASSUME NEW f \in Entries
        PROVE  /\ Right(mem'.obj[f], f) /\ Kept(mem'.obj[f], f)
               /\ Sending(mem', f) /\ mem'.remote.pc = "accepted" => <<f, mem'.obj[f].index>> \in acked
               /\ Archiving(mem', f) => Archiving(m, f) \/ ~Fresh(f)
               /\ mem'.obj[f].cancelled = m.obj[f].cancelled /\ mem'.obj[f].local = m.obj[f].local
               /\ mem'.obj[f].status = "saved" => m.obj[f].status = "saved"
    <3>1. Sending(mem', f) /\ mem'.remote.pc = "accepted" => <<f, m.obj[f].index>> \in acked
      BY <1>10, ObjectBooks DEF Sending
    <3>2. Archiving(mem', f) => ~Fresh(f)
      BY <1>4, <1>10, <1>11 DEF Archiving, Fresh
    <3>3. CASE f = e
      BY <1>8, <1>13, <2>2, <3>1, <3>2, <3>3
    <3>4. CASE f # e
      BY <1>9, <1>10, <3>1, <3>2, <3>4, ObjectBooks
    <3> QED BY <3>3, <3>4
  <2>4. HonestOK(mem') /\ CancelOK(mem') /\ AdmissionOK(mem')
    <3>1. ASSUME NEW n, n = mem' PROVE HonestOK(n) /\ CancelOK(n) /\ AdmissionOK(n)
      BY <2>1, <2>3, <3>1, BooksStay
    <3> QED BY <3>1
  <2>5. PauseOK(mem')
    BY <1>10 DEF MemoryOK, PauseOK, Sending, Ended
  <2> QED BY <2>4, <2>5 DEF BooksOK
<1>24. BooksOK(mem)'
  <2>1. PICK n : n = mem'
    OBVIOUS
  <2>2. BooksOK(n)'
    BY <1>23, <2>1, BooksLater DEF Later, Fresh
  <2> QED BY <2>1, <2>2
<1> QED BY <1>10, <1>16, <1>17, <1>18, <1>19, <1>20, <1>21, <1>22, <1>24 DEF MemoryOK, BooksOK

--------------------------------------------------------------------------------
(* What the invariant says of a memory holds over what it does not look at.     *)
LEMMA MemoryLater ==
    ASSUME NEW m, MemoryOK(m), UNCHANGED <<row, sent>>, Later PROVE MemoryOK(m)'
<1>1. ASSUME NEW e \in Entries
      PROVE  /\ Sending(m, e)' <=> Sending(m, e)
             /\ Archiving(m, e)' <=> Archiving(m, e)
             /\ InRow(m, e)' <=> InRow(m, e)
             /\ \A who \in Loops : /\ Waits(m, who, e)' <=> Waits(m, who, e)
                                   /\ OnePlace(m, who, e)' <=> OnePlace(m, who, e)
                                   /\ Checkpoints(m, who, e)' <=> Checkpoints(m, who, e)
  BY DEF Sending, Archiving, InRow, Waits, OnePlace, Checkpoints, SamePacket
<1>0. ASSUME NEW e \in Entries, offers'[e] \in {"new", "putting"} PROVE offers[e] \in {"new", "putting"}
  BY <1>0 DEF Later, Fresh
<1>2. ObjectsOK(m)'
  BY <1>0, <1>1 DEF MemoryOK, ObjectsOK
<1>3. RemoteOK(m)' /\ WorkerOK(m)' /\ WaitsOK(m)'
  BY <1>1 DEF MemoryOK, RemoteOK, WorkerOK, WaitsOK, Loops
<1>4. MarksOK(m)'
  BY DEF MemoryOK, MarksOK, ReallyArchived, Later, PlanKept, Keeps
<1>5. SeedsHeld(m)'
  BY DEF MemoryOK, SeedsHeld, Carries, Unsaved, Later, PlanKept, Keeps
<1>6. BooksOK(m)'
  BY BooksLater DEF MemoryOK, BooksOK
<1> QED BY <1>2, <1>3, <1>4, <1>5, <1>6 DEF MemoryOK, BooksOK, Later, PlanKept

LEMMA WorldStays ==
    ASSUME MemoryOK(mem'), UNCHANGED <<row, offers, stored, archived, sent, acked>>, PlanKept \/ UNCHANGED plan
    PROVE  MemoryOK(mem)'
<1>1. PICK n : n = mem'
  OBVIOUS
<1>2. Later
  BY DEF Later, PlanKept, Fresh
<1>3. MemoryOK(n)'
  BY <1>1, <1>2, MemoryLater
<1> QED BY <1>1, <1>3

LEMMA StoresGrow ==
    ASSUME StoresOK, UNCHANGED <<row, sent>>, Later, stored' \subseteq Entries,
           offers' \in [Entries -> {"new", "putting", "accepted", "refused", "lost"}],
           dropped' \subseteq Entries, \A e \in dropped' : ~Fresh(e)' /\ (row[e] = NoRow \/ row[e].cancelled),
           OnlyALockSurfaces'
    PROVE  StoresOK'
<1>0. ASSUME NEW e \in Entries, offers'[e] \in {"new", "putting"} PROVE offers[e] \in {"new", "putting"}
  BY <1>0 DEF Later, Fresh
<1>1. \A e \in Entries : \A i : <<e, i>> \in archived => <<e, i>> \in archived'
  BY DEF Later
<1>2. \A e \in Entries : ReallyArchived(row[e], e) => ReallyArchived(row[e], e)'
  BY <1>1 DEF ReallyArchived
<1>8. Keeps' <=> Keeps
  BY DEF Keeps, Later, PlanKept
<1>3. Keeps' => SeedRecoverable'
  BY <1>8 DEF StoresOK, SeedRecoverable, Later, PlanKept
<1>4. ASSUME NEW s \in sent PROVE s[1] \in Entries
  BY <1>4 DEF StoresOK
<1>5. ASSUME NEW e \in Entries, row'[e] # NoRow
      PROVE  /\ offers'[e] \notin {"new", "putting"}
             /\ e \in Self => row'[e].packet = NoPacket
             /\ Keeps' => ReallyArchived(row[e], e)'
             /\ Right(row[e], e)' /\ Kept(row[e], e)'
  <2>1. /\ offers[e] \notin {"new", "putting"}
        /\ e \in Self => row[e].packet = NoPacket
        /\ Keeps => ReallyArchived(row[e], e)
        /\ Right(row[e], e) /\ Kept(row[e], e)
    BY <1>5 DEF StoresOK
  <2>2. Right(row[e], e)' /\ Kept(row[e], e)'
    BY <2>1 DEF Right, Kept, Later
  <2> QED BY <1>0, <1>2, <1>8, <2>1, <2>2
<1>6. \A s \in sent' : offers'[s[1]] \notin {"new", "putting"} /\ s[3] = 1
  BY <1>0, <1>4 DEF StoresOK
<1>7. /\ row' \in [Entries -> Entry \cup {NoRow}]
      /\ sent' \subseteq (Entries \ Self) \X Nat \X Nat /\ IsFiniteSet(sent')
  BY DEF StoresOK
<1> QED BY <1>3, <1>5, <1>6, <1>7 DEF StoresOK

LEMMA StoresStay ==
    ASSUME StoresOK, UNCHANGED <<row, stored, sent, acked, told, dropped>>, archived \subseteq archived',
           PlanKept \/ UNCHANGED plan,
           offers' \in [Entries -> {"new", "putting", "accepted", "refused", "lost"}],
           \A e \in Entries : Fresh(e)' => Fresh(e)
    PROVE  StoresOK'
<1>1. Later
  BY DEF Later, PlanKept
<1>2. OnlyALockSurfaces'
  BY DEF StoresOK, OnlyALockSurfaces, PauseNeverSurfaces, PlanKept
<1>3. \A e \in dropped' : ~Fresh(e)' /\ (row[e] = NoRow \/ row[e].cancelled)
  BY DEF StoresOK
<1> QED BY <1>1, <1>2, <1>3, StoresGrow DEF StoresOK

(* A row goes once nothing needs it. *)
LEMMA RowGone ==
    ASSUME NEW e \in Entries, MemoryOK(mem'), row \in [Entries -> Entry \cup {NoRow}], row' = [row EXCEPT ![e] = NoRow],
           UNCHANGED <<stored, sent, archived, acked, offers>>, PlanKept,
           \/ e \in mem'.cancelled
           \/ /\ mem'.obj[e].packet = NoPacket /\ (e \in Self \/ mem'.obj[e].delivered)
              /\ e \in mem'.listed => e \in Self
    PROVE  MemoryOK(mem)'
<1>0. row'[e] = NoRow /\ \A f \in Entries \ {e} : row'[f] = row[f]
  OBVIOUS
<1>1. ASSUME NEW f \in Entries
      PROVE  /\ Sending(mem, f)' <=> Sending(mem', f)
             /\ Archiving(mem, f)' <=> Archiving(mem', f)
             /\ f # e => (InRow(mem, f)' <=> InRow(mem', f))
             /\ \A who \in Loops : /\ Waits(mem, who, f)' <=> Waits(mem', who, f)
                                   /\ OnePlace(mem, who, f)' <=> OnePlace(mem', who, f)
  <2>1. f # e => (InRow(mem, f)' <=> InRow(mem', f))
    BY <1>0 DEF InRow, SamePacket
  <2> QED BY <2>1 DEF Sending, Archiving, Waits, OnePlace
<1>2. e \in mem'.cancelled \/ (~InRow(mem', e) /\ ~Sending(mem', e) /\ ~(Archiving(mem', e) /\ mem'.worker.pc = "checkpoint"))
  <2>1. e \notin mem'.cancelled => mem'.obj[e].packet = NoPacket /\ (e \in Self \/ mem'.obj[e].delivered)
    OBVIOUS
  <2>2. e \notin mem'.cancelled => ~InRow(mem', e)
    BY <2>1 DEF InRow, SamePacket
  <2>3. e \notin mem'.cancelled => ~Sending(mem', e)
    BY <2>1 DEF MemoryOK, RemoteOK
  <2>4. e \notin mem'.cancelled => ~(Archiving(mem', e) /\ mem'.worker.pc = "checkpoint")
    BY <2>1 DEF MemoryOK, WorkerOK
  <2> QED BY <2>2, <2>3, <2>4
<1>3. ASSUME NEW f \in Entries, NEW who \in Loops, Checkpoints(mem', who, f),
             f # e \/ e \in mem'.cancelled
      PROVE  Checkpoints(mem, who, f)'
  BY <1>1, <1>3 DEF Checkpoints, SamePacket
<1>4. ObjectsOK(mem)'
  <2>1. ASSUME NEW f \in Entries
        PROVE  /\ f \in mem'.listed => f \in Self \/ row'[f] # NoRow \/ f \in mem'.cancelled
               /\ f \in mem'.durable => f \in mem'.cancelled \/ InRow(mem, f)'
    BY <1>0, <1>1, <1>2 DEF MemoryOK, ObjectsOK
  <2> QED BY <1>1, <2>1 DEF MemoryOK, ObjectsOK
<1>5. RemoteOK(mem)'
  <2>1. ASSUME NEW f \in Entries, Sending(mem, f)'
        PROVE  /\ Sending(mem', f) /\ (row'[f] # NoRow \/ f \in mem'.cancelled)
               /\ mem'.remote.pc = "staging" => Checkpoints(mem, "remote", f)'
    BY <1>0, <1>1, <1>2, <1>3, <2>1 DEF MemoryOK, RemoteOK, Loops
  <2> QED BY <2>1 DEF MemoryOK, RemoteOK
<1>6. WorkerOK(mem)'
  BY <1>1, <1>2, <1>3 DEF MemoryOK, WorkerOK, Loops
<1>7. WaitsOK(mem)'
  BY <1>1 DEF MemoryOK, WaitsOK, Loops
<1>8. MarksOK(mem)'
  BY DEF MemoryOK, MarksOK, ReallyArchived, Keeps, PlanKept
<1>9. SeedsHeld(mem)'
  BY DEF MemoryOK, SeedsHeld, Carries, Unsaved, Keeps, PlanKept
<1>10. BooksOK(mem)'
  <2>1. PICK n : n = mem'
    OBVIOUS
  <2>2. BooksOK(n) /\ Later /\ \A f \in Entries : row'[f] \in {row[f], NoRow}
    BY <1>0, <2>1 DEF MemoryOK, BooksOK, Later, Fresh
  <2>3. BooksOK(n)'
    BY <2>2, BooksLater
  <2> QED BY <2>1, <2>3
<1> QED BY <1>4, <1>5, <1>6, <1>7, <1>8, <1>9, <1>10 DEF MemoryOK, BooksOK, PlanKept

LEMMA StoresWithout ==
    ASSUME NEW e \in Entries, StoresOK, row' = [row EXCEPT ![e] = NoRow], UNCHANGED <<stored, sent, archived, acked, told, offers>>,
           PlanKept, Keeps => \A i \in Nat : ~Unsaved(e, i), dropped' \in {dropped, dropped \cup {e}}, ~Fresh(e)
    PROVE  StoresOK'
<1>0. row' \in [Entries -> Entry \cup {NoRow}] /\ row'[e] = NoRow /\ \A f \in Entries \ {e} : row'[f] = row[f]
  BY DEF StoresOK
<1>1. Keeps' => SeedRecoverable'
  <2>1. ASSUME Keeps', NEW s \in sent'
        PROVE  \/ <<s[1], s[2]>> \in archived'
               \/ /\ row'[s[1]] # NoRow
                  /\ row'[s[1]].packet # NoPacket
                  /\ row'[s[1]].packet.index = s[2]
                  /\ ~row'[s[1]].packet.archived
    <3>1. s \in sent /\ s[1] \in Entries /\ s[2] \in Nat /\ Keeps /\ plan.recover
      BY <2>1 DEF StoresOK, Keeps, PlanKept
    <3>2. s[1] = e => <<s[1], s[2]>> \in archived
      BY <3>1 DEF Unsaved
    <3> QED BY <1>0, <3>1, <3>2 DEF StoresOK, SeedRecoverable
  <2> QED BY <2>1 DEF SeedRecoverable
<1>2. ASSUME NEW f \in Entries, row'[f] # NoRow
      PROVE  /\ offers'[f] \notin {"new", "putting"}
             /\ f \in Self => row'[f].packet = NoPacket
             /\ Keeps' => ReallyArchived(row[f], f)'
             /\ Right(row[f], f)' /\ Kept(row[f], f)'
  <2>1. row'[f] = row[f] /\ row[f] # NoRow
    BY <1>0, <1>2
  <2>2. /\ offers[f] \notin {"new", "putting"}
        /\ f \in Self => row[f].packet = NoPacket
        /\ Keeps => ReallyArchived(row[f], f)
        /\ Right(row[f], f) /\ Kept(row[f], f)
    BY <2>1 DEF StoresOK
  <2>3. Right(row[f], f)' /\ Kept(row[f], f)'
    BY <2>1, <2>2 DEF Right, Kept
  <2>4. Keeps' => ReallyArchived(row[f], f)'
    BY <2>1, <2>2 DEF ReallyArchived, Keeps, PlanKept
  <2> QED BY <2>1, <2>2, <2>3, <2>4
<1>3. /\ sent' \subseteq (Entries \ Self) \X Nat \X Nat /\ IsFiniteSet(sent')
      /\ offers' \in [Entries -> {"new", "putting", "accepted", "refused", "lost"}]
      /\ \A s \in sent' : offers'[s[1]] \notin {"new", "putting"} /\ s[3] = 1
      /\ stored' \subseteq Entries /\ dropped' \subseteq Entries
  BY DEF StoresOK
<1>4. OnlyALockSurfaces'
  BY DEF StoresOK, OnlyALockSurfaces, PauseNeverSurfaces, PlanKept
<1>5. \A f \in dropped' : ~Fresh(f)' /\ (row'[f] = NoRow \/ row'[f].cancelled)
  <2>1. ASSUME NEW f \in dropped' PROVE ~Fresh(f)' /\ (row'[f] = NoRow \/ row'[f].cancelled)
    <3>1. f \in Entries /\ ~Fresh(f) /\ (f = e \/ row[f] = NoRow \/ row[f].cancelled)
      BY DEF StoresOK
    <3> QED BY <1>0, <3>1 DEF Fresh
  <2> QED BY <2>1
<1> QED BY <1>0, <1>1, <1>2, <1>3, <1>4, <1>5 DEF StoresOK

LEMMA FaultsKeep ==
    ASSUME PlanOK, NEW kind, Fault(kind)
    PROVE  PlanOK' /\ PlanKept /\ kind \in plan.faults
<1>1. PICK p \in Plans : plan \in {[p EXCEPT !.left = n] : n \in 0..p.left}
  BY DEF PlanOK
<1>2. p.left \in Nat /\ plan.left \in Nat /\ plan.left <= p.left /\ plan = [p EXCEPT !.left = plan.left]
  BY <1>1, PlansAssumption
<1>3. plan' = [plan EXCEPT !.left = plan.left - 1] /\ plan.left > 0 /\ kind \in plan.faults
  BY DEF Fault
<1>4. plan' = [p EXCEPT !.left = plan.left - 1] /\ plan.left - 1 \in 0..p.left
  BY <1>2, <1>3, PlansAssumption
<1>5. plan' \in [offered : SUBSET Entries, recover : BOOLEAN, faults : SUBSET FaultKinds, left : Nat] /\ PlanKept
  BY <1>2, <1>3 DEF PlanOK, PlanKept
<1> QED BY <1>3, <1>4, <1>5 DEF PlanOK

--------------------------------------------------------------------------------
(* The journal's worker. *)
LEMMA WorkerGoesTo ==
    ASSUME NEW m, MemoryOK(m), NoWait(m, "worker"), NEW e \in Entries, m.worker.entry = e,
           NEW pc \in {"checkpoint", "waiting", "archiving", "pass"}, pc # "pass" => m.obj[e].packet # NoPacket,
           NEW n, n = [m EXCEPT !.worker.pc = pc]
    PROVE  MemoryOK(n) /\ n.worker.entry = e /\ NoWait(n, "worker") /\ n.worker.pc = pc /\ n.obj = m.obj
<1>0. m \in Memory /\ m.worker \in WorkerLoop
  BY Records
<1> DEFINE x == [m.worker EXCEPT !.pc = pc]
<1>1. x \in WorkerLoop /\ x.pc = pc /\ x.entry = e
  BY <1>0 DEF WorkerLoop
<1>2. n = [m EXCEPT !.worker = x]
  BY <1>0 DEF Memory
<1> HIDE DEF x
<1>5. pc # "pass" => ~Fresh(e)
  BY DEF MemoryOK, ObjectsOK, Fresh
<1>3. MemoryOK([m EXCEPT !.worker = x])
  BY <1>0, <1>1, <1>5, WorkerSteps DEF Asleep
<1>4. n.worker = x /\ n.queued = m.queued /\ n.flying = m.flying /\ n.resolved = m.resolved /\ n.obj = m.obj
  BY <1>0, <1>2 DEF Memory
<1> QED BY <1>1, <1>2, <1>3, <1>4 DEF NoWait, Waits

LEMMA WorkerLeaves ==
    ASSUME NEW m, MemoryOK(m), NoWait(m, "worker"), NEW n, n = [m EXCEPT !.worker.pc = "pass", !.worker.entry = 0]
    PROVE  MemoryOK(n)
<1>0. m \in Memory /\ m.worker \in WorkerLoop /\ 0 \in Nat
  BY Parts DEF MemoryOK
<1> DEFINE x == [m.worker EXCEPT !.pc = "pass", !.entry = 0]
<1>1. x \in WorkerLoop /\ x.pc = "pass"
  BY <1>0 DEF WorkerLoop
<1>2. n = [m EXCEPT !.worker = x]
  BY <1>0 DEF Memory
<1> HIDE DEF x
<1>3. x.pc \in Asleep
  BY <1>1 DEF Asleep
<1>4. MemoryOK([m EXCEPT !.worker = x])
  BY <1>1, <1>3, WorkerSteps
<1> QED BY <1>2, <1>4

LEMMA WorkerFailsKeeps ==
    ASSUME NEW m, MemoryOK(m), NoWait(m, "worker"), NEW e \in Entries PROVE MemoryOK(WorkerFails(m, e))
<1>0. m \in Memory
  BY DEF MemoryOK
<1>1. ASSUME NEW n, n = [m EXCEPT !.worker.pc = "pass", !.worker.entry = 0],
             NEW p, p = [n EXCEPT !.unarchived = @ \cup {e}]
      PROVE  MemoryOK(p)
  <2>1. MemoryOK(n) /\ n \in Memory
    BY <1>1, WorkerLeaves DEF MemoryOK
  <2>2. p \in Memory
    <3> DEFINE u == n.unarchived \cup {e}
    <3>1. u \in SUBSET Entries
      BY <2>1 DEF Memory
    <3>2. p = [n EXCEPT !.unarchived = u]
      BY <1>1, <2>1
    <3> HIDE DEF u
    <3> QED BY <2>1, <3>1, <3>2, SMTT(40) DEF Memory
  <2>3. Untouched(n, p)
    BY <1>1, <2>1, ZenonT(40) DEF Memory, Untouched
  <2>4. p.closed = n.closed /\ p.remote = n.remote /\ p.local = n.local /\ p.worker = n.worker
    BY <1>1, <2>1, ZenonT(40) DEF Memory
  <2> QED BY <2>1, <2>2, <2>3, <2>4, OtherwiseStays, MildKeeps
<1>2. [m EXCEPT !.unarchived = @ \cup {e}, !.worker.pc = "pass", !.worker.entry = 0]
      = [[m EXCEPT !.worker.pc = "pass", !.worker.entry = 0] EXCEPT !.unarchived = @ \cup {e}]
  BY <1>0 DEF Memory
<1>3. MemoryOK([m EXCEPT !.unarchived = @ \cup {e}, !.worker.pc = "pass", !.worker.entry = 0])
  BY <1>1, <1>2
<1> QED BY <1>3, TimersMildly, MildKeeps DEF WorkerFails

LEMMA ArchiveOrForgetKeeps ==
    ASSUME NEW m, MemoryOK(m), NEW e \in Entries, m.worker.entry = e, NoWait(m, "worker"), m.obj[e].packet # NoPacket,
           StoresOK, UNCHANGED <<row, offers, stored, archived, sent, acked, plan>>, mem' = ArchiveOrForget(m, e)
    PROVE  MemoryOK(mem)'
<1>1. CASE m.obj[e].packet.archived
  <2>1. Keeps => <<e, m.obj[e].packet.index>> \in archived'
    BY <1>1 DEF MemoryOK, MarksOK, ReallyArchived
  <2>2. mem' = Forget(m, e)
    BY <1>1 DEF ArchiveOrForget
  <2>3. PlanKept /\ archived \subseteq archived' /\ sent \subseteq (Entries \ Self) \X Nat \X Nat
    BY DEF PlanKept, StoresOK
  <2> QED BY <2>1, <2>2, <2>3, ForgetKeeps
<1>2. CASE ~m.obj[e].packet.archived
  <2>1. mem' = [m EXCEPT !.worker.pc = "waiting"]
    BY <1>2 DEF ArchiveOrForget
  <2>2. MemoryOK(mem')
    BY <2>1, WorkerGoesTo
  <2> QED BY <2>2, WorldStays
<1> QED BY <1>1, <1>2

LEMMA WorkerPassKeeps == ASSUME StoresOK, MemoryOK(mem), WorkerPass PROVE MemoryOK(mem)'
<1>0. mem \in Memory /\ mem.worker \in WorkerLoop /\ mem.listed \subseteq Entries /\ NoWait(mem, "worker") /\ mem.worker.pc = "pass"
      /\ UNCHANGED <<row, offers, stored, archived, sent, acked, plan>>
  BY Parts, Quiet DEF MemoryOK, WorkerPass, Memory, world
<1> DEFINE next == WorkerCandidates(mem)
           e == Min(next)
           m == [mem EXCEPT !.worker.entry = e, !.worker.visited = @ \cup {x \in mem.listed : x <= e}]
<1>1. mem' = IF mem.stopped \/ ~mem.journaling \/ next = {} THEN WorkerPassEnds(mem)
             ELSE IF e \in mem.durable THEN ArchiveOrForget(m, e)
             ELSE WriteEntry([m EXCEPT !.worker.pc = "checkpoint"], e, "worker")
  BY Zenon DEF WorkerPass
<1>2. MemoryOK(WorkerPassEnds(mem))
  BY <1>0, WorkerPassEndsMildly, MildKeeps
<1>3. ASSUME next # {}
      PROVE  e \in Entries /\ MemoryOK(m) /\ m.worker.entry = e /\ NoWait(m, "worker") /\ m.obj[e].packet # NoPacket
  <2>1. next \subseteq Nat
    BY <1>0, EntriesAssumption DEF WorkerCandidates
  <2>2. e \in next
    BY <1>3, <2>1, MinOfNaturals
  <2>3. e \in Entries /\ e \in Nat /\ mem.obj[e].packet # NoPacket
    BY <1>0, <2>2, EntriesAssumption DEF WorkerCandidates
  <2> HIDE DEF e, next
  <2> DEFINE passed == mem.worker.visited \cup {x \in mem.listed : x <= e}
             w == [mem.worker EXCEPT !.entry = e, !.visited = passed]
  <2>4. passed \in SUBSET Entries
    BY <1>0 DEF WorkerLoop
  <2>5. m = [mem EXCEPT !.worker = w]
    BY <1>0 DEF Memory
  <2> HIDE DEF passed
  <2>6. w \in WorkerLoop /\ w.pc = "pass" /\ w.entry = e
    BY <1>0, <2>3, <2>4 DEF WorkerLoop
  <2> HIDE DEF w, m
  <2>7. Mild(mem, m)
    BY <1>0, <2>5, <2>6, WorkerMoves DEF Asleep
  <2>8. MemoryOK(m) /\ NoWait(m, "worker")
    BY <1>0, <2>7, MildKeeps, MildNoWait DEF Loops
  <2>9. m.worker = w /\ m.obj = mem.obj
    BY <1>0, <2>5 DEF Memory
  <2> QED BY <2>3, <2>6, <2>8, <2>9
<1> HIDE DEF next, e, m
<1>4. ASSUME next # {}, mem' = WriteEntry([m EXCEPT !.worker.pc = "checkpoint"], e, "worker") PROVE MemoryOK(mem')
  <2>1. ASSUME NEW n, n = [m EXCEPT !.worker.pc = "checkpoint"] PROVE MemoryOK(WriteEntry(n, e, "worker"))
    <3>1. MemoryOK(n) /\ n.worker.entry = e /\ NoWait(n, "worker") /\ n.worker.pc = "checkpoint"
      BY <1>3, <1>4, <2>1, WorkerGoesTo
    <3>2. Archiving(n, e) /\ ~Waits(n, "worker", e)
      BY <1>3, <1>4, <3>1 DEF Archiving, NoWait
    <3> QED BY <1>3, <1>4, <3>1, <3>2, LoopWrites DEF Loops
  <2> QED BY <1>4, <2>1
<1>5. CASE mem' = WorkerPassEnds(mem)
  BY <1>0, <1>2, <1>5, WorldStays
<1>6. CASE next # {} /\ mem' = ArchiveOrForget(m, e)
  BY <1>0, <1>3, <1>6, ArchiveOrForgetKeeps
<1>7. CASE next # {} /\ mem' = WriteEntry([m EXCEPT !.worker.pc = "checkpoint"], e, "worker")
  BY <1>0, <1>4, <1>7, WorldStays
<1> QED BY <1>1, <1>5, <1>6, <1>7

LEMMA ChangesMildly == ASSUME NEW m, MemoryOK(m), NEW e \in Entries, Known(m, e) PROVE Mild(m, Changed(m, e))
BY CleansMildly, PumpsMildly DEF Changed

LEMMA WorkerCheckedKeeps == ASSUME StoresOK, MemoryOK(mem), WorkerChecked PROVE MemoryOK(mem)'
<1> DEFINE e == mem.worker.entry
           m == Taken("worker", e)
<1>0. e \in Entries /\ mem.worker.pc = "checkpoint" /\ UNCHANGED <<row, offers, stored, archived, sent, acked, plan>> /\ mem \in Memory
      /\ Archiving(mem, e)
  BY DEF MemoryOK, WorkerChecked, world, Archiving
<1>1. mem.obj[e].packet # NoPacket /\ offers[e] \notin {"new", "putting"}
  BY <1>0 DEF MemoryOK, WorkerOK, ObjectsOK
<1>2. \/ Resolved("worker", e, TRUE) /\ mem' = ArchiveOrForget([m EXCEPT !.durable = @ \cup {e}], e)
      \/ Resolved("worker", e, FALSE) /\ mem' = WorkerFails(m, e)
  BY Zenon DEF WorkerChecked
<1>3. ASSUME NEW ok \in BOOLEAN, Resolved("worker", e, ok) PROVE MemoryOK(m) /\ NoWait(m, "worker")
  <2>1. m = [mem EXCEPT !.resolved = @ \ {<<"worker", e, TRUE>>, <<"worker", e, FALSE>>}]
    BY DEF Taken
  <2> HIDE DEF m, e
  <2> QED BY <1>0, <1>3, <2>1, TakenKeeps DEF Resolved, Loops
<1>4. m.obj = mem.obj /\ m.worker = mem.worker /\ m.flying = mem.flying /\ m.cancelled = mem.cancelled /\ m.queued = mem.queued
  BY <1>0 DEF Taken, Memory
<1>5. CASE Resolved("worker", e, FALSE) /\ mem' = WorkerFails(m, e)
  <2> HIDE DEF m, e
  <2>1. MemoryOK(mem')
    BY <1>0, <1>3, <1>5, WorkerFailsKeeps
  <2> QED BY <1>0, <2>1, WorldStays
<1>6. CASE Resolved("worker", e, TRUE) /\ mem' = ArchiveOrForget([m EXCEPT !.durable = @ \cup {e}], e)
  <2>1. e \in mem.cancelled \/ InRow(mem, e)
    BY <1>0, <1>6 DEF Resolved, MemoryOK, WorkerOK, Checkpoints
  <2>2. e \in m.cancelled \/ InRow(m, e)
    BY <1>4, <2>1 DEF InRow
  <2> HIDE DEF m, e
  <2>3. ASSUME NEW n, n = [m EXCEPT !.durable = @ \cup {e}]
        PROVE  MemoryOK(n) /\ NoWait(n, "worker") /\ n.worker.entry = e /\ n.obj[e].packet # NoPacket
    <3>1. MemoryOK(n)
      BY <1>0, <1>1, <1>3, <1>6, <2>2, <2>3, DurableKeeps
    <3>2. m \in Memory /\ NoWait(m, "worker")
      BY <1>3, <1>6 DEF MemoryOK
    <3>3. n.worker = m.worker /\ n.obj = m.obj /\ n.queued = m.queued /\ n.flying = m.flying /\ n.resolved = m.resolved
      BY <2>3, <3>2 DEF Memory
    <3>4. m.worker.entry = e
      BY <1>4 DEF e
    <3> QED BY <1>1, <1>4, <3>1, <3>2, <3>3, <3>4 DEF NoWait, Waits
  <2> QED BY <1>0, <1>6, <2>3, ArchiveOrForgetKeeps
<1> QED BY <1>2, <1>5, <1>6

LEMMA WorkerWaitedKeeps == ASSUME StoresOK, MemoryOK(mem), WorkerWaited PROVE MemoryOK(mem)'
<1> DEFINE e == mem.worker.entry
<1>0. /\ e \in Entries /\ mem.worker.pc = "waiting" /\ UNCHANGED <<row, offers, stored, archived, sent, acked, plan>>
      /\ mem.obj[e].packet # NoPacket
  BY DEF MemoryOK, WorkerWaited, world, WorkerOK, Archiving
<1>1. NoWait(mem, "worker")
  BY <1>0, Quiet
<1>2. CASE mem.closed /\ mem' = Forget(mem, e)
  <2>1. ~Keeps
    BY <1>2 DEF MemoryOK, Keeps
  <2>2. PlanKept /\ archived \subseteq archived' /\ sent \subseteq (Entries \ Self) \X Nat \X Nat
    BY <1>0 DEF PlanKept, StoresOK
  <2> QED BY <1>0, <1>1, <1>2, <2>1, <2>2, ForgetKeeps
<1>3. CASE mem' = [mem EXCEPT !.worker.pc = "archiving"]
  <2>1. MemoryOK(mem')
    BY <1>0, <1>1, <1>3, WorkerGoesTo
  <2> QED BY <1>0, <2>1, WorldStays
<1> QED BY <1>2, <1>3, Zenon DEF WorkerWaited

LEMMA WorkerArchivesKeeps == ASSUME PlanOK, StoresOK, MemoryOK(mem), WorkerArchives PROVE MemoryOK(mem)'
<1> DEFINE e == mem.worker.entry
<1>0. e \in Entries /\ mem.worker.pc = "archiving" /\ UNCHANGED <<row, offers, stored, sent, acked>> /\ mem.obj[e].packet # NoPacket
  BY DEF MemoryOK, WorkerArchives, WorkerOK, Archiving
<1>1. NoWait(mem, "worker")
  BY <1>0, Quiet
<1>2. CASE /\ archived' = archived \cup {<<e, mem.obj[e].packet.index>>}
           /\ mem' = Forget(mem, e)
           /\ UNCHANGED plan
  <2>1. /\ PlanKept /\ archived \subseteq archived' /\ sent \subseteq (Entries \ Self) \X Nat \X Nat
        /\ <<e, mem.obj[e].packet.index>> \in archived'
    BY <1>2 DEF PlanKept, StoresOK
  <2> QED BY <1>0, <1>1, <1>2, <2>1, ForgetKeeps
<1>3. CASE Fault("archive") /\ mem' = WorkerFails(mem, e) /\ UNCHANGED archived
  <2>1. MemoryOK(mem')
    BY <1>0, <1>1, <1>3, WorkerFailsKeeps
  <2>2. PlanKept
    BY <1>3, FaultsKeep
  <2> QED BY <1>0, <1>3, <2>1, <2>2, WorldStays
<1> QED BY <1>2, <1>3, Zenon DEF WorkerArchives

LEMMA WorkerForgotKeeps == ASSUME MemoryOK(mem), WorkerForgot PROVE MemoryOK(mem)'
<1> DEFINE e == mem.worker.entry
           m == Taken("worker", e)
<1>0. e \in Entries /\ mem.worker.pc = "forgetting" /\ UNCHANGED <<row, offers, stored, archived, sent, acked, plan>>
  BY DEF MemoryOK, WorkerForgot, world
<1>1. \/ Resolved("worker", e, TRUE) /\ mem' = Changed([m EXCEPT !.worker.pc = "pass", !.worker.entry = 0], e)
      \/ Resolved("worker", e, FALSE) /\ mem' = WorkerFails(m, e)
  BY Zenon DEF WorkerForgot
<1>4. ~Fresh(e)
  BY <1>0 DEF MemoryOK, AdmissionOK, Archiving
<1>2. MemoryOK(m) /\ NoWait(m, "worker")
  <2>1. m = [mem EXCEPT !.resolved = @ \ {<<"worker", e, TRUE>>, <<"worker", e, FALSE>>}]
    BY DEF Taken
  <2>2. PICK ok \in BOOLEAN : Resolved("worker", e, ok)
    BY <1>1
  <2> HIDE DEF m, e
  <2> QED BY <1>0, <2>1, <2>2, TakenKeeps DEF Resolved, Loops
<1> HIDE DEF m, e
<1>3. MemoryOK(Changed([m EXCEPT !.worker.pc = "pass", !.worker.entry = 0], e)) /\ MemoryOK(WorkerFails(m, e))
  <2>1. MemoryOK([m EXCEPT !.worker.pc = "pass", !.worker.entry = 0])
    BY <1>2, WorkerLeaves
  <2>2. Known([m EXCEPT !.worker.pc = "pass", !.worker.entry = 0], e)
    BY <1>4 DEF Known
  <2> QED BY <1>0, <1>2, <2>1, <2>2, ChangesMildly, MildKeeps, WorkerFailsKeeps
<1> QED BY <1>0, <1>1, <1>3, WorldStays

--------------------------------------------------------------------------------
(* pumpRemote. *)
LEMMA MildSends ==
    ASSUME NEW m, NEW n, Mild(m, n), NEW e, Sending(m, e)
    PROVE  Sending(n, e) /\ n.remote.pc = m.remote.pc /\ n.remote.entry = e
BY DEF Mild, SameSending, Sending, Asleep

LEMMA DelistsMildly ==
    ASSUME NEW m, MemoryOK(m), NEW S, S \cap m.unadmitted = {}, NEW n, n = [m EXCEPT !.listed = @ \ S]
    PROVE  Mild(m, n)
<1>1. m \in Memory /\ (m.local.pc \notin Asleep => m.local.entry \in Entries)
  BY DEF MemoryOK, Asleep
<1>2. PICK l \in SUBSET Entries : l = m.listed \ S
  BY <1>1 DEF Memory
<1>3. /\ n \in Memory /\ n.listed = l
      /\ n.obj = m.obj /\ n.queued = m.queued /\ n.flying = m.flying /\ n.cleaning = m.cleaning
      /\ n.resolved = m.resolved /\ n.durable = m.durable /\ n.removing = m.removing /\ n.cancelled = m.cancelled
      /\ n.closed = m.closed /\ n.local = m.local /\ n.worker = m.worker /\ n.remote = m.remote
      /\ n.unadmitted = m.unadmitted
  <2>1. n = [m EXCEPT !.listed = l]
    BY <1>2
  <2> QED BY <1>1, <2>1 DEF Memory
<1>4. ASSUME NEW f \in Entries PROVE SameEntry(m, n, f)
  <2>1. (m.obj[f].cancelled => f \in m.cancelled) /\ (f \in m.unadmitted => f \in n.listed)
    BY <1>2, <1>3 DEF MemoryOK, ObjectsOK, AdmissionOK
  <2>2. Saving(n, f) <=> Saving(m, f)
    BY <1>3 DEF Saving
  <2> QED BY <1>2, <1>3, <2>1, <2>2 DEF SameEntry, SameSend, SavesRightly, Known
<1> QED BY <1>1, <1>3, <1>4 DEF Mild, SameSending

LEMMA RemotePassKeeps == ASSUME MemoryOK(mem), RemotePass PROVE MemoryOK(mem)'
<1>0. mem \in Memory /\ mem.remote \in RemoteLoop /\ mem.listed \subseteq Entries /\ NoWait(mem, "remote") /\ mem.remote.pc = "pass"
      /\ UNCHANGED <<row, offers, stored, archived, sent, acked, plan>>
  BY Parts, Quiet DEF MemoryOK, RemotePass, Memory, world
<1> DEFINE left == mem.listed \ mem.remote.visited
           next == {e \in left : Sendable(mem, e)}
           passed == IF next = {} THEN left ELSE {e \in left : e <= Min(next)}
           base == IF passed \cap AcceptedPackets(mem) = {} THEN mem ELSE Wake(mem)
           visiting == [base EXCEPT !.remote.visited = @ \cup passed]
<1>1. mem' = IF ~Running(mem) THEN RemotePassEnds(mem)
             ELSE IF next = {} THEN RemotePassEnds(visiting)
             ELSE BeginSend(visiting, Min(next))
  BY Zenon DEF RemotePass
<1>2. passed \subseteq Entries /\ left \subseteq Entries
  BY <1>0
<1>3. next # {} => Min(next) \in left /\ Sendable(mem, Min(next))
  <2>1. next \subseteq Nat
    BY <1>2, EntriesAssumption
  <2> QED BY <2>1, MinOfNaturals
<1> HIDE DEF next, passed, left
<1>4. Mild(mem, base) /\ base.remote = mem.remote /\ base.obj = mem.obj /\ base.listed = mem.listed /\ base.cancelled = mem.cancelled
  <2>1. Mild(mem, base)
    BY PumpsMildly, Stays
  <2>2. LET w == Wake(mem) IN w.remote = mem.remote /\ w.obj = mem.obj /\ w.listed = mem.listed /\ w.cancelled = mem.cancelled
    BY <1>0 DEF Wake, Memory
  <2> QED BY <2>1, <2>2
<1> HIDE DEF base
<1>5. base \in Memory /\ MemoryOK(base)
  BY <1>4, MildKeeps DEF Mild
<1>6. Mild(mem, visiting) /\ visiting.remote.pc = "pass" /\ visiting.obj = mem.obj /\ visiting.listed = mem.listed
      /\ visiting.cancelled = mem.cancelled
  <2> DEFINE s == base.remote.visited \cup passed
  <2>1. s \in SUBSET Entries
    BY <1>0, <1>2, <1>4 DEF RemoteLoop
  <2>2. visiting = [base EXCEPT !.remote.visited = s]
    BY <1>5 DEF Memory
  <2> HIDE DEF s, visiting
  <2>3. Mild(base, visiting)
    BY <1>5, <2>1, <2>2, VisitsMildly
  <2>4. visiting.obj = base.obj /\ visiting.listed = base.listed /\ visiting.cancelled = base.cancelled
    BY <1>5, <2>2 DEF Memory
  <2>5. visiting.remote.pc = base.remote.pc
    <3>1. visiting.remote = [base.remote EXCEPT !.visited = s]
      BY <1>5, <2>2 DEF Memory
    <3>2. base.remote \in RemoteLoop
      BY <1>0, <1>4
    <3> QED BY <3>1, <3>2 DEF RemoteLoop
  <2> QED BY <1>0, <1>4, <2>3, <2>4, <2>5, MildAgain
<1> HIDE DEF visiting
<1>7. MemoryOK(visiting) /\ NoWait(visiting, "remote")
  BY <1>0, <1>6, MildKeeps, MildNoWait DEF Loops
<1>8. MemoryOK(RemotePassEnds(mem)) /\ MemoryOK(RemotePassEnds(visiting))
  BY <1>0, <1>6, <1>7, RemotePassEndsMildly, MildKeeps
<1>9. ASSUME next # {} PROVE MemoryOK(BeginSend(visiting, Min(next)))
  <2>1. Min(next) \in left /\ Sendable(mem, Min(next))
    BY <1>3, <1>9
  <2>2. /\ Min(next) \in Entries \ Self /\ Min(next) \in mem.listed /\ Min(next) \notin mem.cancelled
        /\ mem.obj[Min(next)].status # "saved"
        /\ mem.obj[Min(next)].packet # NoPacket => ~mem.obj[Min(next)].packet.accepted
    BY <1>2, <2>1 DEF Sendable, left
  <2>3. ~mem.obj[Min(next)].delivered
    BY <2>2 DEF MemoryOK, ObjectsOK
  <2> QED BY <1>6, <1>7, <2>2, <2>3, BeginSendKeeps
<1> QED BY <1>0, <1>1, <1>8, <1>9, WorldStays

(* A publication in progress, and what it may be told. *)
LEMMA InProgress ==
    ASSUME MemoryOK(mem), mem.remote.pc \notin Asleep
    PROVE  LET e == mem.remote.entry
           IN  /\ e \in Entries \ Self /\ Sending(mem, e) /\ offers[e] \notin {"new", "putting"}
               /\ Interruptions(mem) \subseteq Causes /\ ("abort" \in Interruptions(mem) => mem.remote.aborted)
               /\ mem.remote.pc \notin {"staging", "failing", "cancelling"} => NoWait(mem, "remote")
<1>1. mem.remote.entry \in Entries \ Self /\ Sending(mem, mem.remote.entry)
  BY DEF MemoryOK, Sending, Asleep
<1>2. offers[mem.remote.entry] \notin {"new", "putting"}
  BY <1>1 DEF MemoryOK, ObjectsOK
<1>3. Interruptions(mem) \subseteq Causes /\ ("abort" \in Interruptions(mem) => mem.remote.aborted)
  BY DEF Interruptions, Causes
<1> QED BY <1>1, <1>2, <1>3, Quiet

LEMMA RemoteCheckKeeps == ASSUME MemoryOK(mem), RemoteCheck PROVE MemoryOK(mem)'
<1> DEFINE e == mem.remote.entry
           m == Checked(mem, e)
<1>0. mem.remote.pc = "checking" /\ UNCHANGED <<row, offers, stored, archived, sent, acked, plan>>
  BY DEF RemoteCheck, world
<1>1. e \in Entries \ Self /\ Sending(mem, e) /\ NoWait(mem, "remote")
  BY <1>0, InProgress DEF Asleep
<1>2. mem' \in {Catch(m, "unavailable"), [m EXCEPT !.remote.pc = "preparing"]}
  BY Zenon DEF RemoteCheck
<1>3. MemoryOK(m) /\ NoWait(m, "remote") /\ Sending(m, e)
  BY <1>1, ChecksMildly, MildKeeps, MildNoWait, MildSends DEF Loops
<1> HIDE DEF m, e
<1>4. MemoryOK(Catch(m, "unavailable"))
  BY <1>1, <1>3, CatchKeeps DEF Causes
<1>5. MemoryOK([m EXCEPT !.remote.pc = "preparing"])
  <2>1. MayGo(m, e, "preparing")
    BY DEF MayGo
  <2>2. MemoryOK(AtStage(m, "preparing"))
    BY <1>1, <1>3, <2>1, GoesTo
  <2> QED BY <2>2 DEF AtStage
<1> QED BY <1>0, <1>2, <1>4, <1>5, WorldStays

LEMMA RemotePrepareKeeps == ASSUME PlanOK, StoresOK, MemoryOK(mem), RemotePrepare PROVE MemoryOK(mem)'
<1> DEFINE e == mem.remote.entry
<1>0. mem.remote.pc = "preparing" /\ UNCHANGED <<row, offers, stored, archived, sent, acked, plan>>
  BY DEF RemotePrepare, world
<1>1. e \in Entries /\ Sending(mem, e) /\ NoWait(mem, "remote") /\ Interruptions(mem) \subseteq Causes
      /\ ("abort" \in Interruptions(mem) => mem.remote.aborted)
  BY <1>0, InProgress DEF Asleep
<1>2. CASE \E cause \in Interruptions(mem) : mem' = Catch(mem, cause)
  <2>1. MemoryOK(mem')
    BY <1>1, <1>2, CatchKeeps
  <2> QED BY <1>0, <2>1, WorldStays
<1>3. CASE mem' = Stage(mem, e)
  <2>1. plan.recover \in BOOLEAN /\ sent \subseteq (Entries \ Self) \X Nat \X Nat /\ IsFiniteSet(sent)
    BY DEF PlanOK, StoresOK
  <2>2. MemoryOK(mem')
    BY <1>0, <1>1, <1>3, <2>1, StageKeeps
  <2> QED BY <1>0, <2>2, WorldStays
<1> QED BY <1>2, <1>3, Zenon DEF RemotePrepare

LEMMA RemoteStagedKeeps == ASSUME MemoryOK(mem), RemoteStaged PROVE MemoryOK(mem)'
<1> DEFINE e == mem.remote.entry
           m == Taken("remote", e)
<1>0. mem.remote.pc = "staging" /\ UNCHANGED <<row, offers, stored, archived, sent, acked, plan>> /\ mem \in Memory
  BY DEF RemoteStaged, world, MemoryOK
<1>1. e \in Entries /\ Sending(mem, e) /\ offers[e] \notin {"new", "putting"}
  BY <1>0, InProgress DEF Asleep
<1>2. \/ Resolved("remote", e, TRUE) /\ mem' = Wake([m EXCEPT !.durable = @ \cup {e}, !.remote.pc = "transmitting"])
      \/ Resolved("remote", e, FALSE) /\ mem' = Catch(m, "storage")
  BY Zenon DEF RemoteStaged
<1>3. MemoryOK(m) /\ NoWait(m, "remote")
  <2>1. m = [mem EXCEPT !.resolved = @ \ {<<"remote", e, TRUE>>, <<"remote", e, FALSE>>}]
    BY DEF Taken
  <2>2. PICK ok \in BOOLEAN : Resolved("remote", e, ok)
    BY <1>2
  <2> HIDE DEF m, e
  <2> QED BY <1>1, <2>1, <2>2, TakenKeeps DEF Resolved, Loops
<1>4. m.obj = mem.obj /\ m.remote = mem.remote /\ m.flying = mem.flying /\ m.cancelled = mem.cancelled
      /\ m.queued = mem.queued /\ m \in Memory
  <2>1. m.obj = mem.obj /\ m.remote = mem.remote /\ m.flying = mem.flying /\ m.cancelled = mem.cancelled
        /\ m.queued = mem.queued
    BY <1>0 DEF Taken, Memory
  <2> QED BY <1>3, <2>1 DEF MemoryOK
<1>5. Sending(m, e)
  BY <1>1, <1>4 DEF Sending
<1>6. CASE Resolved("remote", e, FALSE) /\ mem' = Catch(m, "storage")
  <2> HIDE DEF m, e
  <2>1. MemoryOK(mem')
    BY <1>1, <1>3, <1>5, <1>6, CatchKeeps DEF Causes
  <2> QED BY <1>0, <2>1, WorldStays
<1>7. CASE Resolved("remote", e, TRUE) /\ mem' = Wake([m EXCEPT !.durable = @ \cup {e}, !.remote.pc = "transmitting"])
  <2>1. (e \in mem.cancelled \/ InRow(mem, e)) /\ (e \in mem.cancelled \/ mem.obj[e].packet # NoPacket)
    BY <1>0, <1>1, <1>7 DEF Resolved, MemoryOK, RemoteOK, Checkpoints
  <2>2. e \in m.cancelled \/ InRow(m, e)
    BY <1>4, <2>1 DEF InRow
  <2> HIDE DEF m, e
  <2>3. ASSUME NEW n, n = [m EXCEPT !.durable = @ \cup {e}], NEW p, p = [n EXCEPT !.remote.pc = "transmitting"]
        PROVE  MemoryOK(p)
    <3>1. MemoryOK(n)
      BY <1>1, <1>3, <2>2, <2>3, DurableKeeps
    <3>2. /\ n.remote = m.remote /\ n.obj = m.obj /\ n.queued = m.queued /\ n.flying = m.flying
          /\ n.resolved = m.resolved /\ n.cancelled = m.cancelled /\ e \in n.durable
      BY <1>4, <2>3 DEF Memory
    <3>3. Sending(n, e) /\ NoWait(n, "remote")
      BY <1>3, <1>5, <3>2 DEF Sending, NoWait, Waits
    <3>4. e \in n.cancelled \/ (e \in n.durable /\ n.obj[e].packet # NoPacket)
      BY <1>4, <2>1, <3>2
    <3>5. MayGo(n, e, "transmitting")
      BY <3>4 DEF MayGo
    <3>6. p = AtStage(n, "transmitting")
      BY <2>3 DEF AtStage
    <3> QED BY <1>1, <3>1, <3>3, <3>5, <3>6, GoesTo
  <2>4. [m EXCEPT !.durable = @ \cup {e}, !.remote.pc = "transmitting"]
        = [[m EXCEPT !.durable = @ \cup {e}] EXCEPT !.remote.pc = "transmitting"]
    BY <1>4 DEF Memory
  <2>5. MemoryOK([m EXCEPT !.durable = @ \cup {e}, !.remote.pc = "transmitting"])
    BY <2>3, <2>4
  <2>6. MemoryOK(mem')
    BY <1>7, <2>5, PumpsMildly, MildKeeps
  <2> QED BY <1>0, <2>6, WorldStays
<1> QED BY <1>2, <1>6, <1>7

(* The envelope is on the wire: its seeds are in the durable row. *)
LEMMA SentKeeps ==
    ASSUME PlanOK, StoresOK, MemoryOK(mem), NEW e \in Entries, Sending(mem, e), mem.remote.pc = "transmitting",
           e \notin mem.cancelled, NEW i \in Nat, NEW v \in Nat,
           mem.obj[e].packet.index = i, mem.obj[e].packet.envelope = v,
           sent' = sent \cup {<<e, i, v>>}, mem' = [mem EXCEPT !.remote.pc = "sending"],
           UNCHANGED <<row, offers, stored, archived, acked, told, dropped, plan>>
    PROVE  MemoryOK(mem)' /\ StoresOK'
<1>0. /\ e \in mem.durable /\ mem.obj[e].packet # NoPacket /\ NoWait(mem, "remote") /\ e \notin Self
      /\ offers[e] \notin {"new", "putting"} /\ InRow(mem, e) /\ e \notin mem.cleaning \cup mem.removing
      /\ ~mem.obj[e].cancelled
  BY Quiet DEF MemoryOK, RemoteOK, ObjectsOK
<1>1. PICK n : n = mem'
  OBVIOUS
<1>2. MemoryOK(n) /\ n.obj = mem.obj /\ n.flying = mem.flying /\ n.cleaning = mem.cleaning /\ n.removing = mem.removing
  <2>1. n = AtStage(mem, "sending") /\ MayGo(mem, e, "sending")
    BY <1>0, <1>1 DEF AtStage, MayGo
  <2>2. MemoryOK(n) /\ n.obj = mem.obj
    BY <1>0, <2>1, GoesTo
  <2>3. n.flying = mem.flying /\ n.cleaning = mem.cleaning /\ n.removing = mem.removing
    BY <1>1 DEF MemoryOK, Memory
  <2> QED BY <2>2, <2>3
<1>3. v = 1 /\ row[e] # NoRow
  <2>1. Kept(mem.obj[e], e)
    BY ObjectBooks
  <2> QED BY <1>0, <2>1 DEF Kept, InRow
<1>4. ASSUME Keeps, <<e, i>> \notin archived
      PROVE  /\ Carries(mem.obj[e], i) /\ Carries(row[e], i) /\ row[e] # NoRow
             /\ mem.flying[e].who # {} => Carries(mem.flying[e].entry, i)
  <2>1. ReallyArchived(mem.obj[e], e) /\ ReallyArchived(mem.flying[e].entry, e) /\ ReallyArchived(row[e], e) /\ row[e] # NoRow
    BY <1>0, <1>4 DEF MemoryOK, MarksOK, StoresOK, InRow
  <2> QED BY <1>0, <1>4, <2>1 DEF ReallyArchived, InRow, SamePacket, Carries
<1>5. ASSUME NEW f, NEW j, Unsaved(f, j)' PROVE Unsaved(f, j) \/ (f = e /\ j = i /\ <<e, i>> \notin archived)
  BY <1>5 DEF Unsaved
<1>6. SeedsHeld(n)'
  <2>1. ASSUME Keeps, NEW f \in Entries, NEW j \in Nat, Unsaved(f, j)'
        PROVE  /\ Carries(mem.obj[f], j)
               /\ mem.flying[f].who # {} => Carries(mem.flying[f].entry, j)
               /\ f \notin mem.cleaning \cup mem.removing
    <3>1. CASE Unsaved(f, j)
      BY <2>1, <3>1 DEF MemoryOK, SeedsHeld
    <3>2. CASE f = e /\ j = i /\ <<e, i>> \notin archived
      BY <1>0, <1>4, <2>1, <3>2
    <3> QED BY <1>5, <2>1, <3>1, <3>2
  <2>2. Keeps' <=> Keeps
    BY DEF Keeps
  <2> QED BY <1>2, <2>1, <2>2 DEF SeedsHeld, Carries
<1>7. /\ ObjectsOK(n)' /\ RemoteOK(n)' /\ WorkerOK(n)' /\ WaitsOK(n)' /\ MarksOK(n)'
      /\ CancelOK(n)' /\ AdmissionOK(n)' /\ PauseOK(n)'
  <2>1. ASSUME NEW f \in Entries
        PROVE  /\ Sending(n, f)' <=> Sending(n, f)
               /\ Archiving(n, f)' <=> Archiving(n, f)
               /\ Saving(n, f)' <=> Saving(n, f)
               /\ InRow(n, f)' <=> InRow(n, f)
               /\ \A who \in Writers : /\ Waits(n, who, f)' <=> Waits(n, who, f)
                                       /\ OnePlace(n, who, f)' <=> OnePlace(n, who, f)
                                       /\ Checkpoints(n, who, f)' <=> Checkpoints(n, who, f)
    BY DEF Sending, Archiving, Saving, InRow, Waits, OnePlace, Checkpoints, SamePacket
  <2>2. "cancel" \in Writers /\ "remote" \in Writers /\ "worker" \in Writers
    BY DEF Writers
  <2>3. ObjectsOK(n)' /\ CancelOK(n)'
    BY <1>2, <2>1 DEF MemoryOK, ObjectsOK, CancelOK
  <2>4. RemoteOK(n)' /\ WorkerOK(n)' /\ WaitsOK(n)'
    BY <1>2, <2>1, <2>2 DEF MemoryOK, RemoteOK, WorkerOK, WaitsOK
  <2>5. MarksOK(n)'
    BY <1>2 DEF MemoryOK, MarksOK, ReallyArchived, Keeps
  <2>6. AdmissionOK(n)' /\ PauseOK(n)'
    BY <1>2, <2>1, <2>2 DEF MemoryOK, AdmissionOK, PauseOK, Fresh, Ended
  <2> QED BY <2>3, <2>4, <2>5, <2>6
<1>8. ASSUME NEW x, NEW f \in Entries, Kept(x, f), f = e => x.packet # NoPacket /\ x.packet.index = i PROVE Kept(x, f)'
  BY <1>8 DEF Kept
<1>9. ASSUME NEW x, NEW f \in Entries, Right(x, f) PROVE Right(x, f)'
  BY <1>9 DEF Right
<1>10. /\ row[e].packet # NoPacket /\ row[e].packet.index = i
       /\ n.flying[e].who # {} => n.flying[e].entry.packet # NoPacket /\ n.flying[e].entry.packet.index = i
  BY <1>0, <1>2 DEF InRow, SamePacket
<1>11. HonestOK(n)'
  <2>1. ASSUME NEW f \in Entries
        PROVE  /\ Right(n.obj[f], f)' /\ Right(n.flying[f].entry, f)'
               /\ Kept(n.obj[f], f)' /\ (n.flying[f].who # {} => Kept(n.flying[f].entry, f)')
               /\ Sending(n, f)' /\ n.remote.pc = "accepted" => <<f, n.obj[f].index>> \in acked'
               /\ f \in n.cleaning => f \in n.cancelled \/ n.obj[f].local
    <3>1. /\ Right(n.obj[f], f) /\ Right(n.flying[f].entry, f)
          /\ Kept(n.obj[f], f) /\ (n.flying[f].who # {} => Kept(n.flying[f].entry, f))
          /\ Sending(n, f) /\ n.remote.pc = "accepted" => <<f, n.obj[f].index>> \in acked
          /\ f \in n.cleaning => f \in n.cancelled \/ n.obj[f].local
      BY <1>2 DEF MemoryOK, HonestOK
    <3>2. Sending(n, f)' <=> Sending(n, f)
      BY DEF Sending
    <3>3. f = e => n.obj[f].packet # NoPacket /\ n.obj[f].packet.index = i
      BY <1>0, <1>2
    <3>4. Kept(n.obj[f], f)'
      BY <1>8, <3>1, <3>3
    <3>5. n.flying[f].who # {} => Kept(n.flying[f].entry, f)'
      BY <1>8, <1>10, <3>1
    <3> QED BY <1>9, <3>1, <3>2, <3>4, <3>5
  <2> QED BY <2>1 DEF HonestOK
<1>12. MemoryOK(mem)'
  <2>1. MemoryOK(n)'
    BY <1>2, <1>6, <1>7, <1>11 DEF MemoryOK
  <2> QED BY <1>1, <2>1
<1>13. Keeps' => SeedRecoverable'
  <2>1. ASSUME Keeps, NEW s \in sent'
        PROVE  \/ <<s[1], s[2]>> \in archived
               \/ /\ row[s[1]] # NoRow
                  /\ row[s[1]].packet # NoPacket
                  /\ row[s[1]].packet.index = s[2]
                  /\ ~row[s[1]].packet.archived
    <3>1. CASE s \in sent
      BY <2>1, <3>1 DEF StoresOK, SeedRecoverable, Keeps
    <3>2. CASE s = <<e, i, v>>
      BY <1>4, <2>1, <3>2 DEF Carries
    <3> QED BY <2>1, <3>1, <3>2
  <2> QED BY <2>1 DEF SeedRecoverable, Keeps
<1>14. StoresOK'
  <2>1. sent' \subseteq (Entries \ Self) \X Nat \X Nat
    BY <1>0 DEF StoresOK
  <2>2. IsFiniteSet(sent')
    BY FS_AddElement DEF StoresOK
  <2>3. \A s \in sent' : offers'[s[1]] \notin {"new", "putting"} /\ s[3] = 1
    BY <1>0, <1>3 DEF StoresOK
  <2>4. ASSUME NEW f \in Entries, row'[f] # NoRow
        PROVE  /\ offers'[f] \notin {"new", "putting"}
               /\ f \in Self => row'[f].packet = NoPacket
               /\ Keeps' => ReallyArchived(row[f], f)'
               /\ Right(row[f], f)' /\ Kept(row[f], f)'
    <3>1. /\ offers[f] \notin {"new", "putting"}
          /\ f \in Self => row[f].packet = NoPacket
          /\ Keeps => ReallyArchived(row[f], f)
          /\ Right(row[f], f) /\ Kept(row[f], f)
      BY <2>4 DEF StoresOK
    <3>2. PICK x : x = row[f]
      OBVIOUS
    <3>3. Right(x, f)' /\ Kept(x, f)'
      BY <1>8, <1>9, <1>10, <3>1, <3>2
    <3>4. Right(row[f], f)' /\ Kept(row[f], f)'
      BY <3>2, <3>3
    <3> QED BY <3>1, <3>4 DEF ReallyArchived, Keeps
  <2>5. (\A f \in dropped' : ~Fresh(f)' /\ (row'[f] = NoRow \/ row'[f].cancelled)) /\ OnlyALockSurfaces'
    BY DEF StoresOK, Fresh, OnlyALockSurfaces, PauseNeverSurfaces
  <2> QED BY <1>13, <2>1, <2>2, <2>3, <2>4, <2>5 DEF StoresOK
<1> QED BY <1>12, <1>14

LEMMA RemoteTransmitKeeps ==
    ASSUME PlanOK, StoresOK, MemoryOK(mem), RemoteTransmit PROVE MemoryOK(mem)' /\ StoresOK'
<1> DEFINE e == mem.remote.entry
           packet == mem.obj[e].packet
<1>0. mem.remote.pc = "transmitting" /\ UNCHANGED <<row, offers, stored, archived, acked, told, dropped, plan>>
  BY DEF RemoteTransmit
<1>1. e \in Entries /\ Sending(mem, e) /\ NoWait(mem, "remote") /\ Interruptions(mem) \subseteq Causes
      /\ ("abort" \in Interruptions(mem) => mem.remote.aborted)
  BY <1>0, InProgress DEF Asleep
<1>2. CASE /\ Interruptions(mem) = {} /\ sent' = sent \cup {<<e, packet.index, packet.envelope>>}
           /\ mem' = [mem EXCEPT !.remote.pc = "sending"]
  <2>1. ~mem.remote.aborted
    BY <1>2 DEF Interruptions
  <2>2. e \notin mem.cancelled /\ packet # NoPacket
    BY <1>0, <1>1, <2>1 DEF MemoryOK, RemoteOK
  <2>3. packet \in Packet
    BY <1>1, <2>2, Records DEF Entry
  <2>4. packet.index \in Nat /\ packet.envelope \in Nat
    BY <2>3 DEF Packet
  <2> HIDE DEF e
  <2> QED BY <1>0, <1>1, <1>2, <2>2, <2>4, SentKeeps
<1>3. CASE (\E cause \in Interruptions(mem) : mem' = Catch(mem, cause)) /\ UNCHANGED sent
  <2>1. MemoryOK(mem')
    BY <1>1, <1>3, CatchKeeps
  <2>2. MemoryOK(mem)'
    BY <1>0, <1>3, <2>1, WorldStays
  <2>3. /\ offers' \in [Entries -> {"new", "putting", "accepted", "refused", "lost"}]
        /\ archived \subseteq archived' /\ \A f \in Entries : Fresh(f)' => Fresh(f)
    BY <1>0 DEF StoresOK, Fresh
  <2> QED BY <1>0, <1>3, <2>2, <2>3, StoresStay
<1> QED BY <1>2, <1>3, Zenon DEF RemoteTransmit

(* GoesTo, to be read in the next state. *)
StepsTo ==
    \A m, pc : \A e \in Entries :
        MemoryOK(m) /\ NoWait(m, "remote") /\ Sending(m, e) /\ MayGo(m, e, pc) => MemoryOK(AtStage(m, pc))
LEMMA AlwaysStepsTo == StepsTo
BY GoesTo DEF StepsTo

LEMMA RemoteAcceptedKeeps == ASSUME StoresOK, MemoryOK(mem), RemoteAccepted PROVE MemoryOK(mem)' /\ StoresOK'
<1> DEFINE e == mem.remote.entry
<1>0. mem.remote.pc = "sending" /\ UNCHANGED <<row, offers, stored, archived, sent, told, dropped, plan>>
      /\ mem' = AtStage(mem, "accepted") /\ acked' = acked \cup {<<e, mem.obj[e].index>>}
  BY DEF RemoteAccepted, AtStage
<1>1. e \in Entries /\ Sending(mem, e) /\ NoWait(mem, "remote")
  BY <1>0, InProgress DEF Asleep
<1>2. e \in mem.cancelled \/ (e \in mem.durable /\ mem.obj[e].packet # NoPacket)
  BY <1>0, <1>1 DEF MemoryOK, RemoteOK
<1>3. PICK m : m = mem
  OBVIOUS
<1>4. PICK f : f = e
  OBVIOUS
<1>5. Later
  BY <1>0 DEF Later, PlanKept, Fresh
<1>6. MemoryOK(m)'
  BY <1>0, <1>3, <1>5, MemoryLater
<1>7. StepsTo'
  BY AlwaysStepsTo, PTL
<1>8. NoWait(m, "remote")' /\ Sending(m, f)' /\ MayGo(m, f, "accepted")' /\ f \in Entries
  <2>1. NoWait(m, "remote")'
    BY <1>1, <1>3 DEF NoWait, Waits
  <2>2. Sending(m, f)'
    BY <1>1, <1>3, <1>4 DEF Sending
  <2>3. MayGo(m, f, "accepted")'
    BY <1>0, <1>2, <1>3, <1>4 DEF MayGo
  <2> QED BY <1>1, <1>4, <2>1, <2>2, <2>3
<1>9. MemoryOK(AtStage(m, "accepted"))'
  BY <1>6, <1>7, <1>8 DEF StepsTo
<1>10. MemoryOK(mem)'
  <2>1. PICK n : n = mem'
    OBVIOUS
  <2>2. n = AtStage(m, "accepted")
    BY <1>0, <1>3, <2>1
  <2>3. AtStage(m, "accepted")' = AtStage(m, "accepted")
    BY DEF AtStage
  <2>4. MemoryOK(n)'
    BY <1>9, <2>2, <2>3
  <2> QED BY <2>1, <2>4
<1>11. StoresOK'
  <2>1. stored' \subseteq Entries /\ dropped' \subseteq Entries
        /\ offers' \in [Entries -> {"new", "putting", "accepted", "refused", "lost"}]
    BY <1>0 DEF StoresOK
  <2>2. \A d \in dropped' : ~Fresh(d)' /\ (row[d] = NoRow \/ row[d].cancelled)
    BY <1>0 DEF StoresOK, Fresh
  <2>3. OnlyALockSurfaces'
    BY <1>0 DEF StoresOK, OnlyALockSurfaces, PauseNeverSurfaces
  <2> QED BY <1>0, <1>5, <2>1, <2>2, <2>3, StoresGrow
<1> QED BY <1>10, <1>11

LEMMA RemoteRefusedKeeps == ASSUME PlanOK, MemoryOK(mem), RemoteRefused PROVE MemoryOK(mem)'
<1> DEFINE e == mem.remote.entry
<1>0. mem.remote.pc = "sending" /\ UNCHANGED <<row, offers, stored, archived, sent, acked>>
  BY DEF RemoteRefused, world
<1>1. e \in Entries /\ Sending(mem, e) /\ NoWait(mem, "remote") /\ Interruptions(mem) \subseteq Causes
      /\ ("abort" \in Interruptions(mem) => mem.remote.aborted)
  BY <1>0, InProgress DEF Asleep
<1>2. (\E cause \in Causes : mem' = Catch(mem, cause) /\ (cause = "abort" => mem.remote.aborted))
      /\ (PlanKept \/ UNCHANGED plan)
  <2>1. CASE Fault("send") /\ \E cause \in {"refused", "interrupted"} : mem' = Catch(mem, cause)
    BY <2>1, FaultsKeep DEF Causes
  <2>2. CASE Fault("denied") /\ mem' = Catch(mem, "denied")
    BY <2>2, FaultsKeep DEF Causes
  <2>3. CASE (\E cause \in Interruptions(mem) : mem' = Catch(mem, cause)) /\ UNCHANGED plan
    BY <1>1, <2>3
  <2> QED BY <2>1, <2>2, <2>3, Zenon DEF RemoteRefused
<1>3. MemoryOK(mem')
  BY <1>1, <1>2, CatchKeeps
<1> QED BY <1>0, <1>2, <1>3, WorldStays

LEMMA RemoteAdvanceKeeps == ASSUME StoresOK, MemoryOK(mem), RemoteAdvance PROVE MemoryOK(mem)'
<1> DEFINE e == mem.remote.entry
           m == Checked(mem, e)
<1>0. mem.remote.pc = "accepted" /\ UNCHANGED <<row, offers, stored, archived, sent, acked, plan>>
  BY DEF RemoteAdvance, world
<1>1. e \in Entries /\ Sending(mem, e) /\ NoWait(mem, "remote")
  BY <1>0, InProgress DEF Asleep
<1>2. mem' = Catch(m, "unavailable") \/ (e \notin m.cancelled /\ mem' = Advance(m, e))
  BY Zenon DEF RemoteAdvance
<1>3. MemoryOK(m) /\ NoWait(m, "remote") /\ Sending(m, e) /\ m.remote.pc = "accepted"
  BY <1>0, <1>1, ChecksMildly, MildKeeps, MildNoWait, MildSends DEF Loops
<1> HIDE DEF m, e
<1>4. MemoryOK(Catch(m, "unavailable"))
  BY <1>1, <1>3, CatchKeeps DEF Causes
<1>5. MemoryOK(mem')
  <2>1. sent \subseteq (Entries \ Self) \X Nat \X Nat
    BY DEF StoresOK
  <2> QED BY <1>1, <1>2, <1>3, <1>4, <2>1, AdvanceKeeps
<1> QED BY <1>0, <1>5, WorldStays

(* The wait on the catch's write, or on the last write of a cancelled entry. *)
LEMMA RemoteTaken ==
    ASSUME MemoryOK(mem), mem.remote.pc \notin Asleep, NEW ok \in BOOLEAN, Resolved("remote", mem.remote.entry, ok)
    PROVE  MemoryOK(Taken("remote", mem.remote.entry)) /\ NoWait(Taken("remote", mem.remote.entry), "remote")
<1> DEFINE e == mem.remote.entry
<1>1. e \in Entries
  BY InProgress
<1> HIDE DEF e
<1>2. ASSUME NEW m, m = [mem EXCEPT !.resolved = @ \ {<<"remote", e, TRUE>>, <<"remote", e, FALSE>>}]
      PROVE  MemoryOK(m) /\ NoWait(m, "remote")
  BY <1>1, <1>2, TakenKeeps DEF Resolved, Loops, e
<1> QED BY <1>2 DEF Taken, e

LEMMA RemoteFailedKeeps == ASSUME StoresOK, MemoryOK(mem), RemoteFailed PROVE MemoryOK(mem)' /\ StoresOK'
<1> DEFINE e == mem.remote.entry
           taken == Taken("remote", e)
           parks == mem.remote.patient /\ mem.pauses # {}
           freed == ~parks /\ mem.remote.cause = "paused" /\ Running(mem)
           fails == ~freed
           m == [taken EXCEPT !.parked = IF parks THEN @ \cup {e} ELSE @, !.obj[e].failed = fails]
<1>0. mem.remote.pc = "failing" /\ UNCHANGED <<row, offers, stored, archived, sent, acked, dropped, plan>>
  BY DEF RemoteFailed
<1>1. e \in Entries
  BY <1>0, InProgress DEF Asleep
<1>2. MemoryOK(taken) /\ NoWait(taken, "remote") /\ taken \in Memory /\ taken.obj[e] \in Entry
      /\ (taken.obj[e].cancelled => e \in taken.cancelled)
  <2>1. \E ok \in BOOLEAN : Resolved("remote", e, ok)
    BY DEF RemoteFailed
  <2>2. MemoryOK(taken) /\ NoWait(taken, "remote")
    BY <1>0, <2>1, RemoteTaken DEF Asleep
  <2> HIDE DEF taken, e
  <2> QED BY <1>1, <2>2, Records
<1>3. mem' \in {SendEnds(Pump(m)), SendEnds(ScheduleSendRetry(m)), SendEnds(m)}
  BY Zenon DEF RemoteFailed
<1>4. fails \in BOOLEAN
  OBVIOUS
<1> HIDE DEF taken, e, parks, fails
<1>5. Mild(taken, m)
  <2> DEFINE x == [taken.obj[e] EXCEPT !.failed = fails]
             p == IF parks THEN taken.parked \cup {e} ELSE taken.parked
  <2>1. x \in Entry /\ MayBecome(taken, e, x)
    <3>1. /\ x \in Entry /\ x.packet = taken.obj[e].packet /\ x.delivered = taken.obj[e].delivered
          /\ x.cancelled = taken.obj[e].cancelled /\ x.status = taken.obj[e].status
          /\ x.index = taken.obj[e].index /\ x.local = taken.obj[e].local
      BY <1>2, <1>4 DEF Entry
    <3> HIDE DEF x
    <3> QED BY <1>2, <3>1 DEF MayBecome, SameSend, SavesRightly
  <2>2. p \in SUBSET Entries
    BY <1>1, <1>2 DEF Memory
  <2>3. m = [[taken EXCEPT !.obj[e] = x] EXCEPT !.parked = p]
    BY <1>2 DEF Memory
  <2> HIDE DEF x, p, m
  <2>4. ASSUME NEW c, c = [taken EXCEPT !.obj[e] = x], NEW d, d = [c EXCEPT !.parked = p] PROVE Mild(taken, d)
    <3>1. Mild(taken, c)
      BY <1>1, <1>2, <2>1, <2>4, EntryMoves
    <3>2. MemoryOK(c) /\ c \in Memory
      BY <1>2, <3>1, MildKeeps DEF Mild
    <3>3. /\ d \in Memory /\ Untouched(c, d) /\ d.closed = c.closed
          /\ d.remote = c.remote /\ d.local = c.local /\ d.worker = c.worker
      BY <2>2, <2>4, <3>2, ZenonT(40) DEF Memory, Untouched
    <3> QED BY <3>1, <3>2, <3>3, OtherwiseStays, MildAgain
  <2> QED BY <2>3, <2>4
<1> HIDE DEF m
<1>6. ASSUME NEW n, n \in {Pump(m), ScheduleSendRetry(m), m} PROVE MemoryOK(SendEnds(n))
  <2>1. MemoryOK(m)
    BY <1>2, <1>5, MildKeeps
  <2>2. Mild(m, n)
    BY <1>6, <2>1, PumpMildly, TimersMildly, Stays
  <2>3. Mild(taken, n)
    BY <1>5, <2>2, MildAgain
  <2>4. MemoryOK(n) /\ NoWait(n, "remote")
    BY <1>2, <2>3, MildKeeps, MildNoWait DEF Loops
  <2> QED BY <2>4, SendEndsKeeps
<1>7. MemoryOK(mem')
  BY <1>3, <1>6
<1>8. MemoryOK(mem)'
  BY <1>0, <1>7, WorldStays
<1>9. OnlyALockSurfaces'
  <2>1. \/ told' = told
        \/ /\ told' = told \cup {<<e, mem.remote.cause>>}
           /\ ~mem.closed /\ e \notin mem.cancelled /\ ~mem.remote.patient
    BY Zenon DEF RemoteFailed, e
  <2>2. Sending(mem, e)
    BY <1>0, InProgress DEF Asleep, e
  <2>3. told' # told /\ "lock" \notin plan.faults => mem.remote.cause \notin Impatient
    BY <1>0, <1>1, <2>1, <2>2 DEF MemoryOK, PauseOK, Ended
  <2> QED BY <1>0, <2>1, <2>3 DEF StoresOK, OnlyALockSurfaces, PauseNeverSurfaces, Impatient
<1>10. StoresOK'
  <2>1. /\ Later /\ stored' \subseteq Entries /\ dropped' \subseteq Entries
        /\ offers' \in [Entries -> {"new", "putting", "accepted", "refused", "lost"}]
        /\ \A d \in dropped' : ~Fresh(d)' /\ (row[d] = NoRow \/ row[d].cancelled)
    BY <1>0 DEF StoresOK, Fresh, Later, PlanKept
  <2> QED BY <1>0, <1>9, <2>1, StoresGrow
<1> QED BY <1>8, <1>10

LEMMA RemoteCancelledKeeps == ASSUME MemoryOK(mem), RemoteCancelled PROVE MemoryOK(mem)'
<1> DEFINE e == mem.remote.entry
           m == Taken("remote", e)
<1>0. mem.remote.pc = "cancelling" /\ UNCHANGED <<row, offers, stored, archived, sent, acked, plan>>
  BY DEF RemoteCancelled, world
<1>1. MemoryOK(m) /\ NoWait(m, "remote")
  <2>1. \E ok \in BOOLEAN : Resolved("remote", e, ok)
    BY DEF RemoteCancelled
  <2> QED BY <1>0, <2>1, RemoteTaken DEF Asleep
<1>2. mem' \in {SendEnds(Wake(m)), ResetWhenNothingPends([m EXCEPT !.remote = IdleRemote])}
  BY Zenon DEF RemoteCancelled
<1> HIDE DEF m
<1>3. MemoryOK(SendEnds(Wake(m)))
  <2>1. Mild(m, Wake(m))
    BY <1>1, PumpsMildly
  <2> QED BY <1>1, <2>1, MildKeeps, MildNoWait, SendEndsKeeps DEF Loops
<1>4. MemoryOK(ResetWhenNothingPends([m EXCEPT !.remote = IdleRemote]))
  <2>1. IdleRemote \in RemoteLoop /\ IdleRemote.pc \in Asleep
    BY DEF RemoteLoop, IdleRemote, RemoteStages, Causes, Asleep
  <2>2. MemoryOK([m EXCEPT !.remote = IdleRemote])
    BY <1>1, <2>1, RemoteSteps
  <2> QED BY <2>2, TimersMildly, MildKeeps
<1> QED BY <1>0, <1>2, <1>3, <1>4, WorldStays

LEMMA RemoteDroppedKeeps == ASSUME StoresOK, MemoryOK(mem), RemoteDropped PROVE MemoryOK(mem)' /\ StoresOK'
<1> DEFINE e == mem.remote.entry
           m == [mem EXCEPT !.listed = @ \ {e}]
<1>0. /\ mem.remote.pc = "dropping" /\ UNCHANGED <<offers, stored, archived, sent, acked, told, dropped, plan>> /\ PlanKept
      /\ row' = [row EXCEPT ![e] = NoRow] /\ mem' = SendEnds(m)
  BY DEF RemoteDropped, world, PlanKept
<1>1. e \in Entries \ Self /\ Sending(mem, e) /\ NoWait(mem, "remote") /\ ~Fresh(e)
  BY <1>0, InProgress DEF Asleep, Fresh
<1>2. e \in mem.cancelled /\ mem.obj[e].packet = NoPacket
  BY <1>0, <1>1 DEF MemoryOK, RemoteOK
<1>3. Keeps => \A i \in Nat : ~Unsaved(e, i)
  BY <1>1, <1>2 DEF MemoryOK, SeedsHeld, Carries
<1> HIDE DEF m
<1>4. Mild(mem, m)
  <2>1. {e} \cap mem.unadmitted = {}
    BY <1>1 DEF MemoryOK, Memory
  <2> QED BY <2>1, DelistsMildly DEF m
<1>5. MemoryOK(m) /\ NoWait(m, "remote")
  BY <1>1, <1>4, MildKeeps, MildNoWait DEF Loops
<1>6. MemoryOK(mem')
  BY <1>0, <1>5, SendEndsKeeps
<1>7. mem'.cancelled = m.cancelled
  BY <1>0, <1>5 DEF SendEnds, MemoryOK, Memory
<1>8. e \in m.cancelled
  BY <1>1, <1>2, <1>4 DEF Mild, SameEntry
<1>9. row \in [Entries -> Entry \cup {NoRow}]
  BY DEF StoresOK
<1> HIDE DEF e
<1>10. MemoryOK(mem)'
  BY <1>0, <1>1, <1>6, <1>7, <1>8, <1>9, RowGone
<1>11. StoresOK'
  BY <1>0, <1>1, <1>3, StoresWithout
<1> QED BY <1>10, <1>11

--------------------------------------------------------------------------------
(* A step that says nothing to the stores, or only that a save failed. *)
LEMMA Unmoved ==
    ASSUME StoresOK, MemoryOK(mem'), UNCHANGED <<row, offers, stored, archived, sent, acked, dropped>>,
           PlanKept \/ UNCHANGED plan, NEW e, told' \in {told, told \cup {<<e, "local">>}}
    PROVE  MemoryOK(mem)' /\ StoresOK'
<1>1. Later
  BY DEF Later, PlanKept, Fresh
<1>2. OnlyALockSurfaces'
  BY DEF StoresOK, OnlyALockSurfaces, PauseNeverSurfaces, PlanKept
<1>3. /\ stored' \subseteq Entries /\ dropped' \subseteq Entries
      /\ offers' \in [Entries -> {"new", "putting", "accepted", "refused", "lost"}]
      /\ \A d \in dropped' : ~Fresh(d)' /\ (row[d] = NoRow \/ row[d].cancelled)
  BY DEF StoresOK, Fresh
<1>4. StoresOK'
  BY <1>1, <1>2, <1>3, StoresGrow
<1> QED BY <1>4, WorldStays

LEMMA MildStep ==
    ASSUME StoresOK, MemoryOK(mem), Mild(mem, mem'), UNCHANGED <<row, offers, stored, archived, sent, acked, dropped>>,
           PlanKept \/ UNCHANGED plan, told' = told
    PROVE  MemoryOK(mem)' /\ StoresOK'
BY MildKeeps, Unmoved

--------------------------------------------------------------------------------
(* pumpLocal. *)
WithStored(m, e) == [m EXCEPT !.obj[e].local = TRUE]
LEMMA LocalStored ==
    ASSUME NEW m, MemoryOK(m), NEW e \in Entries, e \in stored, NEW n, n = WithStored(m, e)
    PROVE  MemoryOK(n) /\ n.obj[e].local /\ n.local = m.local /\ n.unadmitted = m.unadmitted
<1>0. m \in Memory /\ m.obj \in [Entries -> Entry] /\ m.obj[e] \in Entry
  BY Parts DEF MemoryOK
<1> DEFINE x == [m.obj[e] EXCEPT !.local = TRUE]
           objs == [m.obj EXCEPT ![e] = x]
<1>1. x \in Entry /\ SameSend([x EXCEPT !.local = m.obj[e].local], m.obj[e])
      /\ x.packet = m.obj[e].packet /\ x.delivered = m.obj[e].delivered /\ x.index = m.obj[e].index
      /\ x.cancelled = m.obj[e].cancelled /\ x.status = m.obj[e].status /\ x.local
  BY <1>0 DEF Entry, SameSend
<1>2. n = [m EXCEPT !.obj = objs]
  BY <1>0 DEF Memory, WithStored
<1> HIDE DEF x
<1>3. objs \in [Entries -> Entry] /\ objs[e] = x /\ \A f \in Entries \ {e} : objs[f] = m.obj[f]
  BY <1>0, <1>1
<1> HIDE DEF objs
<1>4. /\ n \in Memory /\ n.obj = objs
      /\ n.queued = m.queued /\ n.flying = m.flying /\ n.cleaning = m.cleaning /\ n.unadmitted = m.unadmitted
      /\ n.resolved = m.resolved /\ n.durable = m.durable /\ n.removing = m.removing /\ n.cancelled = m.cancelled
      /\ n.closed = m.closed /\ n.local = m.local /\ n.worker = m.worker /\ n.remote = m.remote /\ n.listed = m.listed
  BY <1>0, <1>2, <1>3, ZenonT(40) DEF Memory
<1>5. ASSUME NEW f \in Entries
      PROVE  /\ n.obj[f].packet = m.obj[f].packet /\ n.obj[f].delivered = m.obj[f].delivered
             /\ n.obj[f].index = m.obj[f].index /\ n.obj[f].status = m.obj[f].status
             /\ n.obj[f].cancelled = m.obj[f].cancelled
             /\ n.obj[f].local => m.obj[f].local \/ f = e
             /\ m.obj[f].local => n.obj[f].local
  BY <1>1, <1>3, <1>4
<1>6. ASSUME NEW f \in Entries
      PROVE  /\ Sending(n, f) <=> Sending(m, f)
             /\ Archiving(n, f) <=> Archiving(m, f)
             /\ Saving(n, f) <=> Saving(m, f)
             /\ InRow(n, f) <=> InRow(m, f)
             /\ \A who \in Loops : /\ Waits(n, who, f) <=> Waits(m, who, f)
                                   /\ OnePlace(n, who, f) <=> OnePlace(m, who, f)
                                   /\ Checkpoints(n, who, f) <=> Checkpoints(m, who, f)
             /\ Waits(n, "cancel", f) <=> Waits(m, "cancel", f)
  BY <1>4, <1>5 DEF Sending, Archiving, Saving, InRow, Waits, OnePlace, Checkpoints, SamePacket
<1>7. ObjectsOK(n) /\ RemoteOK(n) /\ WorkerOK(n) /\ WaitsOK(n)
  <2>1. ObjectsOK(n)
    BY <1>4, <1>5, <1>6 DEF MemoryOK, ObjectsOK
  <2>2. RemoteOK(n)
    BY <1>4, <1>5, <1>6 DEF MemoryOK, RemoteOK, Loops
  <2>3. WorkerOK(n) /\ WaitsOK(n)
    BY <1>4, <1>5, <1>6 DEF MemoryOK, WorkerOK, WaitsOK, Loops
  <2> QED BY <2>1, <2>2, <2>3
<1>8. MarksOK(n) /\ SeedsHeld(n)
  BY <1>4, <1>5 DEF MemoryOK, MarksOK, ReallyArchived, SeedsHeld, Carries
<1>9. HonestOK(n)
  <2>1. ASSUME NEW f \in Entries
        PROVE  /\ Right(n.obj[f], f) /\ Kept(n.obj[f], f)
               /\ Sending(n, f) /\ n.remote.pc = "accepted" => <<f, n.obj[f].index>> \in acked
               /\ f \in n.cleaning => f \in n.cancelled \/ n.obj[f].local
    <3>1. Right(m.obj[f], f) /\ Kept(m.obj[f], f)
      BY ObjectBooks
    <3>2. Right(n.obj[f], f) /\ Kept(n.obj[f], f)
      BY <1>5, <3>1 DEF Right, Kept
    <3>3. /\ Sending(n, f) /\ n.remote.pc = "accepted" => <<f, n.obj[f].index>> \in acked
          /\ f \in n.cleaning => f \in n.cancelled \/ n.obj[f].local
      BY <1>4, <1>5, <1>6 DEF MemoryOK, HonestOK
    <3> QED BY <3>2, <3>3
  <2> QED BY <1>4, <2>1 DEF MemoryOK, HonestOK
<1>10. CancelOK(n) /\ AdmissionOK(n) /\ PauseOK(n)
  <2>1. CancelOK(n)
    BY <1>4, <1>5 DEF MemoryOK, CancelOK
  <2>2. AdmissionOK(n)
    BY <1>4, <1>5, <1>6 DEF MemoryOK, AdmissionOK
  <2>3. PauseOK(n)
    BY <1>4, <1>6 DEF MemoryOK, PauseOK, Ended
  <2> QED BY <2>1, <2>2, <2>3
<1>11. MemoryOK(n)
  BY <1>4, <1>7, <1>8, <1>9, <1>10 DEF MemoryOK
<1> QED BY <1>1, <1>3, <1>4, <1>11

(* A save that has stored the message, to be read in the next state. *)
SavesStored ==
    \A m : \A e \in Entries :
        MemoryOK(m) /\ Saving(m, e) /\ e \in stored => MemoryOK(SaveSucceeds(WithStored(m, e), e))
LEMMA AlwaysSavesStored == SavesStored
<1> SUFFICES ASSUME NEW m, NEW e \in Entries, MemoryOK(m), Saving(m, e), e \in stored
             PROVE  MemoryOK(SaveSucceeds(WithStored(m, e), e))
  BY DEF SavesStored
<1>1. ASSUME NEW n, n = WithStored(m, e) PROVE MemoryOK(SaveSucceeds(n, e))
  <2>1. MemoryOK(n) /\ n.obj[e].local /\ n.local = m.local /\ n.unadmitted = m.unadmitted
    BY <1>1, LocalStored
  <2>2. Known(m, e)
    BY WorkedOn
  <2>3. n.local.entry = e /\ Known(n, e)
    BY <2>1, <2>2 DEF Saving, Known
  <2> QED BY <2>1, <2>3, SaveSucceedsMildly, MildKeeps
<1> QED BY <1>1

LEMMA LocalKeeps ==
    ASSUME PlanOK, StoresOK, MemoryOK(mem),
           LocalPass \/ LocalCheck \/ LocalSaved \/ LocalRefused \/ LocalWritten \/ LocalSettles
    PROVE  MemoryOK(mem)' /\ StoresOK' /\ PlanOK' /\ PlanKept
<1> DEFINE e == mem.local.entry
<1>0. mem \in Memory /\ mem.local \in LocalLoop /\ mem.listed \subseteq Entries
  BY Parts DEF MemoryOK, Memory
<1>1. ASSUME Mild(mem, mem'), UNCHANGED <<row, offers, stored, archived, sent, acked, told, dropped>>, PlanKept
      PROVE  MemoryOK(mem)' /\ StoresOK'
  BY <1>1, MildStep
<1>10. UNCHANGED plan => PlanOK' /\ PlanKept
  BY DEF PlanOK, PlanKept
<1>11. mem.local.pc \notin Asleep => Saving(mem, e) /\ Known(mem, e)
  <2>1. mem.local.pc \notin Asleep => Saving(mem, e) /\ e \in Entries
    BY DEF MemoryOK, Asleep, Saving
  <2> QED BY <2>1, WorkedOn
<1>2. mem.local.pc \notin Asleep => e \in Entries
  BY DEF MemoryOK, Asleep
<1>3. ASSUME mem.local.pc \notin Asleep, NEW n, n = Taken("local", e)
      PROVE  Mild(mem, n) /\ MemoryOK(n) /\ n.local.entry = e /\ Known(n, e)
  <2>1. Mild(mem, n)
    BY <1>3, TakesMildly DEF Taken
  <2>2. n.local = mem.local
    BY <1>0, <1>3 DEF Taken, Memory
  <2> QED BY <1>2, <1>3, <1>11, <2>1, <2>2, MildKeeps, KnownStays
<1>4. CASE LocalPass
  <2> DEFINE c == Min(LocalCandidates(mem))
             visiting == [mem EXCEPT !.local.visited = @ \cup {x \in mem.listed : x <= c}]
  <2>1. mem.local.pc = "pass" /\ UNCHANGED <<row, offers, stored, archived, sent, acked, told, dropped, plan>>
    BY <1>4 DEF LocalPass, world
  <2>2. mem' = IF ~Running(mem) \/ LocalCandidates(mem) = {} THEN LocalPassEnds(mem)
               ELSE IF NeedsSave(mem, c) THEN BeginSave(visiting, c) ELSE CleanupEntries(visiting, {c})
    BY <1>4, Zenon DEF LocalPass
  <2>3. LocalCandidates(mem) # {} => c \in Entries /\ c \in mem.listed
    <3>1. LocalCandidates(mem) \subseteq Nat /\ LocalCandidates(mem) \subseteq Entries /\ LocalCandidates(mem) \subseteq mem.listed
      BY <1>0, EntriesAssumption DEF LocalCandidates
    <3> QED BY <3>1, MinOfNaturals
  <2>4. Mild(mem, visiting)
    <3> DEFINE s == mem.local.visited \cup {x \in mem.listed : x <= c}
    <3>1. s \in SUBSET Entries
      BY <1>0 DEF LocalLoop
    <3>2. visiting = [mem EXCEPT !.local.visited = s]
      BY <1>0 DEF Memory
    <3> HIDE DEF s, visiting
    <3> QED BY <3>1, <3>2, VisitsMildly
  <2> HIDE DEF c, visiting
  <2>5. MemoryOK(visiting)
    BY <2>4, MildKeeps
  <2>6. LocalCandidates(mem) # {} => Mild(mem, BeginSave(visiting, c)) /\ Mild(mem, CleanupEntries(visiting, {c}))
    <3>1. LocalCandidates(mem) # {} => Known(visiting, c)
      BY <2>3, <2>4, WorkedOn, KnownStays
    <3> QED BY <2>3, <2>4, <2>5, <3>1, BeginsSavesMildly, CleansMildly, MildAgain
  <2> QED BY <1>1, <1>10, <2>1, <2>2, <2>6, LocalPassEndsMildly
<1>5. CASE LocalCheck
  <2> DEFINE m == Checked(mem, e)
  <2>1. mem.local.pc = "checking" /\ UNCHANGED <<row, offers, stored, archived, sent, acked, told, dropped, plan>> /\ e \in Entries
    BY <1>2, <1>5 DEF LocalCheck, world, Asleep
  <2>2. \/ mem' \in {SaveEnds(mem, e), SaveFails(m, e, "unavailable"), [m EXCEPT !.local.pc = "saving"]}
        \/ m.obj[e].local /\ mem' = SaveSucceeds(m, e)
    BY <1>5, Zenon DEF LocalCheck
  <2>3. Mild(mem, m) /\ MemoryOK(m) /\ Known(m, e)
    BY <1>11, <2>1, ChecksMildly, MildKeeps, KnownStays DEF Asleep
  <2>4. m.local = mem.local /\ m \in Memory
    <3>1. m.local = mem.local
      BY <1>0 DEF Checked, Abort, Memory
    <3> QED BY <2>3, <3>1 DEF MemoryOK
  <2> HIDE DEF m
  <2>5. Mild(m, [m EXCEPT !.local.pc = "saving"])
    <3> DEFINE x == [m.local EXCEPT !.pc = "saving"]
    <3>1. x \in LocalLoop /\ x.entry = e
      BY <1>0, <2>4 DEF LocalLoop
    <3>2. [m EXCEPT !.local.pc = "saving"] = [m EXCEPT !.local = x]
      BY <2>4 DEF Memory
    <3> HIDE DEF x
    <3> QED BY <2>1, <2>3, <3>1, <3>2, LocalMoves
  <2>6. Mild(mem, SaveEnds(mem, e))
    BY <2>1, SaveEndsMildly
  <2>7. Mild(m, SaveFails(m, e, "unavailable")) /\ (m.obj[e].local => Mild(m, SaveSucceeds(m, e)))
    BY <2>1, <2>3, <2>4, SaveFailsMildly, SaveSucceedsMildly
  <2>8. Mild(mem, mem')
    BY <2>2, <2>3, <2>5, <2>6, <2>7, MildAgain
  <2> QED BY <1>1, <1>10, <2>1, <2>8
<1>6. CASE LocalSaved
  <2>1. /\ mem.local.pc = "saving" /\ UNCHANGED <<row, offers, archived, sent, acked, told, dropped, plan>>
        /\ e \in Entries /\ Saving(mem, e) /\ stored' = stored \cup {e}
        /\ mem' = SaveSucceeds(WithStored(mem, e), e)
    BY <1>2, <1>6, <1>11 DEF LocalSaved, Asleep, WithStored
  <2> HIDE DEF e
  <2>2. PICK m : m = mem
    OBVIOUS
  <2>3. PICK f \in Entries : f = e
    BY <2>1
  <2>4. Later
    BY <2>1 DEF Later, PlanKept, Fresh
  <2>5. MemoryOK(m)' /\ Saving(m, f)' /\ f \in stored'
    <3>1. MemoryOK(m)'
      BY <2>1, <2>2, <2>4, MemoryLater
    <3> QED BY <2>1, <2>2, <2>3, <3>1 DEF Saving
  <2>6. SavesStored'
    BY AlwaysSavesStored, PTL
  <2>7. PICK n : n = mem'
    OBVIOUS
  <2>8. MemoryOK(SaveSucceeds(WithStored(m, f), f))'
    BY <2>5, <2>6 DEF SavesStored
  <2>9. n = SaveSucceeds(WithStored(m, f), f)
    BY <2>1, <2>2, <2>3, <2>7
  <2>10. MemoryOK(n)'
    BY <2>8, <2>9
  <2>11. StoresOK'
    <3>1. /\ stored' \subseteq Entries /\ dropped' \subseteq Entries
          /\ offers' \in [Entries -> {"new", "putting", "accepted", "refused", "lost"}]
          /\ \A d \in dropped' : ~Fresh(d)' /\ (row[d] = NoRow \/ row[d].cancelled)
      BY <2>1 DEF StoresOK, Fresh
    <3>2. OnlyALockSurfaces'
      BY <2>1 DEF StoresOK, OnlyALockSurfaces, PauseNeverSurfaces
    <3> QED BY <2>1, <2>4, <3>1, <3>2, StoresGrow
  <2>12. MemoryOK(mem)'
    BY <2>7, <2>10
  <2> QED BY <1>10, <2>1, <2>11, <2>12
<1>7. CASE LocalRefused
  <2> DEFINE m == [mem EXCEPT !.cancelled = @ \cup {e}, !.obj[e].cancelled = TRUE]
  <2>1. mem.local.pc = "saving" /\ UNCHANGED <<row, offers, stored, archived, sent, acked, told, dropped>> /\ e \in Entries
        /\ Known(mem, e)
    BY <1>2, <1>7, <1>11 DEF LocalRefused, world, Asleep
  <2>2. \/ Fault("local") /\ mem' = SaveFails(mem, e, "local")
        \/ Fault("denied") /\ mem' = SaveFails(mem, e, "denied")
        \/ Fault("blocked") /\ mem' = SaveFails(m, e, "blocked")
    BY <1>7, Zenon DEF LocalRefused
  <2>3. PlanOK' /\ PlanKept
    BY <2>2, FaultsKeep
  <2>4. Mild(mem, SaveFails(mem, e, "local")) /\ Mild(mem, SaveFails(mem, e, "denied"))
    BY <2>1, SaveFailsMildly
  <2>5. Mild(mem, SaveFails(m, e, "blocked"))
    <3> DEFINE c == [mem EXCEPT !.cancelled = @ \cup {e}]
               n == Abort(c, {e})
               k == [n EXCEPT !.obj[e].cancelled = TRUE]
    <3>1. Mild(mem, n) /\ e \in n.cancelled
      BY <2>1, CancelsMildly
    <3>2. MemoryOK(n) /\ Known(n, e)
      BY <2>1, <3>1, MildKeeps, KnownStays
    <3>3. Mild(n, k) /\ Mild(n, SaveEnds(CleanupEntries(k, {e}), e))
      BY <2>1, <3>1, <3>2, CancelledSaveEndsMildly
    <3>4. c \in Memory /\ m = [c EXCEPT !.obj[e].cancelled = TRUE] /\ m.remote = c.remote /\ c.remote = mem.remote
          /\ e \in m.cancelled /\ m.discarded = mem.discarded
      BY <1>0, <2>1 DEF Memory
    <3>5. mem.discarded \subseteq Self /\ (mem.remote.pc \notin Asleep => mem.remote.entry \notin Self)
      BY <1>0 DEF MemoryOK, Memory, Asleep
    <3> HIDE DEF m, c, e
    <3>6. [Abort(m, {e}) EXCEPT !.obj[e].cancelled = TRUE] = k
      <4>1. [[m EXCEPT !.remote.aborted = TRUE] EXCEPT !.obj[e].cancelled = TRUE]
            = [[c EXCEPT !.remote.aborted = TRUE] EXCEPT !.obj[e].cancelled = TRUE]
        BY <3>4, ZenonT(40) DEF Memory
      <4>2. [m EXCEPT !.obj[e].cancelled = TRUE] = [c EXCEPT !.obj[e].cancelled = TRUE]
        BY <3>4 DEF Memory
      <4> QED BY <3>4, <4>1, <4>2 DEF Abort
    <3>7. CASE e \in m.discarded
      <4>1. n = c
        BY <3>4, <3>5, <3>7 DEF Abort, Asleep
      <4>2. k = m
        BY <3>4, <4>1
      <4>3. Mild(mem, m)
        BY <3>1, <3>3, <4>2, MildAgain
      <4>4. SaveFails(m, e, "blocked") = SaveEnds(m, e)
        BY <3>7, Zenon DEF SaveFails
      <4> QED BY <2>1, <4>3, <4>4, MildKeeps, SaveEndsMildly, MildAgain
    <3>8. CASE e \notin m.discarded
      <4>1. SaveFails(m, e, "blocked") = SaveEnds(CleanupEntries(k, {e}), e)
        <5>1. SaveFails(m, e, "blocked")
              = SaveEnds(CleanupEntries([Abort(m, {e}) EXCEPT !.obj[e].cancelled = TRUE], {e}), e)
          BY <3>4, <3>8, Zenon DEF SaveFails
        <5> HIDE DEF k
        <5> QED BY <3>6, <5>1
      <4> HIDE DEF k, n
      <4> QED BY <3>1, <3>3, <4>1, MildAgain
    <3> QED BY <3>7, <3>8
  <2> QED BY <1>1, <2>1, <2>2, <2>3, <2>4, <2>5
<1>8. CASE LocalWritten
  <2> DEFINE m == Taken("local", e)
  <2>1. mem.local.pc = "writing" /\ UNCHANGED <<row, offers, stored, archived, sent, acked, told, dropped, plan>> /\ e \in Entries
    BY <1>2, <1>8 DEF LocalWritten, world, Asleep
  <2>2. mem' \in {SaveEnds(m, e), SaveFails(m, e, "local")}
    BY <1>8, Zenon DEF LocalWritten
  <2>3. Mild(mem, m) /\ MemoryOK(m) /\ m.local.entry = e /\ Known(m, e)
    BY <1>3, <2>1 DEF Asleep
  <2> HIDE DEF m
  <2>4. Mild(mem, SaveEnds(m, e)) /\ Mild(mem, SaveFails(m, e, "local"))
    BY <2>1, <2>3, SaveEndsMildly, SaveFailsMildly, MildAgain
  <2> QED BY <1>1, <1>10, <2>1, <2>2, <2>4
<1>9. CASE LocalSettles
  <2> DEFINE m == Taken("local", e)
  <2>1. mem.local.pc = "failing" /\ UNCHANGED <<row, offers, stored, archived, sent, acked, dropped, plan>> /\ e \in Entries
        /\ told' \in {told, told \cup {<<e, "local">>}}
    BY <1>2, <1>9 DEF LocalSettles, Asleep
  <2>2. mem' \in {SaveEnds(m, e), SaveEnds(ScheduleSendRetry(m), e)}
    BY <1>9, Zenon DEF LocalSettles
  <2>3. Mild(mem, m) /\ MemoryOK(m)
    BY <1>3, <2>1 DEF Asleep
  <2> HIDE DEF m
  <2>4. Mild(mem, SaveEnds(m, e)) /\ Mild(mem, SaveEnds(ScheduleSendRetry(m), e))
    BY <2>1, <2>3, SaveEndsMildly, TimersMildly, MildKeeps, MildAgain
  <2>5. MemoryOK(mem')
    BY <2>2, <2>4, MildKeeps
  <2>6. PICK f : f = e
    OBVIOUS
  <2> HIDE DEF e
  <2> QED BY <1>10, <2>1, <2>5, <2>6, Unmoved
<1> QED BY <1>4, <1>5, <1>6, <1>7, <1>8, <1>9

--------------------------------------------------------------------------------
(* The outbox database. *)
LEMMA StartWriteKeeps == ASSUME MemoryOK(mem), NEW e \in Entries, StartWrite(e) PROVE MemoryOK(mem)'
<1>0. mem \in Memory /\ mem.obj[e] \in Entry /\ mem.flying[e].who = {} /\ UNCHANGED <<row, offers, stored, archived, sent, acked, told, dropped, plan>>
      /\ mem.queued \in [Entries -> SUBSET Writers] /\ mem.flying \in [Entries -> Snapshot]
  BY Records, Parts DEF StartWrite, world
<1> DEFINE s == [who |-> mem.queued[e], entry |-> mem.obj[e]]
           flying == [mem.flying EXCEPT ![e] = s]
           queued == [mem.queued EXCEPT ![e] = {}]
<1>1. s \in Snapshot /\ s.who = mem.queued[e] /\ s.entry = mem.obj[e]
  BY <1>0 DEF Snapshot
<1>2. mem' = [mem EXCEPT !.flying = flying, !.queued = queued]
  BY <1>0 DEF StartWrite, Memory
<1> HIDE DEF s
<1>3. /\ flying \in [Entries -> Snapshot] /\ flying[e] = s /\ \A f \in Entries \ {e} : flying[f] = mem.flying[f]
      /\ queued \in [Entries -> SUBSET Writers] /\ queued[e] = {} /\ \A f \in Entries \ {e} : queued[f] = mem.queued[f]
  BY <1>0, <1>1
<1> HIDE DEF flying, queued
<1>4. SUFFICES ASSUME NEW n, n = mem' PROVE MemoryOK(n)
  BY <1>0, WorldStays
<1>5. /\ n \in Memory /\ n.flying = flying /\ n.queued = queued
      /\ n.obj = mem.obj /\ n.remote = mem.remote /\ n.cleaning = mem.cleaning
      /\ n.resolved = mem.resolved /\ n.durable = mem.durable /\ n.removing = mem.removing /\ n.cancelled = mem.cancelled
      /\ n.closed = mem.closed /\ n.local = mem.local /\ n.worker = mem.worker /\ n.listed = mem.listed
      /\ n.unadmitted = mem.unadmitted
  BY <1>0, <1>2, <1>3, <1>4 DEF Memory
<1>6. ASSUME NEW f \in Entries
      PROVE  /\ Sending(n, f) <=> Sending(mem, f)
             /\ Archiving(n, f) <=> Archiving(mem, f)
             /\ InRow(mem, f) => InRow(n, f)
             /\ \A who \in Loops : /\ Waits(n, who, f) <=> Waits(mem, who, f)
                                   /\ OnePlace(mem, who, f) => OnePlace(n, who, f)
                                   /\ Checkpoints(mem, who, f) => Checkpoints(n, who, f)
             /\ (Saving(n, f) <=> Saving(mem, f)) /\ (Waits(n, "cancel", f) <=> Waits(mem, "cancel", f))
  <2>1. /\ (Sending(n, f) <=> Sending(mem, f)) /\ (Archiving(n, f) <=> Archiving(mem, f))
        /\ (Saving(n, f) <=> Saving(mem, f)) /\ (Waits(n, "cancel", f) <=> Waits(mem, "cancel", f))
    BY <1>0, <1>1, <1>3, <1>5 DEF Sending, Archiving, Saving, Waits
  <2>2. InRow(mem, f) => InRow(n, f)
    BY <1>1, <1>3, <1>5 DEF InRow, SamePacket
  <2>3. \A who \in Loops : /\ Waits(n, who, f) <=> Waits(mem, who, f)
                           /\ OnePlace(mem, who, f) => OnePlace(n, who, f)
    BY <1>0, <1>1, <1>3, <1>5 DEF Waits, OnePlace
  <2>4. \A who \in Loops : Checkpoints(mem, who, f) => Checkpoints(n, who, f)
    BY <1>1, <1>3, <1>5, <2>2 DEF Checkpoints, SamePacket
  <2> QED BY <2>1, <2>2, <2>3, <2>4
<1>7. ObjectsOK(n)
  <2>1. ASSUME NEW f \in Self, f \in Entries PROVE n.flying[f].entry.packet = NoPacket
    BY <1>1, <1>3, <1>5, <2>1 DEF MemoryOK, ObjectsOK
  <2> QED BY <1>5, <1>6, <2>1 DEF MemoryOK, ObjectsOK
<1>8. RemoteOK(n) /\ WorkerOK(n) /\ WaitsOK(n)
  BY <1>5, <1>6 DEF MemoryOK, RemoteOK, WorkerOK, WaitsOK, Loops
<1>9. MarksOK(n)
  <2>1. ASSUME Keeps, NEW f \in Entries PROVE ReallyArchived(n.flying[f].entry, f)
    BY <1>1, <1>3, <1>5, <2>1 DEF MemoryOK, MarksOK
  <2> QED BY <1>5, <2>1 DEF MemoryOK, MarksOK
<1>10. SeedsHeld(n)
  <2>1. ASSUME Keeps, NEW f \in Entries, NEW i \in Nat, Unsaved(f, i)
        PROVE  n.flying[f].who # {} => Carries(n.flying[f].entry, i)
    BY <1>1, <1>3, <1>5, <2>1 DEF MemoryOK, SeedsHeld
  <2> QED BY <1>5, <2>1 DEF MemoryOK, SeedsHeld
<1>11. HonestOK(n)
  <2>1. ASSUME NEW f \in Entries
        PROVE  Right(n.flying[f].entry, f) /\ (n.flying[f].who # {} => Kept(n.flying[f].entry, f))
    <3>1. Right(mem.obj[f], f) /\ Kept(mem.obj[f], f)
      BY ObjectBooks
    <3>2. Right(mem.flying[f].entry, f) /\ (mem.flying[f].who # {} => Kept(mem.flying[f].entry, f))
      BY DEF MemoryOK, HonestOK
    <3> QED BY <1>1, <1>3, <1>5, <3>1, <3>2
  <2> QED BY <1>5, <1>6, <2>1 DEF MemoryOK, HonestOK
<1>12. CancelOK(n)
  <2>1. ASSUME NEW f \in Entries
        PROVE  /\ row[f] # NoRow /\ row[f].cancelled =>
                     n.obj[f].cancelled /\ (n.flying[f].who # {} => n.flying[f].entry.cancelled)
               /\ n.flying[f].entry.cancelled => n.obj[f].cancelled
               /\ "cancel" \in n.queued[f] => n.obj[f].cancelled
               /\ "cancel" \in n.flying[f].who => n.flying[f].entry.cancelled
    <3>1. CASE f = e
      BY <1>1, <1>3, <1>5, <3>1 DEF MemoryOK, CancelOK
    <3>2. CASE f # e
      BY <1>3, <1>5, <3>2 DEF MemoryOK, CancelOK
    <3> QED BY <3>1, <3>2
  <2> QED BY <1>5, <2>1 DEF MemoryOK, CancelOK
<1>13. AdmissionOK(n)
  <2>1. ASSUME NEW f \in Entries, Fresh(f) PROVE n.flying[f].entry.packet = NoPacket
    <3>1. mem.obj[f].packet = NoPacket /\ mem.flying[f].entry.packet = NoPacket
      BY <2>1 DEF MemoryOK, ObjectsOK, AdmissionOK, Fresh
    <3> QED BY <1>1, <1>3, <1>5, <3>1
  <2> QED BY <1>5, <1>6, <2>1 DEF MemoryOK, AdmissionOK
<1>14. PauseOK(n)
  BY <1>5, <1>6 DEF MemoryOK, PauseOK, Ended
<1> QED BY <1>5, <1>7, <1>8, <1>9, <1>10, <1>11, <1>12, <1>13, <1>14 DEF MemoryOK

(* A write is over, and its row is there or not: those who wait for it are told. *)
LEMMA LandsKeeps ==
    ASSUME StoresOK, MemoryOK(mem), NEW e \in Entries, mem.flying[e].who # {}, NEW ok \in BOOLEAN, mem' = Landed(e, ok),
           row' = IF ok THEN PutExisting(e, mem.flying[e].entry) ELSE row,
           UNCHANGED <<offers, stored, archived, sent, acked, told, dropped>>, PlanKept
    PROVE  MemoryOK(mem)' /\ StoresOK'
<1>0. mem \in Memory /\ mem.flying \in [Entries -> Snapshot] /\ row \in [Entries -> Entry \cup {NoRow}]
      /\ mem.flying[e] \in Snapshot /\ mem.flying[e].entry \in Entry
  BY Parts DEF MemoryOK, StoresOK, Snapshot
<1> DEFINE s == [who |-> {}, entry |-> FreshEntry]
           flying == [mem.flying EXCEPT ![e] = s]
           resolved == mem.resolved \cup {<<who, e, ok>> : who \in mem.flying[e].who}
<1>1. /\ s \in Snapshot /\ s.who = {} /\ s.entry.packet = NoPacket /\ ~s.entry.cancelled
      /\ \A f \in Entries : Right(s.entry, f)
  <2>1. FreshEntry \in Entry /\ FreshEntry.packet = NoPacket /\ ~FreshEntry.cancelled
    BY DEF FreshEntry, Entry, Statuses
  <2>3. ASSUME NEW f \in Entries PROVE Right(FreshEntry, f)
    BY LengthAssumption DEF FreshEntry, Right
  <2> HIDE DEF s
  <2>2. s = [who |-> {}, entry |-> FreshEntry]
    BY DEF s
  <2> QED BY <2>1, <2>2, <2>3 DEF Snapshot
<1>2. mem' = [mem EXCEPT !.flying = flying, !.resolved = resolved]
  BY <1>0 DEF Landed, Memory
<1> HIDE DEF s
<1>3. /\ flying \in [Entries -> Snapshot] /\ flying[e] = s /\ \A f \in Entries \ {e} : flying[f] = mem.flying[f]
      /\ resolved \in SUBSET (Writers \X Entries \X BOOLEAN)
      /\ \A f \in Entries \ {e}, who \in Loops \cup {"cancel"}, b \in BOOLEAN : <<who, f, b>> \in resolved <=> <<who, f, b>> \in mem.resolved
      /\ \A who \in Loops \cup {"cancel"}, b \in BOOLEAN :
            <<who, e, b>> \in resolved <=> <<who, e, b>> \in mem.resolved \/ (b = ok /\ who \in mem.flying[e].who)
  <2>1. flying \in [Entries -> Snapshot] /\ flying[e] = s /\ \A f \in Entries \ {e} : flying[f] = mem.flying[f]
    BY <1>0, <1>1
  <2>2. resolved \in SUBSET (Writers \X Entries \X BOOLEAN)
    <3>1. mem.flying[e].who \subseteq Writers /\ mem.resolved \subseteq Writers \X Entries \X BOOLEAN
      BY <1>0 DEF Snapshot, Memory
    <3> QED BY <3>1
  <2> QED BY <2>1, <2>2
<1> HIDE DEF flying, resolved
<1>4. /\ mem' \in Memory /\ mem'.flying = flying /\ mem'.resolved = resolved
      /\ mem'.obj = mem.obj /\ mem'.remote = mem.remote /\ mem'.cleaning = mem.cleaning
      /\ mem'.queued = mem.queued /\ mem'.durable = mem.durable /\ mem'.removing = mem.removing
      /\ mem'.cancelled = mem.cancelled /\ mem'.closed = mem.closed /\ mem'.local = mem.local
      /\ mem'.worker = mem.worker /\ mem'.listed = mem.listed /\ mem'.unadmitted = mem.unadmitted
  BY <1>0, <1>2, <1>3, ZenonT(40) DEF Memory
<1>5. /\ row' \in [Entries -> Entry \cup {NoRow}] /\ \A f \in Entries \ {e} : row'[f] = row[f]
      /\ row[e] # NoRow <=> row'[e] # NoRow
      /\ ok /\ row[e] # NoRow => row'[e] = mem.flying[e].entry
      /\ row'[e] = row[e] \/ row'[e] = mem.flying[e].entry
  <2>1. mem.flying[e].entry # NoRow
    BY <1>0, AbsenceAssumption
  <2> QED BY <1>0, <2>1 DEF PutExisting
<1>6. ASSUME NEW f \in Entries PROVE InRow(mem, f) => InRow(mem, f)'
  <2>1. CASE f = e
    BY <1>1, <1>3, <1>4, <1>5, <2>1 DEF InRow, SamePacket
  <2>2. CASE f # e
    BY <1>3, <1>4, <1>5, <2>2 DEF InRow, SamePacket
  <2> QED BY <2>1, <2>2
<1>7. ASSUME NEW f \in Entries
      PROVE  /\ Sending(mem, f)' <=> Sending(mem, f)
             /\ Archiving(mem, f)' <=> Archiving(mem, f)
             /\ Saving(mem, f)' <=> Saving(mem, f)
             /\ \A who \in Loops : /\ Waits(mem, who, f)' => Waits(mem, who, f)
                                   /\ OnePlace(mem, who, f) => OnePlace(mem, who, f)'
             /\ Waits(mem, "cancel", f)' => Waits(mem, "cancel", f)
  <2>1. /\ (Sending(mem, f)' <=> Sending(mem, f)) /\ (Archiving(mem, f)' <=> Archiving(mem, f))
        /\ Saving(mem, f)' <=> Saving(mem, f)
    BY <1>4 DEF Sending, Archiving, Saving
  <2>2. ASSUME NEW who \in Loops \cup {"cancel"}
        PROVE  /\ Waits(mem, who, f)' => Waits(mem, who, f)
               /\ OnePlace(mem, who, f) => OnePlace(mem, who, f)'
    <3>1. CASE f = e
      BY <1>1, <1>3, <1>4, <3>1 DEF Waits, OnePlace
    <3>2. CASE f # e
      BY <1>3, <1>4, <3>2 DEF Waits, OnePlace
    <3> QED BY <3>1, <3>2
  <2> QED BY <2>1, <2>2
<1>8. ASSUME NEW f \in Entries, NEW who \in Loops, Checkpoints(mem, who, f) PROVE Checkpoints(mem, who, f)'
  <2>1. mem.obj[f].packet # NoPacket => row[f] # NoRow \/ f \in mem.cancelled
    BY DEF MemoryOK, ObjectsOK
  <2>2. CASE f = e
    <3>1. ASSUME who \in mem.flying[e].who, ok, e \notin mem.cancelled PROVE InRow(mem, e)'
      <4>1. SamePacket(mem.flying[e].entry, mem.obj[e]) /\ row[e] # NoRow
        BY <1>8, <2>1, <2>2, <3>1 DEF Checkpoints
      <4> QED BY <1>1, <1>3, <1>4, <1>5, <3>1, <4>1 DEF InRow, SamePacket
    <3> QED BY <1>1, <1>3, <1>4, <1>6, <1>8, <2>2, <3>1 DEF Checkpoints
  <2>3. CASE f # e
    BY <1>3, <1>4, <1>6, <1>8, <2>3 DEF Checkpoints, SamePacket
  <2> QED BY <2>2, <2>3
<1>9. ObjectsOK(mem)'
  <2>1. ASSUME NEW f \in Entries
        PROVE  /\ f \in Self => mem'.flying[f].entry.packet = NoPacket
               /\ row[f] # NoRow => row'[f] # NoRow
    BY <1>1, <1>3, <1>4, <1>5, <2>1 DEF MemoryOK, ObjectsOK
  <2> QED BY <1>4, <1>6, <1>7, <2>1 DEF MemoryOK, ObjectsOK
<1>10. RemoteOK(mem)'
  <2>1. ASSUME NEW f \in Entries PROVE row[f] # NoRow => row'[f] # NoRow
    BY <1>5
  <2> QED BY <1>4, <1>7, <1>8, <2>1 DEF MemoryOK, RemoteOK, Loops
<1>11. WorkerOK(mem)' /\ WaitsOK(mem)'
  BY <1>4, <1>7, <1>8 DEF MemoryOK, WorkerOK, WaitsOK, Loops
<1>12. MarksOK(mem)'
  <2>1. ASSUME Keeps, NEW f \in Entries PROVE ReallyArchived(mem.flying[f].entry, f)'
    <3>1. CASE f = e
      BY <1>1, <1>3, <1>4, <3>1 DEF ReallyArchived
    <3>2. CASE f # e
      <4>1. ReallyArchived(mem.flying[f].entry, f) /\ mem'.flying[f] = mem.flying[f]
        BY <1>3, <1>4, <2>1, <3>2 DEF MemoryOK, MarksOK
      <4> QED BY <4>1 DEF ReallyArchived
    <3> QED BY <3>1, <3>2
  <2>2. ASSUME Keeps, NEW f \in Entries PROVE ReallyArchived(mem.obj[f], f)'
    BY <1>4, <2>2 DEF MemoryOK, MarksOK, ReallyArchived
  <2> QED BY <2>1, <2>2 DEF MarksOK, Keeps, PlanKept
<1>13. SeedsHeld(mem)'
  <2>1. ASSUME Keeps, NEW f \in Entries, NEW i \in Nat, Unsaved(f, i)
        PROVE  mem'.flying[f].who # {} => Carries(mem.flying[f].entry, i)'
    BY <1>1, <1>3, <1>4, <2>1 DEF MemoryOK, SeedsHeld, Carries
  <2>2. ASSUME Keeps, NEW f \in Entries, NEW i \in Nat, Unsaved(f, i)
        PROVE  Carries(mem.obj[f], i)' /\ f \notin mem'.cleaning \cup mem'.removing
    BY <1>4, <2>2 DEF MemoryOK, SeedsHeld, Carries
  <2> QED BY <2>1, <2>2 DEF SeedsHeld, Unsaved, Keeps, PlanKept
<1>20. row'[e] # NoRow => /\ Right(row'[e], e) /\ Kept(row'[e], e)
                          /\ row'[e].cancelled => mem.obj[e].cancelled
                          /\ row[e] # NoRow /\ row[e].cancelled => row'[e].cancelled
                          /\ "cancel" \in mem.flying[e].who /\ ok => row'[e].cancelled
  <2>1. Right(mem.flying[e].entry, e) /\ Kept(mem.flying[e].entry, e)
    BY DEF MemoryOK, HonestOK
  <2>2. row[e] # NoRow => Right(row[e], e) /\ Kept(row[e], e)
    BY DEF StoresOK
  <2>3. /\ mem.flying[e].entry.cancelled => mem.obj[e].cancelled
        /\ row[e] # NoRow /\ row[e].cancelled => mem.obj[e].cancelled /\ mem.flying[e].entry.cancelled
        /\ "cancel" \in mem.flying[e].who => mem.flying[e].entry.cancelled
    BY DEF MemoryOK, CancelOK
  <2> QED BY <1>5, <2>1, <2>2, <2>3
<1>21. ASSUME NEW f \in Entries, NEW x, Kept(x, f) PROVE Kept(x, f)'
  <2>1. row'[f] = NoRow <=> row[f] = NoRow
    BY <1>5
  <2> QED BY <1>21, <2>1 DEF Kept
<1>22. ASSUME NEW f \in Entries, NEW x, Right(x, f) PROVE Right(x, f)'
  BY <1>22 DEF Right
<1>23. HonestOK(mem)'
  <2>1. PICK n : n = mem'
    OBVIOUS
  <2>2. ASSUME NEW f \in Entries
        PROVE  /\ Right(n.obj[f], f)' /\ Right(n.flying[f].entry, f)'
               /\ Kept(n.obj[f], f)' /\ (n.flying[f].who # {} => Kept(n.flying[f].entry, f)')
               /\ Sending(n, f)' /\ n.remote.pc = "accepted" => <<f, n.obj[f].index>> \in acked'
               /\ f \in n.cleaning => f \in n.cancelled \/ n.obj[f].local
    <3>1. Right(n.obj[f], f) /\ Kept(n.obj[f], f)
      BY <1>4, <2>1, ObjectBooks
    <3>2. Right(n.flying[f].entry, f) /\ (n.flying[f].who # {} => Kept(n.flying[f].entry, f))
      <4>1. CASE f = e
        BY <1>1, <1>3, <1>4, <2>1, <4>1
      <4>2. CASE f # e
        BY <1>3, <1>4, <2>1, <4>2 DEF MemoryOK, HonestOK
      <4> QED BY <4>1, <4>2
    <3>3. /\ Sending(n, f)' /\ n.remote.pc = "accepted" => <<f, n.obj[f].index>> \in acked'
          /\ f \in n.cleaning => f \in n.cancelled \/ n.obj[f].local
      BY <1>4, <2>1 DEF MemoryOK, HonestOK, Sending
    <3> QED BY <1>21, <1>22, <3>1, <3>2, <3>3
  <2>3. HonestOK(n)'
    BY <2>2 DEF HonestOK
  <2> QED BY <2>1, <2>3
<1>24. CancelOK(mem)'
  <2>1. ASSUME NEW f \in Entries
        PROVE  /\ row'[f] # NoRow /\ row'[f].cancelled =>
                     mem'.obj[f].cancelled /\ (mem'.flying[f].who # {} => mem'.flying[f].entry.cancelled)
               /\ mem'.flying[f].entry.cancelled => mem'.obj[f].cancelled
               /\ "cancel" \in mem'.queued[f] => mem'.obj[f].cancelled
               /\ "cancel" \in mem'.flying[f].who => mem'.flying[f].entry.cancelled
               /\ <<"cancel", f, TRUE>> \in mem'.resolved => row'[f] = NoRow \/ row'[f].cancelled
    <3>1. CASE f = e
      <4>1. "cancel" \in mem'.queued[e] => mem'.obj[e].cancelled
        BY <1>4 DEF MemoryOK, CancelOK
      <4>2. <<"cancel", e, TRUE>> \in mem'.resolved => row'[e] = NoRow \/ row'[e].cancelled
        <5>1. <<"cancel", e, TRUE>> \in mem.resolved => row[e] = NoRow \/ row[e].cancelled
          BY DEF MemoryOK, CancelOK
        <5> QED BY <1>3, <1>4, <1>5, <1>20, <5>1
      <4> QED BY <1>1, <1>3, <1>4, <1>20, <3>1, <4>1, <4>2
    <3>2. CASE f # e
      BY <1>3, <1>4, <1>5, <3>2 DEF MemoryOK, CancelOK
    <3> QED BY <3>1, <3>2
  <2> QED BY <2>1 DEF CancelOK
<1>25. AdmissionOK(mem)'
  <2>1. ASSUME NEW f \in Entries, Fresh(f) PROVE mem'.flying[f].entry.packet = NoPacket
    BY <1>1, <1>3, <1>4, <2>1 DEF MemoryOK, AdmissionOK
  <2>2. ASSUME NEW f \in Entries
        PROVE  /\ f \in mem'.unadmitted => f \in mem'.listed /\ f \notin mem'.cleaning /\ mem'.obj[f].status # "saved"
               /\ Fresh(f)' => /\ f \in mem'.listed \/ Saving(mem, f)' => f \in mem'.unadmitted
                               /\ ~Archiving(mem, f)' /\ ~Waits(mem, "cancel", f)'
                               /\ f \notin mem'.cleaning \cup mem'.removing
                               /\ mem'.flying[f].entry.packet = NoPacket /\ mem'.obj[f].status # "saved"
    <3>1. Fresh(f)' <=> Fresh(f)
      BY DEF Fresh
    <3> QED BY <1>4, <1>7, <2>1, <3>1 DEF MemoryOK, AdmissionOK
  <2> QED BY <2>2 DEF AdmissionOK
<1>26. PauseOK(mem)'
  BY <1>4, <1>7 DEF MemoryOK, PauseOK, Ended, PlanKept
<1>14. MemoryOK(mem)'
  BY <1>4, <1>9, <1>10, <1>11, <1>12, <1>13, <1>23, <1>24, <1>25, <1>26 DEF MemoryOK, PlanKept
<1>15. Keeps' => SeedRecoverable'
  <2>1. ASSUME Keeps, NEW x \in sent
        PROVE  \/ <<x[1], x[2]>> \in archived
               \/ /\ row'[x[1]] # NoRow
                  /\ row'[x[1]].packet # NoPacket
                  /\ row'[x[1]].packet.index = x[2]
                  /\ ~row'[x[1]].packet.archived
    <3>1. x[1] \in Entries /\ x[2] \in Nat
      BY <2>1 DEF StoresOK
    <3>2. \/ <<x[1], x[2]>> \in archived
          \/ row[x[1]] # NoRow /\ Carries(row[x[1]], x[2])
      BY <2>1 DEF StoresOK, SeedRecoverable, Carries, Keeps
    <3>3. <<x[1], x[2]>> \notin archived /\ x[1] = e => Carries(mem.flying[e].entry, x[2])
      BY <2>1, <3>1 DEF MemoryOK, SeedsHeld, Unsaved
    <3> QED BY <1>5, <3>1, <3>2, <3>3 DEF Carries
  <2> QED BY <2>1 DEF SeedRecoverable, Keeps, PlanKept
<1>16. ASSUME NEW f \in Entries, row'[f] # NoRow
       PROVE  /\ offers'[f] \notin {"new", "putting"}
              /\ f \in Self => row'[f].packet = NoPacket
              /\ Keeps' => ReallyArchived(row[f], f)'
              /\ Right(row[f], f)' /\ Kept(row[f], f)'
  <2>1. Keeps => ReallyArchived(mem.flying[e].entry, e)
    BY DEF MemoryOK, MarksOK
  <2>2. e \in Self => mem.flying[e].entry.packet = NoPacket
    BY DEF MemoryOK, ObjectsOK
  <2>3. row[f] # NoRow
    BY <1>5, <1>16
  <2>4. /\ offers[f] \notin {"new", "putting"}
        /\ f \in Self => row[f].packet = NoPacket
        /\ Keeps => ReallyArchived(row[f], f)
        /\ Right(row[f], f) /\ Kept(row[f], f)
    BY <2>3 DEF StoresOK
  <2>5. PICK x : x = row'[f]
    OBVIOUS
  <2>6. Right(x, f) /\ Kept(x, f)
    BY <1>5, <1>16, <1>20, <2>4, <2>5
  <2>7. Right(x, f)' /\ Kept(x, f)'
    BY <1>21, <1>22, <2>6
  <2>8. Right(row[f], f)' /\ Kept(row[f], f)'
    BY <2>5, <2>7
  <2>9. Keeps' => ReallyArchived(row[f], f)'
    BY <1>5, <2>1, <2>4 DEF ReallyArchived, Keeps, PlanKept
  <2>10. f \in Self => row'[f].packet = NoPacket
    BY <1>5, <2>2, <2>4
  <2> QED BY <2>4, <2>8, <2>9, <2>10
<1>17. StoresOK'
  <2>1. /\ sent' \subseteq (Entries \ Self) \X Nat \X Nat /\ IsFiniteSet(sent')
        /\ offers' \in [Entries -> {"new", "putting", "accepted", "refused", "lost"}]
        /\ \A x \in sent' : offers'[x[1]] \notin {"new", "putting"} /\ x[3] = 1
        /\ stored' \subseteq Entries /\ dropped' \subseteq Entries
    BY DEF StoresOK
  <2>2. OnlyALockSurfaces'
    BY DEF StoresOK, OnlyALockSurfaces, PauseNeverSurfaces, PlanKept
  <2>3. ASSUME NEW d \in dropped' PROVE ~Fresh(d)' /\ (row'[d] = NoRow \/ row'[d].cancelled)
    <3>1. d \in Entries /\ ~Fresh(d) /\ (row[d] = NoRow \/ row[d].cancelled)
      BY <2>3 DEF StoresOK
    <3>2. ~Fresh(d)'
      BY <3>1 DEF Fresh
    <3> QED BY <1>5, <1>20, <3>1, <3>2
  <2> QED BY <1>5, <1>15, <1>16, <2>1, <2>2, <2>3 DEF StoresOK
<1> QED BY <1>14, <1>17

(* Entries leave the lists of what is to be removed. *)
LEMMA UnmarksMildly ==
    ASSUME NEW m, MemoryOK(m), NEW S
    PROVE  /\ Mild(m, [m EXCEPT !.cleaning = @ \ S])
           /\ Mild(m, [m EXCEPT !.removing = @ \ S])
           /\ Mild(m, [m EXCEPT !.retries = @ \ S])
<1>1. m \in Memory /\ (m.local.pc \notin Asleep => m.local.entry \in Entries)
  BY DEF MemoryOK, Asleep
<1>2. ASSUME NEW n, n.removing \subseteq m.removing, n.cleaning \subseteq m.cleaning,
             /\ n \in Memory /\ n.obj = m.obj /\ n.queued = m.queued /\ n.flying = m.flying
             /\ n.resolved = m.resolved /\ n.durable = m.durable /\ n.listed = m.listed /\ n.cancelled = m.cancelled
             /\ n.closed = m.closed /\ n.local = m.local /\ n.worker = m.worker /\ n.remote = m.remote
             /\ n.unadmitted = m.unadmitted
      PROVE  Mild(m, n)
  <2>1. ASSUME NEW f \in Entries PROVE SameEntry(m, n, f)
    <3>1. (m.obj[f].cancelled => f \in m.cancelled) /\ (f \in m.unadmitted => f \in m.listed)
      BY DEF MemoryOK, ObjectsOK, AdmissionOK
    <3>2. Saving(n, f) <=> Saving(m, f)
      BY <1>2 DEF Saving
    <3> QED BY <1>2, <3>1, <3>2 DEF SameEntry, SameSend, SavesRightly, Known
  <2> QED BY <1>1, <1>2, <2>1 DEF Mild, SameSending
<1>3. Mild(m, [m EXCEPT !.cleaning = @ \ S])
  <2>1. PICK s \in SUBSET Entries : s = m.cleaning \ S
    BY <1>1 DEF Memory
  <2>2. ASSUME NEW n, n = [m EXCEPT !.cleaning = s] PROVE Mild(m, n)
    BY <1>1, <1>2, <2>1, <2>2 DEF Memory
  <2> QED BY <2>1, <2>2
<1>4. Mild(m, [m EXCEPT !.removing = @ \ S])
  <2>1. PICK s \in SUBSET Entries : s = m.removing \ S
    BY <1>1 DEF Memory
  <2>2. ASSUME NEW n, n = [m EXCEPT !.removing = s] PROVE Mild(m, n)
    BY <1>1, <1>2, <2>1, <2>2 DEF Memory
  <2> QED BY <2>1, <2>2
<1>5. Mild(m, [m EXCEPT !.retries = @ \ S])
  <2>1. PICK s \in SUBSET Entries : s = m.retries \ S
    BY <1>1 DEF Memory
  <2>2. ASSUME NEW n, n = [m EXCEPT !.retries = s] PROVE Mild(m, n)
    BY <1>1, <1>2, <2>1, <2>2 DEF Memory
  <2> QED BY <2>1, <2>2
<1> QED BY <1>3, <1>4, <1>5

LEMMA DatabaseKeeps ==
    ASSUME PlanOK, StoresOK, MemoryOK(mem), NEW e \in Entries,
           \/ StartWrite(e) \/ WriteCommits(e) \/ WriteFails(e) \/ CleanupCommits(e) \/ CleanupFails(e) \/ RemovalCommits(e)
    PROVE  MemoryOK(mem)' /\ StoresOK' /\ PlanOK' /\ PlanKept
<1>0. mem \in Memory /\ row \in [Entries -> Entry \cup {NoRow}] /\ mem.obj \in [Entries -> Entry]
  BY Parts DEF MemoryOK, StoresOK
<1>1. CASE StartWrite(e)
  <2>1. UNCHANGED <<row, offers, stored, archived, sent, acked, told, dropped, plan>>
    BY <1>1 DEF StartWrite, world
  <2>2. MemoryOK(mem)'
    BY <1>1, StartWriteKeeps
  <2>3. /\ offers' \in [Entries -> {"new", "putting", "accepted", "refused", "lost"}]
        /\ archived \subseteq archived' /\ \A f \in Entries : Fresh(f)' => Fresh(f)
    BY <2>1 DEF StoresOK, Fresh
  <2>4. PlanOK' /\ PlanKept
    BY <2>1 DEF PlanOK, PlanKept
  <2> QED BY <2>1, <2>2, <2>3, <2>4, StoresStay
<1>2. CASE WriteCommits(e)
  <2>1. /\ mem.flying[e].who # {} /\ mem' = Landed(e, TRUE) /\ row' = PutExisting(e, mem.flying[e].entry)
        /\ UNCHANGED <<offers, stored, archived, sent, acked, told, dropped, plan>>
    BY <1>2 DEF WriteCommits, world
  <2>2. PlanOK' /\ PlanKept
    BY <2>1 DEF PlanOK, PlanKept
  <2> QED BY <2>1, <2>2, LandsKeeps
<1>3. CASE WriteFails(e)
  <2>1. /\ mem.flying[e].who # {} /\ mem' = Landed(e, FALSE) /\ row' = row
        /\ UNCHANGED <<offers, stored, archived, sent, acked, told, dropped>> /\ Fault("write")
    BY <1>3 DEF WriteFails, world
  <2>2. PlanOK' /\ PlanKept
    BY <2>1, FaultsKeep
  <2> QED BY <2>1, <2>2, LandsKeeps
<1>4. CASE CleanupCommits(e)
  <2> DEFINE a == [mem EXCEPT !.cleaning = @ \ {e}]
             b == [a EXCEPT !.retries = @ \ {e}]
             c == [b EXCEPT !.listed = @ \ {e}]
  <2>1. /\ e \in mem.cleaning /\ row' = [row EXCEPT ![e] = NoRow] /\ UNCHANGED <<offers, stored, archived, sent, acked, told, dropped, plan>>
        /\ mem' = ResetWhenNothingPends([mem EXCEPT !.cleaning = @ \ {e}, !.listed = @ \ {e}, !.retries = @ \ {e}])
    BY <1>4 DEF CleanupCommits, world
  <2>2. c = [mem EXCEPT !.cleaning = @ \ {e}, !.listed = @ \ {e}, !.retries = @ \ {e}]
    BY <1>0 DEF Memory
  <2>3. Mild(mem, a) /\ MemoryOK(a)
    BY UnmarksMildly, MildKeeps
  <2> HIDE DEF a
  <2>4. Mild(mem, b) /\ MemoryOK(b)
    BY <2>3, UnmarksMildly, MildKeeps, MildAgain
  <2> HIDE DEF b
  <2>11. {e} \cap b.unadmitted = {} /\ ~Fresh(e)
    <3>1. e \notin mem.unadmitted /\ ~Fresh(e)
      BY <2>1 DEF MemoryOK, AdmissionOK
    <3>2. b.unadmitted = mem.unadmitted
      BY <1>0 DEF Memory, a, b
    <3> QED BY <3>1, <3>2
  <2>5. Mild(mem, c) /\ MemoryOK(c)
    <3>1. ASSUME NEW n, n = [b EXCEPT !.listed = @ \ {e}] PROVE Mild(b, n)
      BY <2>4, <2>11, <3>1, DelistsMildly
    <3>2. Mild(b, c)
      BY <3>1
    <3> HIDE DEF c
    <3> QED BY <2>4, <3>2, MildKeeps, MildAgain
  <2>6. c.obj = mem.obj /\ c.listed = b.listed \ {e} /\ c.cancelled = mem.cancelled
    BY <1>0 DEF Memory, a, b
  <2> HIDE DEF c
  <2>7. MemoryOK(mem') /\ mem'.obj = c.obj /\ mem'.listed = c.listed /\ mem'.cancelled = c.cancelled
    <3>1. mem' = ResetWhenNothingPends(c)
      BY <2>1, <2>2
    <3>2. MemoryOK(mem')
      BY <2>5, <3>1, TimersMildly, MildKeeps
    <3>3. mem' = c \/ mem' = [c EXCEPT !.sendTimer = FALSE]
      BY <3>1 DEF ResetWhenNothingPends
    <3>4. c \in Memory
      BY <2>5 DEF MemoryOK
    <3> QED BY <3>2, <3>3, <3>4 DEF Memory
  <2>8. e \in mem.cancelled \/ (mem.obj[e].packet = NoPacket /\ (e \in Self \/ mem.obj[e].delivered))
    BY <2>1 DEF MemoryOK, ObjectsOK
  <2>9. Keeps => \A i \in Nat : ~Unsaved(e, i)
    BY <2>1 DEF MemoryOK, SeedsHeld
  <2>12. PlanOK' /\ PlanKept
    BY <2>1 DEF PlanOK, PlanKept
  <2>10. MemoryOK(mem)'
    BY <1>0, <2>1, <2>6, <2>7, <2>8, <2>12, RowGone
  <2>13. dropped' \in {dropped, dropped \cup {e}}
    BY <2>1
  <2> QED BY <2>1, <2>9, <2>10, <2>11, <2>12, <2>13, StoresWithout
<1>5. CASE CleanupFails(e)
  <2>1. /\ UNCHANGED <<row, offers, stored, archived, sent, acked, told, dropped>> /\ Fault("write")
        /\ mem' = ResetWhenNothingPends([ScheduleSendRetry([mem EXCEPT !.obj[e].failed = TRUE, !.obj[e].retryable = TRUE])
                                         EXCEPT !.cleaning = @ \ {e}])
    BY <1>5 DEF CleanupFails, world
  <2>2. PlanOK' /\ PlanKept
    BY <2>1, FaultsKeep
  <2>3. PICK x \in Entry : /\ [mem EXCEPT !.obj[e].failed = TRUE, !.obj[e].retryable = TRUE] = [mem EXCEPT !.obj[e] = x]
                           /\ x.packet = mem.obj[e].packet /\ x.delivered = mem.obj[e].delivered
                           /\ x.cancelled = mem.obj[e].cancelled /\ x.status = mem.obj[e].status
                           /\ x.index = mem.obj[e].index /\ x.local = mem.obj[e].local
    <3> DEFINE o == mem.obj[e]
               x == [o EXCEPT !.failed = TRUE, !.retryable = TRUE]
    <3>1. o \in Entry
      BY <1>0
    <3>2. x \in Entry /\ x.packet = o.packet /\ x.delivered = o.delivered /\ x.cancelled = o.cancelled /\ x.status = o.status
          /\ x.index = o.index /\ x.local = o.local
      BY <3>1 DEF Entry
    <3>3. [mem EXCEPT !.obj[e].failed = TRUE, !.obj[e].retryable = TRUE] = [mem EXCEPT !.obj[e] = x]
      BY <1>0 DEF Memory
    <3> QED BY <3>2, <3>3
  <2>4. Mild(mem, [mem EXCEPT !.obj[e] = x])
    <3>1. mem.obj[e].cancelled => e \in mem.cancelled
      BY DEF MemoryOK, ObjectsOK
    <3>2. MayBecome(mem, e, x)
      BY <2>3, <3>1 DEF MayBecome, SameSend, SavesRightly
    <3> QED BY <3>2, EntryMoves
  <2>5. Mild(mem, mem')
    <3> DEFINE k == [mem EXCEPT !.obj[e] = x]
               l == ScheduleSendRetry(k)
               n == [l EXCEPT !.cleaning = @ \ {e}]
    <3>1. mem' = ResetWhenNothingPends(n)
      BY <2>1, <2>3
    <3>2. Mild(mem, k) /\ MemoryOK(k)
      BY <2>4, MildKeeps
    <3> HIDE DEF k
    <3>3. Mild(mem, l) /\ MemoryOK(l)
      BY <3>2, TimersMildly, MildKeeps, MildAgain
    <3> HIDE DEF l
    <3>4. Mild(mem, n) /\ MemoryOK(n)
      BY <3>3, UnmarksMildly, MildKeeps, MildAgain
    <3> HIDE DEF n
    <3> QED BY <3>1, <3>4, TimersMildly, MildAgain
  <2> QED BY <2>1, <2>2, <2>5, MildStep
<1>6. CASE RemovalCommits(e)
  <2>1. /\ e \in mem.removing /\ row' = [row EXCEPT ![e] = NoRow] /\ UNCHANGED <<offers, stored, archived, sent, acked, told, plan>>
        /\ mem' = [mem EXCEPT !.removing = @ \ {e}] /\ dropped' = dropped \cup {e}
    BY <1>6 DEF RemovalCommits
  <2>2. e \in mem.cancelled /\ (Keeps => \A i \in Nat : ~Unsaved(e, i)) /\ ~Fresh(e)
    BY <2>1 DEF MemoryOK, ObjectsOK, SeedsHeld, AdmissionOK
  <2>3. MemoryOK(mem') /\ mem'.cancelled = mem.cancelled
    BY <1>0, <2>1, UnmarksMildly, MildKeeps DEF Memory
  <2>4. PlanOK' /\ PlanKept
    BY <2>1 DEF PlanOK, PlanKept
  <2>5. MemoryOK(mem)'
    BY <1>0, <2>1, <2>2, <2>3, <2>4, RowGone
  <2> QED BY <2>1, <2>2, <2>4, <2>5, StoresWithout
<1> QED BY <1>1, <1>2, <1>3, <1>4, <1>5, <1>6

--------------------------------------------------------------------------------
(* enqueue. *)
LEMMA RemovesKeeps ==
    ASSUME NEW m, MemoryOK(m), NEW e \in Entries, e \in m.cancelled, m.obj[e].packet = NoPacket, ~Fresh(e),
           NEW n, n = [m EXCEPT !.removing = @ \cup {e}]
    PROVE  MemoryOK(n)
<1>1. m \in Memory
  BY DEF MemoryOK
<1>2. PICK s \in SUBSET Entries : s = m.removing \cup {e}
  BY <1>1 DEF Memory
<1>3. /\ n \in Memory /\ n.removing = s
      /\ n.obj = m.obj /\ n.queued = m.queued /\ n.flying = m.flying /\ n.cleaning = m.cleaning
      /\ n.resolved = m.resolved /\ n.durable = m.durable /\ n.listed = m.listed /\ n.cancelled = m.cancelled
      /\ n.closed = m.closed /\ n.local = m.local /\ n.worker = m.worker /\ n.remote = m.remote
      /\ n.unadmitted = m.unadmitted
  <2>1. n = [m EXCEPT !.removing = s]
    BY <1>2
  <2> QED BY <1>1, <2>1 DEF Memory
<1>4. ASSUME NEW f \in Entries
      PROVE  /\ Sending(n, f) <=> Sending(m, f)
             /\ Archiving(n, f) <=> Archiving(m, f)
             /\ Saving(n, f) <=> Saving(m, f)
             /\ InRow(n, f) <=> InRow(m, f)
             /\ \A who \in Loops : /\ Waits(n, who, f) <=> Waits(m, who, f)
                                   /\ OnePlace(n, who, f) <=> OnePlace(m, who, f)
                                   /\ Checkpoints(n, who, f) <=> Checkpoints(m, who, f)
             /\ Waits(n, "cancel", f) <=> Waits(m, "cancel", f)
  BY <1>3 DEF Sending, Archiving, Saving, InRow, Waits, OnePlace, Checkpoints, SamePacket
<1>5. ObjectsOK(n)
  <2>1. ASSUME NEW f \in Entries PROVE f \in n.removing => f \in n.cancelled
    BY <1>2, <1>3, <2>1 DEF MemoryOK, ObjectsOK
  <2> QED BY <1>3, <1>4, <2>1, ZenonT(40) DEF MemoryOK, ObjectsOK
<1>6. RemoteOK(n) /\ WorkerOK(n) /\ WaitsOK(n)
  BY <1>3, <1>4, ZenonT(40) DEF MemoryOK, RemoteOK, WorkerOK, WaitsOK, Loops
<1>7. MarksOK(n)
  BY <1>3 DEF MemoryOK, MarksOK, ReallyArchived
<1>8. SeedsHeld(n)
  <2>1. Keeps => \A i \in Nat : ~Unsaved(e, i)
    BY DEF MemoryOK, SeedsHeld, Carries
  <2> QED BY <1>2, <1>3, <2>1 DEF MemoryOK, SeedsHeld, Carries
<1>9. HonestOK(n) /\ CancelOK(n) /\ PauseOK(n)
  BY <1>3, <1>4 DEF MemoryOK, HonestOK, CancelOK, PauseOK, Ended
<1>10. AdmissionOK(n)
  BY <1>2, <1>3, <1>4 DEF MemoryOK, AdmissionOK
<1> QED BY <1>3, <1>5, <1>6, <1>7, <1>8, <1>9, <1>10 DEF MemoryOK

(* An entry whose row is written is listed from then on. *)
LEMMA ListedKeeps ==
    ASSUME NEW m, MemoryOK(m), NEW e \in Entries, row[e] # NoRow, ~Fresh(e),
           NEW n, n = [m EXCEPT !.listed = @ \cup {e}, !.unadmitted = @ \ {e}]
    PROVE  MemoryOK(n) /\ n.obj = m.obj /\ n.cancelled = m.cancelled /\ e \notin n.unadmitted
<1>1. m \in Memory
  BY DEF MemoryOK
<1>2. PICK s \in SUBSET Entries, u \in SUBSET Self : s = m.listed \cup {e} /\ u = m.unadmitted \ {e}
  BY <1>1 DEF Memory
<1>3. /\ n \in Memory /\ n.listed = s /\ n.unadmitted = u
      /\ n.obj = m.obj /\ n.queued = m.queued /\ n.flying = m.flying /\ n.cleaning = m.cleaning
      /\ n.resolved = m.resolved /\ n.durable = m.durable /\ n.removing = m.removing /\ n.cancelled = m.cancelled
      /\ n.closed = m.closed /\ n.local = m.local /\ n.worker = m.worker /\ n.remote = m.remote
  <2>1. n = [m EXCEPT !.listed = s, !.unadmitted = u]
    BY <1>2
  <2> QED BY <1>1, <2>1 DEF Memory
<1>4. ASSUME NEW f \in Entries
      PROVE  /\ Sending(n, f) <=> Sending(m, f)
             /\ Archiving(n, f) <=> Archiving(m, f)
             /\ Saving(n, f) <=> Saving(m, f)
             /\ InRow(n, f) <=> InRow(m, f)
             /\ \A who \in Loops : /\ Waits(n, who, f) <=> Waits(m, who, f)
                                   /\ OnePlace(n, who, f) <=> OnePlace(m, who, f)
                                   /\ Checkpoints(n, who, f) <=> Checkpoints(m, who, f)
             /\ Waits(n, "cancel", f) <=> Waits(m, "cancel", f)
  BY <1>3 DEF Sending, Archiving, Saving, InRow, Waits, OnePlace, Checkpoints, SamePacket
<1>5. ObjectsOK(n)
  <2>1. ASSUME NEW f \in Entries
        PROVE  /\ f \in n.listed => f \in Self \/ row[f] # NoRow \/ f \in n.cancelled
               /\ offers[f] \in {"new", "putting"} => (f \in n.listed => f \in Self)
    BY <1>2, <1>3, <2>1 DEF MemoryOK, ObjectsOK, Fresh
  <2> QED BY <1>3, <1>4, <2>1, ZenonT(40) DEF MemoryOK, ObjectsOK
<1>6. RemoteOK(n) /\ WorkerOK(n) /\ WaitsOK(n)
  BY <1>3, <1>4, ZenonT(40) DEF MemoryOK, RemoteOK, WorkerOK, WaitsOK, Loops
<1>7. MarksOK(n) /\ SeedsHeld(n)
  BY <1>3 DEF MemoryOK, MarksOK, ReallyArchived, SeedsHeld, Carries
<1>8. HonestOK(n) /\ CancelOK(n) /\ PauseOK(n)
  BY <1>3, <1>4 DEF MemoryOK, HonestOK, CancelOK, PauseOK, Ended
<1>9. AdmissionOK(n)
  BY <1>2, <1>3, <1>4 DEF MemoryOK, AdmissionOK
<1> QED BY <1>2, <1>3, <1>5, <1>6, <1>7, <1>8, <1>9 DEF MemoryOK

(* The first row of an intent, and the answer to its caller: the memory holds. *)
LEMMA RowBorn ==
    ASSUME StoresOK, NEW e \in Entries, offers[e] = "putting", NEW m, MemoryOK(m),
           row' = [row EXCEPT ![e] = FreshEntry], NEW answer \in {"accepted", "refused"},
           offers' = [offers EXCEPT ![e] = answer], UNCHANGED <<stored, archived, sent, acked, dropped, plan>>,
           told' \in {told, told \cup {<<e, "local">>}}
    PROVE  MemoryOK(m)' /\ StoresOK' /\ row'[e] # NoRow /\ ~Fresh(e)'
<1>1. /\ m \in Memory /\ row \in [Entries -> Entry \cup {NoRow}]
      /\ offers \in [Entries -> {"new", "putting", "accepted", "refused", "lost"}]
      /\ FreshEntry \in Entry /\ FreshEntry.packet = NoPacket /\ ~FreshEntry.cancelled
      /\ row[e] = NoRow
  BY DEF MemoryOK, StoresOK, FreshEntry, Entry, Statuses
<1>2. /\ row' \in [Entries -> Entry \cup {NoRow}] /\ row'[e] = FreshEntry /\ row'[e] # NoRow
      /\ \A f \in Entries \ {e} : row'[f] = row[f]
      /\ offers' \in [Entries -> {"new", "putting", "accepted", "refused", "lost"}]
      /\ offers'[e] \notin {"new", "putting"} /\ \A f \in Entries \ {e} : offers'[f] = offers[f]
  BY <1>1, AbsenceAssumption
<1>3. /\ PlanKept /\ (Keeps' <=> Keeps) /\ Fresh(e) /\ ~Fresh(e)'
      /\ \A f \in Entries : Fresh(f)' => Fresh(f) /\ f # e
  BY <1>2 DEF PlanKept, Keeps, Fresh
<1>4. m.obj[e].packet = NoPacket /\ m.flying[e].entry.packet = NoPacket /\ ~Waits(m, "cancel", e)
      /\ e \notin m.durable
  BY <1>3 DEF MemoryOK, ObjectsOK, AdmissionOK, Fresh
<1>5. \A s \in sent : s[1] \in Entries /\ s[1] # e
  BY DEF StoresOK
<1>6. ASSUME NEW f \in Entries
      PROVE  /\ Sending(m, f)' <=> Sending(m, f)
             /\ Archiving(m, f)' <=> Archiving(m, f)
             /\ Saving(m, f)' <=> Saving(m, f)
             /\ InRow(m, f)' <=> InRow(m, f)
             /\ \A who \in Loops : /\ Waits(m, who, f)' <=> Waits(m, who, f)
                                   /\ OnePlace(m, who, f)' <=> OnePlace(m, who, f)
                                   /\ Checkpoints(m, who, f)' <=> Checkpoints(m, who, f)
             /\ Waits(m, "cancel", f)' <=> Waits(m, "cancel", f)
  <2>1. InRow(m, f)' <=> InRow(m, f)
    BY <1>2, <1>4 DEF InRow, SamePacket
  <2> QED BY <2>1 DEF Sending, Archiving, Saving, Waits, OnePlace, Checkpoints, SamePacket
<1>7. ASSUME NEW f \in Entries
      PROVE  /\ row[f] # NoRow => row'[f] # NoRow
             /\ offers'[f] \in {"new", "putting"} => f # e /\ offers[f] \in {"new", "putting"}
  BY <1>2
<1>8. ObjectsOK(m)'
  BY <1>6, <1>7 DEF MemoryOK, ObjectsOK
<1>9. RemoteOK(m)' /\ WorkerOK(m)' /\ WaitsOK(m)'
  BY <1>6, <1>7 DEF MemoryOK, RemoteOK, WorkerOK, WaitsOK, Loops
<1>10. MarksOK(m)' /\ SeedsHeld(m)'
  BY <1>3 DEF MemoryOK, MarksOK, ReallyArchived, SeedsHeld, Carries, Unsaved
<1>11. ASSUME NEW f \in Entries, NEW x, Kept(x, f), f = e => x.packet = NoPacket PROVE Kept(x, f)'
  <2>1. CASE f = e
    BY <1>5, <1>11, <2>1 DEF Kept
  <2>2. CASE f # e
    BY <1>2, <1>11, <2>2 DEF Kept
  <2> QED BY <2>1, <2>2
<1>12. ASSUME NEW f \in Entries, NEW x, Right(x, f) PROVE Right(x, f)'
  BY <1>12 DEF Right
<1>13. HonestOK(m)'
  <2>1. ASSUME NEW f \in Entries
        PROVE  /\ Right(m.obj[f], f)' /\ Right(m.flying[f].entry, f)'
               /\ Kept(m.obj[f], f)' /\ (m.flying[f].who # {} => Kept(m.flying[f].entry, f)')
               /\ Sending(m, f)' /\ m.remote.pc = "accepted" => <<f, m.obj[f].index>> \in acked'
               /\ f \in m.cleaning => f \in m.cancelled \/ m.obj[f].local
    <3>1. /\ Right(m.obj[f], f) /\ Right(m.flying[f].entry, f)
          /\ Kept(m.obj[f], f) /\ (m.flying[f].who # {} => Kept(m.flying[f].entry, f))
          /\ Sending(m, f) /\ m.remote.pc = "accepted" => <<f, m.obj[f].index>> \in acked
          /\ f \in m.cleaning => f \in m.cancelled \/ m.obj[f].local
      BY DEF MemoryOK, HonestOK
    <3>2. Right(m.obj[f], f)' /\ Right(m.flying[f].entry, f)'
      BY <1>12, <3>1
    <3>3. Kept(m.obj[f], f)' /\ (m.flying[f].who # {} => Kept(m.flying[f].entry, f)')
      BY <1>4, <1>11, <3>1
    <3>4. Sending(m, f)' => Sending(m, f)
      BY DEF Sending
    <3> QED BY <3>1, <3>2, <3>3, <3>4
  <2> QED BY <2>1 DEF HonestOK
<1>14. CancelOK(m)'
  <2>1. ASSUME NEW f \in Entries
        PROVE  /\ row'[f] # NoRow /\ row'[f].cancelled =>
                     m.obj[f].cancelled /\ (m.flying[f].who # {} => m.flying[f].entry.cancelled)
               /\ <<"cancel", f, TRUE>> \in m.resolved => row'[f] = NoRow \/ row'[f].cancelled
    <3>1. CASE f = e
      BY <1>1, <1>2, <1>4, <3>1 DEF Waits
    <3>2. CASE f # e
      BY <1>2, <3>2 DEF MemoryOK, CancelOK
    <3> QED BY <3>1, <3>2
  <2> QED BY <2>1 DEF MemoryOK, CancelOK
<1>15. AdmissionOK(m)'
  BY <1>3, <1>6 DEF MemoryOK, AdmissionOK
<1>16. PauseOK(m)'
  BY <1>6 DEF MemoryOK, PauseOK, Ended
<1>17. MemoryOK(m)'
  BY <1>8, <1>9, <1>10, <1>13, <1>14, <1>15, <1>16 DEF MemoryOK
<1>18. Keeps' => SeedRecoverable'
  BY <1>2, <1>3, <1>5 DEF StoresOK, SeedRecoverable
<1>19. Right(FreshEntry, e) /\ Kept(FreshEntry, e)
  <2>1. Length[e] \in Nat \ {0}
    BY LengthAssumption
  <2>2. Right(FreshEntry, e)
    BY <2>1 DEF FreshEntry, Right
  <2> QED BY <1>1, <2>2 DEF Kept
<1>20. ASSUME NEW f \in Entries, row'[f] # NoRow
       PROVE  /\ offers'[f] \notin {"new", "putting"}
              /\ f \in Self => row'[f].packet = NoPacket
              /\ Keeps' => ReallyArchived(row[f], f)'
              /\ Right(row[f], f)' /\ Kept(row[f], f)'
  <2>1. CASE f = e
    <3>1. PICK x : x = FreshEntry
      OBVIOUS
    <3>2. Right(x, e)' /\ Kept(x, e)'
      BY <1>1, <1>11, <1>12, <1>19, <3>1
    <3> QED BY <1>1, <1>2, <2>1, <3>1, <3>2 DEF ReallyArchived
  <2>2. CASE f # e
    <3>1. row'[f] = row[f] /\ row[f] # NoRow
      BY <1>2, <1>20, <2>2
    <3>2. /\ offers[f] \notin {"new", "putting"}
          /\ f \in Self => row[f].packet = NoPacket
          /\ Keeps => ReallyArchived(row[f], f)
          /\ Right(row[f], f) /\ Kept(row[f], f)
      BY <3>1 DEF StoresOK
    <3>3. PICK x : x = row[f]
      OBVIOUS
    <3>4. Right(x, f)' /\ Kept(x, f)'
      BY <1>11, <1>12, <2>2, <3>2, <3>3
    <3> QED BY <1>2, <1>3, <2>2, <3>1, <3>2, <3>3, <3>4 DEF ReallyArchived
  <2> QED BY <2>1, <2>2
<1>21. /\ sent' \subseteq (Entries \ Self) \X Nat \X Nat /\ IsFiniteSet(sent')
       /\ \A s \in sent' : offers'[s[1]] \notin {"new", "putting"} /\ s[3] = 1
       /\ stored' \subseteq Entries /\ dropped' \subseteq Entries
  BY <1>5, <1>7 DEF StoresOK
<1>22. \A f \in dropped' : ~Fresh(f)' /\ (row'[f] = NoRow \/ row'[f].cancelled)
  <2>1. ASSUME NEW f \in dropped' PROVE ~Fresh(f)' /\ (row'[f] = NoRow \/ row'[f].cancelled)
    <3>1. f \in Entries /\ ~Fresh(f) /\ (row[f] = NoRow \/ row[f].cancelled)
      BY DEF StoresOK
    <3> QED BY <1>2, <1>3, <3>1
  <2> QED BY <2>1
<1>23. OnlyALockSurfaces'
  BY DEF StoresOK, OnlyALockSurfaces, PauseNeverSurfaces
<1>24. StoresOK'
  BY <1>2, <1>18, <1>20, <1>21, <1>22, <1>23 DEF StoresOK
<1> QED BY <1>2, <1>3, <1>17, <1>24

(* A self entry is listed before its row is there. *)
LEMMA ListsMildly ==
    ASSUME NEW m, MemoryOK(m), NEW e \in Self, Fresh(e), NEW u \in SUBSET Self, u = m.unadmitted \cup {e}
    PROVE  Mild(m, [m EXCEPT !.listed = @ \cup {e}, !.unadmitted = u])
<1>1. m \in Memory /\ (m.local.pc \notin Asleep => m.local.entry \in Entries) /\ e \in Entries
  BY EntriesAssumption DEF MemoryOK, Asleep
<1>2. PICK s \in SUBSET Entries : s = m.listed \cup {e}
  BY <1>1 DEF Memory
<1>3. ASSUME NEW n, n = [m EXCEPT !.listed = s, !.unadmitted = u] PROVE Mild(m, n)
  <2>1. /\ n \in Memory /\ n.listed = s /\ n.unadmitted = u
        /\ n.obj = m.obj /\ n.queued = m.queued /\ n.flying = m.flying /\ n.cleaning = m.cleaning
        /\ n.resolved = m.resolved /\ n.durable = m.durable /\ n.removing = m.removing /\ n.cancelled = m.cancelled
        /\ n.closed = m.closed /\ n.local = m.local /\ n.worker = m.worker /\ n.remote = m.remote
    BY <1>1, <1>3 DEF Memory
  <2>2. ASSUME NEW f \in Entries PROVE SameEntry(m, n, f)
    <3>1. /\ m.obj[f].cancelled => f \in m.cancelled
          /\ f \in m.unadmitted => f \in m.listed
      BY DEF MemoryOK, ObjectsOK, AdmissionOK
    <3> QED BY <1>2, <2>1, <3>1 DEF SameEntry, SameSend, SavesRightly, Known, Saving
  <2> QED BY <1>1, <2>1, <2>2 DEF Mild, SameSending
<1> QED BY <1>2, <1>3

LEMMA EnqueueKeeps ==
    ASSUME PlanOK, StoresOK, MemoryOK(mem), NEW e \in Entries, Enqueue(e)
    PROVE  MemoryOK(mem)' /\ StoresOK' /\ PlanOK' /\ PlanKept
<1>1. /\ offers[e] = "new" /\ offers' = [offers EXCEPT ![e] = "putting"]
      /\ UNCHANGED <<row, stored, archived, sent, acked, told, dropped, plan>>
      /\ mem' = IF e \in Self
                THEN PumpLocal([mem EXCEPT !.listed = @ \cup {e}, !.unadmitted = @ \cup {e}])
                ELSE mem
  BY DEF Enqueue, world
<1>2. MemoryOK(mem')
  <2>1. CASE e \in Self
    <3>1. PICK u \in SUBSET Self : u = mem.unadmitted \cup {e}
      BY <2>1 DEF MemoryOK, Memory
    <3> DEFINE n == [mem EXCEPT !.listed = @ \cup {e}, !.unadmitted = u]
    <3>2. MemoryOK(n)
      <4>1. Fresh(e)
        BY <1>1 DEF Fresh
      <4>2. Mild(mem, n)
        <5> HIDE DEF n
        <5>1. Mild(mem, [mem EXCEPT !.listed = @ \cup {e}, !.unadmitted = u])
          BY <2>1, <3>1, <4>1, ListsMildly
        <5> QED BY <5>1 DEF n
      <4> HIDE DEF n
      <4> QED BY <4>2, MildKeeps
    <3>3. mem' = PumpLocal(n)
      BY <1>1, <2>1, <3>1
    <3> HIDE DEF n
    <3> QED BY <3>2, <3>3, PumpsMildly, MildKeeps
  <2> QED BY <1>1, <2>1
<1>3. /\ offers' \in [Entries -> {"new", "putting", "accepted", "refused", "lost"}]
      /\ \A f \in Entries : Fresh(f)' => Fresh(f)
  BY <1>1 DEF StoresOK, Fresh
<1>4. Later
  BY <1>1, <1>3 DEF Later, PlanKept
<1>5. MemoryOK(mem)'
  <2>1. PICK n : n = mem'
    OBVIOUS
  <2>2. MemoryOK(n)'
    BY <1>1, <1>2, <1>4, <2>1, MemoryLater
  <2> QED BY <2>1, <2>2
<1>6. StoresOK'
  BY <1>1, <1>3, StoresStay
<1> QED BY <1>1, <1>5, <1>6 DEF PlanOK, PlanKept

(* What enqueue does with its answer, to be read in the next state. *)
Answers ==
    \A m : \A e \in Entries : MemoryOK(m) /\ ~Fresh(e) =>
        /\ MemoryOK(Discard(m, e))
        /\ row[e] # NoRow => MemoryOK(Admit(m, e))
        /\ e \in m.cancelled /\ m.obj[e].packet = NoPacket =>
               MemoryOK([Discard(m, e) EXCEPT !.removing = @ \cup {e}])
LEMMA AlwaysAnswers == Answers
<1> SUFFICES ASSUME NEW m, NEW e \in Entries, MemoryOK(m), ~Fresh(e)
             PROVE  /\ MemoryOK(Discard(m, e))
                    /\ row[e] # NoRow => MemoryOK(Admit(m, e))
                    /\ e \in m.cancelled /\ m.obj[e].packet = NoPacket =>
                           MemoryOK([Discard(m, e) EXCEPT !.removing = @ \cup {e}])
  BY DEF Answers
<1>0. m \in Memory /\ m.obj \in [Entries -> Entry] /\ m.obj[e] \in Entry
  BY Parts DEF MemoryOK
<1>1. MemoryOK(Discard(m, e))
  BY DiscardsMildly, MildKeeps
<1>2. ASSUME row[e] # NoRow PROVE MemoryOK(Admit(m, e))
  <2>1. PICK n : n = [m EXCEPT !.listed = @ \cup {e}, !.unadmitted = @ \ {e}]
    OBVIOUS
  <2>2. MemoryOK(n) /\ n.obj = m.obj /\ n.cancelled = m.cancelled /\ e \notin n.unadmitted
    BY <1>2, <2>1, ListedKeeps
  <2>3. PICK b \in BOOLEAN : b <=> e \in Self /\ m.obj[e].localFailed
    <3>1. (e \in Self /\ m.obj[e].localFailed) \in BOOLEAN
      BY <1>0 DEF Entry
    <3> QED BY <3>1
  <2>4. PICK x : x = IF b THEN [m.obj[e] EXCEPT !.status = "error", !.retryable = m.obj[e].localRetryable]
                     ELSE m.obj[e]
    OBVIOUS
  <2>5. x \in Entry /\ MayBecome(n, e, x)
    <3>1. MayBecome(n, e, n.obj[e])
      BY <2>2, SameObject
    <3>2. CASE b
      <4>1. /\ x \in Entry /\ SameSend(x, m.obj[e]) /\ x.cancelled = m.obj[e].cancelled /\ x.status = "error"
        BY <1>0, <2>4, <3>2 DEF Entry, Statuses, SameSend
      <4> QED BY <2>2, <2>3, <3>1, <3>2, <4>1 DEF MayBecome, SavesRightly
    <3>3. CASE ~b
      BY <1>0, <2>2, <2>4, <3>1, <3>3
    <3> QED BY <3>2, <3>3
  <2>6. Admit(m, e) = Pump([m EXCEPT !.listed = @ \cup {e}, !.unadmitted = @ \ {e}, !.obj[e] = x])
    <3>1. b = (e \in Self /\ m.obj[e].localFailed)
      BY <1>0, <2>3 DEF Entry
    <3> QED BY <2>4, <3>1, Zenon DEF Admit
  <2>7. [m EXCEPT !.listed = @ \cup {e}, !.unadmitted = @ \ {e}, !.obj[e] = x] = [n EXCEPT !.obj[e] = x]
    BY <1>0, <2>1 DEF Memory
  <2>8. MemoryOK([n EXCEPT !.obj[e] = x])
    BY <2>2, <2>5, EntryMoves, MildKeeps
  <2> QED BY <2>6, <2>7, <2>8, PumpMildly, MildKeeps
<1>3. ASSUME e \in m.cancelled, m.obj[e].packet = NoPacket
      PROVE  MemoryOK([Discard(m, e) EXCEPT !.removing = @ \cup {e}])
  <2>1. PICK n : n = Discard(m, e)
    OBVIOUS
  <2>2. n.cancelled = m.cancelled /\ n.obj = m.obj /\ MemoryOK(n)
    BY <1>0, <1>1, <2>1 DEF Discard, Memory
  <2>3. MemoryOK([n EXCEPT !.removing = @ \cup {e}])
    BY <1>3, <2>2, RemovesKeeps
  <2> QED BY <2>1, <2>3
<1> QED BY <1>1, <1>2, <1>3

LEMMA PutCommitsKeeps ==
    ASSUME PlanOK, StoresOK, MemoryOK(mem), NEW e \in Entries, PutCommits(e)
    PROVE  MemoryOK(mem)' /\ StoresOK' /\ PlanOK' /\ PlanKept
<1>1. /\ offers[e] = "putting" /\ row' = [row EXCEPT ![e] = FreshEntry]
      /\ UNCHANGED <<stored, archived, sent, acked, dropped, plan>>
      /\ mem.obj[e].packet = NoPacket
  BY DEF PutCommits, MemoryOK, ObjectsOK
<1>2. PICK m : m = mem
  OBVIOUS
<1>3. /\ \/ e \in m.cancelled /\ mem' = [Discard(m, e) EXCEPT !.removing = @ \cup {e}]
         \/ mem' = Discard(m, e)
         \/ mem' = Admit(m, e)
      /\ told' \in {told, told \cup {<<e, "local">>}}
      /\ \E answer \in {"accepted", "refused"} : offers' = [offers EXCEPT ![e] = answer]
  BY <1>2, Zenon DEF PutCommits
<1>4. MemoryOK(m)' /\ StoresOK' /\ row'[e] # NoRow /\ ~Fresh(e)'
  <2>1. PICK answer \in {"accepted", "refused"} : offers' = [offers EXCEPT ![e] = answer]
    BY <1>3
  <2> QED BY <1>1, <1>2, <1>3, <2>1, RowBorn
<1>5. Answers'
  BY AlwaysAnswers, PTL
<1>6. PICK n : n = mem'
  OBVIOUS
<1>7. /\ MemoryOK(Discard(m, e))' /\ MemoryOK(Admit(m, e))'
      /\ e \in m.cancelled => MemoryOK([Discard(m, e) EXCEPT !.removing = @ \cup {e}])'
  BY <1>1, <1>2, <1>4, <1>5 DEF Answers
<1>8. MemoryOK(n)'
  <2>1. CASE e \in m.cancelled /\ n = [Discard(m, e) EXCEPT !.removing = @ \cup {e}]
    <3>1. n = [Discard(m, e)' EXCEPT !.removing = @ \cup {e}]
      BY <2>1 DEF Discard
    <3> QED BY <1>7, <2>1, <3>1
  <2>2. CASE n = Discard(m, e)
    <3>1. n = Discard(m, e)'
      BY <2>2 DEF Discard
    <3> QED BY <1>7, <3>1
  <2>3. CASE n = Admit(m, e)
    <3>1. n = Admit(m, e)'
      BY <2>3 DEF Admit, Pump, PumpRemote, PumpLocal, Running
    <3> QED BY <1>7, <3>1
  <2> QED BY <1>3, <1>6, <2>1, <2>2, <2>3
<1> QED BY <1>1, <1>4, <1>6, <1>8 DEF PlanOK, PlanKept

LEMMA PutFailsKeeps ==
    ASSUME PlanOK, StoresOK, MemoryOK(mem), NEW e \in Entries, PutFails(e)
    PROVE  MemoryOK(mem)' /\ StoresOK' /\ PlanOK' /\ PlanKept
<1>1. /\ offers' = [offers EXCEPT ![e] = "refused"] /\ mem' = Discard(mem, e) /\ Fault("put")
      /\ UNCHANGED <<row, stored, archived, sent, acked, told, dropped>>
  BY DEF PutFails, world
<1>2. PlanOK' /\ PlanKept
  BY <1>1, FaultsKeep
<1>3. /\ offers' \in [Entries -> {"new", "putting", "accepted", "refused", "lost"}]
      /\ ~Fresh(e)' /\ \A f \in Entries : Fresh(f)' => Fresh(f)
  BY <1>1 DEF StoresOK, Fresh
<1>4. PICK m, n : m = mem /\ n = mem'
  OBVIOUS
<1>5. MemoryOK(m)'
  <2>1. Later
    BY <1>1, <1>2, <1>3 DEF Later
  <2> QED BY <1>1, <1>4, <2>1, MemoryLater
<1>6. Answers'
  BY AlwaysAnswers, PTL
<1>7. MemoryOK(Discard(m, e))'
  BY <1>3, <1>5, <1>6 DEF Answers
<1>8. n = Discard(m, e)'
  BY <1>1, <1>4 DEF Discard
<1>9. MemoryOK(n)'
  BY <1>7, <1>8
<1> QED BY <1>1, <1>2, <1>3, <1>4, <1>9, StoresStay

--------------------------------------------------------------------------------
(* cancel and retry. *)
LEMMA ListsOfWaiting ==
    ASSUME NEW m, MemoryOK(m), NEW X \in SUBSET Entries, NEW Y \in SUBSET Entries, NEW b \in BOOLEAN
    PROVE  /\ Mild(m, [m EXCEPT !.retries = X, !.parked = Y, !.sendTimer = b])
           /\ Mild(m, [m EXCEPT !.unarchived = X])
<1>1. m \in Memory
  BY DEF MemoryOK
<1>2. ASSUME NEW n, n \in {[m EXCEPT !.retries = X, !.parked = Y, !.sendTimer = b], [m EXCEPT !.unarchived = X]}
      PROVE  Mild(m, n)
  <2>1. /\ n \in Memory /\ Untouched(m, n) /\ n.closed = m.closed
        /\ n.remote = m.remote /\ n.local = m.local /\ n.worker = m.worker
    <3>1. CASE n = [m EXCEPT !.retries = X, !.parked = Y, !.sendTimer = b]
      BY <1>1, <3>1 DEF Memory, Untouched
    <3>2. CASE n = [m EXCEPT !.unarchived = X]
      BY <1>1, <3>2 DEF Memory, Untouched
    <3> QED BY <1>2, <3>1, <3>2
  <2> QED BY <2>1, OtherwiseStays
<1> QED BY <1>2

LEMMA CancelKeeps ==
    ASSUME PlanOK, StoresOK, MemoryOK(mem), NEW e \in Entries, Cancel(e)
    PROVE  MemoryOK(mem)' /\ StoresOK' /\ PlanOK' /\ PlanKept
<1> DEFINE marked == [mem EXCEPT !.cancelled = @ \cup {e}]
           a == Abort(marked, {e})
           X == a.retries \ {e}
           Y == a.parked \ {e}
           b == [a EXCEPT !.retries = X, !.parked = Y, !.sendTimer = a.sendTimer]
           stopped == [Abort(mem, {e}) EXCEPT !.cancelled = @ \cup {e}, !.retries = @ \ {e}, !.parked = @ \ {e}]
<1>1. /\ Fault("cancel") /\ UNCHANGED <<row, offers, stored, archived, sent, acked, told, dropped>>
      /\ mem' = IF mem.obj[e].packet = NoPacket
                THEN [stopped EXCEPT !.listed = @ \ {e}, !.removing = @ \cup {e}]
                ELSE WriteEntry([stopped EXCEPT !.obj[e].cancelled = TRUE], e, "cancel")
  BY Zenon DEF Cancel, world
<1>2. PlanOK' /\ PlanKept
  BY <1>1, FaultsKeep
<1>3. mem \in Memory
  BY DEF MemoryOK
<1>0. ~Fresh(e) /\ e \in mem.listed /\ e \notin mem.unadmitted
  BY DEF Cancel, Admitted, MemoryOK, AdmissionOK
<1>4. Mild(mem, a) /\ MemoryOK(a) /\ e \in a.cancelled /\ a.obj = mem.obj /\ a.unadmitted = mem.unadmitted
  <2>1. Mild(mem, a) /\ e \in a.cancelled /\ a.obj = mem.obj
    BY CancelsMildly
  <2>2. a.unadmitted = mem.unadmitted
    BY <1>3 DEF Abort, Memory
  <2> HIDE DEF a
  <2> QED BY <2>1, <2>2, MildKeeps
<1>5. stopped = b
  <2>1. marked.remote = mem.remote /\ marked.retries = mem.retries /\ marked.parked = mem.parked
    BY <1>3 DEF Memory
  <2>2. [Abort(mem, {e}) EXCEPT !.cancelled = @ \cup {e}] = a
    <3>1. CASE mem.remote.pc \notin {"idle", "pass"} /\ mem.remote.entry \in {e}
      <4>1. Abort(mem, {e}) = [mem EXCEPT !.remote.aborted = TRUE] /\ a = [marked EXCEPT !.remote.aborted = TRUE]
        BY <2>1, <3>1 DEF Abort
      <4> DEFINE x == [mem.remote EXCEPT !.aborted = TRUE]
      <4>2. Abort(mem, {e}) = [mem EXCEPT !.remote = x] /\ a = [marked EXCEPT !.remote = x]
        BY <2>1, <4>1
      <4> HIDE DEF x
      <4> QED BY <1>3, <4>2 DEF Memory
    <3>2. CASE ~(mem.remote.pc \notin {"idle", "pass"} /\ mem.remote.entry \in {e})
      BY <2>1, <3>2 DEF Abort
    <3> QED BY <3>1, <3>2
  <2>3. a \in Memory
    BY <1>4 DEF MemoryOK
  <2>4. stopped = [a EXCEPT !.retries = @ \ {e}, !.parked = @ \ {e}]
    <3>1. ASSUME NEW n, n \in Memory
          PROVE  [n EXCEPT !.cancelled = @ \cup {e}, !.retries = @ \ {e}, !.parked = @ \ {e}]
                 = [[n EXCEPT !.cancelled = @ \cup {e}] EXCEPT !.retries = @ \ {e}, !.parked = @ \ {e}]
      BY <3>1 DEF Memory
    <3>2. Abort(mem, {e}) \in Memory
      <4>1. PICK x : x = [mem.remote EXCEPT !.aborted = TRUE]
        OBVIOUS
      <4>2. x \in RemoteLoop
        BY <1>3, <4>1, Parts DEF RemoteLoop
      <4>3. [mem EXCEPT !.remote = x] \in Memory
        BY <1>3, <4>2 DEF Memory
      <4>4. Abort(mem, {e}) \in {mem, [mem EXCEPT !.remote = x]}
        BY <1>3, <4>1 DEF Abort, Memory
      <4> QED BY <1>3, <4>3, <4>4
    <3> HIDE DEF a
    <3> QED BY <2>2, <3>1, <3>2
  <2> HIDE DEF a
  <2>5. b = [a EXCEPT !.retries = @ \ {e}, !.parked = @ \ {e}]
    BY <2>3 DEF Memory
  <2> QED BY <2>4, <2>5
<1>6. Mild(mem, b) /\ MemoryOK(b) /\ e \in b.cancelled /\ b.obj = mem.obj /\ b.unadmitted = mem.unadmitted
  <2>1. a \in Memory
    BY <1>4 DEF MemoryOK
  <2> HIDE DEF a
  <2>2. X \in SUBSET Entries /\ Y \in SUBSET Entries /\ a.sendTimer \in BOOLEAN
    BY <2>1 DEF Memory
  <2> HIDE DEF X, Y
  <2>3. Mild(a, b)
    BY <1>4, <2>2, ListsOfWaiting
  <2>4. b.cancelled = a.cancelled /\ b.obj = a.obj /\ b.unadmitted = a.unadmitted
    BY <2>1 DEF Memory
  <2> HIDE DEF b
  <2> QED BY <1>4, <2>3, <2>4, MildKeeps, MildAgain
<1> HIDE DEF a, b, stopped
<1>7. MemoryOK(mem')
  <2>1. CASE mem.obj[e].packet = NoPacket
    <3> DEFINE c == [b EXCEPT !.listed = @ \ {e}]
    <3>1. Mild(b, c)
      <4>1. {e} \cap b.unadmitted = {}
        BY <1>0, <1>6
      <4> QED BY <1>6, <4>1, DelistsMildly
    <3>2. b \in Memory
      BY <1>6 DEF MemoryOK
    <3>3. [b EXCEPT !.listed = @ \ {e}, !.removing = @ \cup {e}] = [c EXCEPT !.removing = @ \cup {e}]
      BY <3>2 DEF Memory
    <3>4. c.cancelled = b.cancelled /\ c.obj = b.obj
      BY <3>2 DEF Memory
    <3> HIDE DEF c
    <3>5. MemoryOK(c)
      BY <1>6, <3>1, MildKeeps
    <3>6. mem' = [c EXCEPT !.removing = @ \cup {e}]
      BY <1>1, <1>5, <2>1, <3>3
    <3> QED BY <1>0, <1>6, <2>1, <3>4, <3>5, <3>6, RemovesKeeps
  <2>2. CASE mem.obj[e].packet # NoPacket
    <3> DEFINE c == [b EXCEPT !.obj[e].cancelled = TRUE]
    <3>1. MemoryOK(c)
      BY <1>0, <1>6, CancelledSaveEndsMildly, MildKeeps DEF Known
    <3>2. mem' = WriteEntry(c, e, "cancel")
      BY <1>1, <1>5, <2>2
    <3>3. c.obj[e].cancelled
      BY <1>6, Records DEF Memory, Entry
    <3> HIDE DEF c
    <3>4. "cancel" \in Writers \ Loops
      BY DEF Writers, Loops
    <3> QED BY <1>0, <3>1, <3>2, <3>3, <3>4, WritesMildly, MildKeeps
  <2> QED BY <2>1, <2>2
<1> QED BY <1>1, <1>2, <1>7, Unmoved

LEMMA RetryKeeps ==
    ASSUME PlanOK, StoresOK, MemoryOK(mem), NEW e \in Entries, Retry(e)
    PROVE  MemoryOK(mem)' /\ StoresOK' /\ PlanOK' /\ PlanKept
<1> DEFINE again == JournalRetry(mem)
           X == IF mem.obj[e].localFailed THEN again.retries \cup {e} ELSE again.retries
           Retried(Y) == [again EXCEPT !.retries = X, !.obj[e].failed = FALSE, !.sendTimer = FALSE, !.parked = Y]
<1>1. mem \in Memory /\ MemoryOK(again) /\ again \in Memory
  BY JournalRetriesMildly, MildKeeps DEF MemoryOK
<1>2. /\ Fault("retry") /\ UNCHANGED <<row, offers, stored, archived, sent, acked, told, dropped>>
      /\ mem' \in {again, PumpLocal(Retried(mem.parked)), Pump(Retried(again.parked \ {e}))}
  <2>1. Fault("retry") /\ UNCHANGED <<row, offers, stored, archived, sent, acked, told, dropped>>
    BY DEF Retry, world
  <2> DEFINE retried == [again EXCEPT
                 !.retries = IF mem.obj[e].localFailed THEN @ \cup {e} ELSE @,
                 !.obj[e].failed = FALSE, !.sendTimer = FALSE, !.parked = @ \ {e}]
  <2>2. mem' \in {again, PumpLocal([retried EXCEPT !.parked = mem.parked]), Pump(retried)}
    BY Zenon DEF Retry
  <2> HIDE DEF again
  <2>3. retried = Retried(again.parked \ {e})
    BY <1>1 DEF Memory
  <2>4. [retried EXCEPT !.parked = mem.parked] = Retried(mem.parked)
    <3> HIDE DEF X
    <3> QED BY <1>1, <2>3 DEF Memory
  <2> QED BY <2>1, <2>2, <2>3, <2>4
<1>3. PlanOK' /\ PlanKept
  BY <1>2, FaultsKeep
<1> HIDE DEF again
<1>4. X \in SUBSET Entries /\ mem.parked \in SUBSET Entries /\ again.parked \ {e} \in SUBSET Entries
  BY <1>1 DEF Memory
<1> HIDE DEF X
<1>5. ASSUME NEW Y \in SUBSET Entries PROVE MemoryOK(Retried(Y))
  <2> DEFINE n == [again EXCEPT !.retries = X, !.parked = Y, !.sendTimer = FALSE]
             x == [n.obj[e] EXCEPT !.failed = FALSE]
  <2>1. MemoryOK(n)
    BY <1>1, <1>4, <1>5, ListsOfWaiting, MildKeeps
  <2>2. Retried(Y) = [n EXCEPT !.obj[e] = x]
    BY <1>1 DEF Memory
  <2> HIDE DEF n
  <2>3. n.obj[e] \in Entry /\ (n.obj[e].cancelled => e \in n.cancelled)
    BY <2>1, Records
  <2>4. x \in Entry /\ MayBecome(n, e, x)
    BY <2>3 DEF Entry, MayBecome, SameSend, SavesRightly
  <2> HIDE DEF x
  <2> QED BY <2>1, <2>2, <2>3, <2>4, EntryMoves, MildKeeps
<1>6. MemoryOK(mem')
  <2> HIDE DEF Retried
  <2> QED BY <1>1, <1>2, <1>4, <1>5, PumpsMildly, PumpMildly, MildKeeps
<1> QED BY <1>2, <1>3, <1>6, Unmoved

LEMMA ContinuationKeeps ==
    ASSUME PlanOK, StoresOK, MemoryOK(mem), NEW e \in Entries, CancelWritten(e) \/ AckWritten(e)
    PROVE  MemoryOK(mem)' /\ StoresOK' /\ PlanOK' /\ PlanKept
<1>1. UNCHANGED <<row, offers, stored, archived, sent, acked, told, plan>>
  BY DEF CancelWritten, AckWritten, world
<1>2. ASSUME NEW who PROVE MemoryOK(Taken(who, e))
  <2> DEFINE r == {<<who, e, TRUE>>, <<who, e, FALSE>>}
  <2>1. Taken(who, e) = [mem EXCEPT !.resolved = @ \ r]
    BY DEF Taken
  <2> HIDE DEF r
  <2> QED BY <2>1, TakesMildly, MildKeeps
<1>3. MemoryOK(mem')
  <2>1. CASE CancelWritten(e)
    <3>1. mem' \in {Wake(Taken("cancel", e)), Taken("cancel", e)}
      BY <2>1 DEF CancelWritten
    <3> QED BY <1>2, <3>1, PumpsMildly, MildKeeps
  <2>2. CASE AckWritten(e)
    <3> DEFINE m == Taken("ack", e)
               U == m.unarchived \cup {e}
    <3>1. mem' \in {Wake(m), Wake(RetryLater([m EXCEPT !.unarchived = U]))}
      BY <2>2 DEF AckWritten
    <3>2. MemoryOK(m)
      BY <1>2
    <3> HIDE DEF m
    <3>3. U \in SUBSET Entries
      BY <3>2 DEF MemoryOK, Memory
    <3> HIDE DEF U
    <3>4. MemoryOK([m EXCEPT !.unarchived = U])
      BY <3>2, <3>3, ListsOfWaiting, MildKeeps
    <3> QED BY <3>1, <3>2, <3>4, PumpsMildly, TimersMildly, MildKeeps
  <2> QED BY <2>1, <2>2
<1>4. MemoryOK(mem)' /\ PlanOK' /\ PlanKept
  BY <1>1, <1>3, WorldStays DEF PlanOK, PlanKept
<1>5. CASE dropped' = dropped \cup {e} /\ <<"cancel", e, TRUE>> \in mem.resolved
  <2>1. ~Fresh(e) /\ (row[e] = NoRow \/ row[e].cancelled)
    BY <1>5 DEF MemoryOK, CancelOK, AdmissionOK, Waits
  <2>2. dropped' \subseteq Entries /\ \A f \in dropped' : ~Fresh(f)' /\ (row[f] = NoRow \/ row[f].cancelled)
    BY <1>1, <1>5, <2>1 DEF StoresOK, Fresh
  <2>3. Later /\ OnlyALockSurfaces'
    BY <1>1 DEF Later, PlanKept, Fresh, StoresOK, OnlyALockSurfaces, PauseNeverSurfaces
  <2>4. stored' \subseteq Entries /\ offers' \in [Entries -> {"new", "putting", "accepted", "refused", "lost"}]
    BY <1>1 DEF StoresOK
  <2> QED BY <1>1, <1>4, <2>2, <2>3, <2>4, StoresGrow
<1>6. CASE UNCHANGED dropped
  BY <1>1, <1>3, <1>4, <1>6, Unmoved
<1> QED BY <1>5, <1>6 DEF CancelWritten, AckWritten, world, Resolved

--------------------------------------------------------------------------------
(* Timers, pauses, locks, crashes and restarts. *)
LEMMA SendTimerKeeps ==
    ASSUME StoresOK, MemoryOK(mem), SendTimerFires PROVE MemoryOK(mem)' /\ StoresOK'
<1> DEFINE late == PendingRetryable(mem)
           saves == {e \in late : LocalRetryable(mem, e)}
           sends == {e \in late \ mem.parked : SendRetryable(mem.obj[e])}
           cleans == {e \in sends : mem.obj[e].status = "saved"}
           X == mem.retries \cup saves
           objs == [e \in Entries |-> IF e \in sends THEN [mem.obj[e] EXCEPT !.failed = FALSE] ELSE mem.obj[e]]
           n == [mem EXCEPT !.sendTimer = FALSE, !.retries = X, !.obj = objs]
<1>1. UNCHANGED <<row, offers, stored, archived, sent, acked, told, dropped, plan>> /\ mem \in Memory
  BY DEF SendTimerFires, world, MemoryOK
<1>2. mem' = CleanupEntries(n, cleans) \/ mem' = Pump(CleanupEntries(n, cleans))
  BY Zenon DEF SendTimerFires
<1>3. X \in SUBSET Entries /\ cleans \in SUBSET Entries /\ \A e \in cleans : ~Fresh(e)
  <2>1. late \subseteq Entries /\ mem.retries \subseteq Entries /\ late \subseteq Admitted(mem)
    BY <1>1 DEF PendingRetryable, Admitted, Memory
  <2>2. \A e \in Entries : e \in Admitted(mem) => ~Fresh(e)
    BY DEF Admitted, MemoryOK, AdmissionOK
  <2> HIDE DEF late
  <2> QED BY <2>1, <2>2
<1>4. /\ objs \in [Entries -> Entry]
      /\ \A e \in Entries : /\ SameSend(objs[e], mem.obj[e]) /\ objs[e].status = mem.obj[e].status
                            /\ objs[e].cancelled = mem.obj[e].cancelled
  <2> HIDE DEF sends
  <2> QED BY <1>1, FreedObjects
<1> HIDE DEF X, objs, cleans
<1>5. /\ n \in Memory /\ n.obj = objs /\ RestUntouched(mem, n)
      /\ n.cancelled = mem.cancelled /\ n.cleaning = mem.cleaning /\ n.closed = mem.closed
      /\ n.remote = mem.remote /\ n.local = mem.local /\ n.worker = mem.worker
  BY <1>1, <1>3, <1>4 DEF Memory, RestUntouched
<1> HIDE DEF n
<1>6. MemoryOK(n)
  BY <1>4, <1>5, ObjectsMove, MildKeeps
<1>7. MemoryOK(mem')
  <2>1. \A e \in cleans : Known(n, e)
    BY <1>3 DEF Known
  <2>2. MemoryOK(CleanupEntries(n, cleans))
    BY <1>3, <1>6, <2>1, CleansMildly, MildKeeps
  <2> QED BY <1>2, <2>2, PumpMildly, MildKeeps
<1> QED BY <1>1, <1>7, Unmoved

(* Whether there is a session to publish with, and whether it may. *)
LEMMA SwitchesMildly ==
    ASSUME NEW m, MemoryOK(m), NEW n, n \in Memory, Untouched(m, n), n.closed = m.closed,
           n.remote = m.remote, n.local = m.local, n.worker = m.worker
    PROVE  MemoryOK(n) /\ MemoryOK(StateChanged(n))
           /\ \A reason \in {"network", "signer", "closed"} : MemoryOK(Paused(n, reason))
<1>1. MemoryOK(n)
  BY OtherwiseStays, MildKeeps
<1> QED BY <1>1, StateChangesMildly, PausesMildly, MildKeeps

LEMMA AvailabilityKeeps ==
    ASSUME PlanOK, StoresOK, MemoryOK(mem), Pause \/ Release \/ Lock \/ Configured \/ JournalTimerFires
    PROVE  MemoryOK(mem)' /\ StoresOK' /\ PlanOK' /\ PlanKept
<1>1. mem \in Memory /\ Untouched(mem, mem)
  BY DEF MemoryOK, Untouched
<1>2. UNCHANGED <<row, offers, stored, archived, sent, acked, told, dropped>>
  BY DEF Pause, Release, Lock, Configured, JournalTimerFires, world
<1>3. PlanOK' /\ PlanKept
  <2>1. CASE Pause
    BY <2>1, FaultsKeep DEF Pause
  <2>2. CASE Lock
    BY <2>2, FaultsKeep DEF Lock
  <2>3. CASE Release \/ Configured \/ JournalTimerFires
    BY <2>3 DEF Release, Configured, JournalTimerFires, PlanOK, PlanKept
  <2> QED BY <2>1, <2>2, <2>3
<1>4. MemoryOK(mem')
  <2>1. CASE Pause
    BY <1>1, <2>1, SwitchesMildly DEF Pause
  <2>2. CASE Release
    <3> DEFINE p == mem.pauses \ {"network"}
               n == [mem EXCEPT !.pauses = p]
    <3>1. p \in SUBSET {"network", "signer", "closed"}
      BY <1>1 DEF Memory
    <3>2. mem' = StateChanged(n)
      BY <2>2 DEF Release
    <3> HIDE DEF p
    <3>3. /\ n \in Memory /\ Untouched(mem, n) /\ n.closed = mem.closed
          /\ n.remote = mem.remote /\ n.local = mem.local /\ n.worker = mem.worker
      BY <1>1, <3>1 DEF Memory, Untouched
    <3> HIDE DEF n
    <3> QED BY <3>2, <3>3, SwitchesMildly
  <2>3. CASE Lock
    <3> DEFINE a == Abort(mem, Entries)
               n == [a EXCEPT !.available = FALSE, !.configuring = FALSE,
                              !.sendTimer = FALSE, !.journaling = FALSE, !.journalTimer = FALSE]
    <3>1. mem' = Paused(n, "signer")
      BY Zenon, <2>3 DEF Lock
    <3>2. MemoryOK(a) /\ a \in Memory
      <4>1. "lock" \in plan.faults
        BY <2>3, FaultsKeep DEF Lock
      <4>2. \A e \in Entries : Ended(mem, e)
        BY <4>1 DEF Ended
      <4> QED BY <4>2, AbortsMildly, MildKeeps DEF MemoryOK
    <3> HIDE DEF a
    <3>3. /\ n \in Memory /\ Untouched(a, n) /\ n.closed = a.closed
          /\ n.remote = a.remote /\ n.local = a.local /\ n.worker = a.worker
      BY <3>2, ZenonT(40) DEF Memory, Untouched
    <3> HIDE DEF n
    <3> QED BY <3>1, <3>2, <3>3, SwitchesMildly
  <2>4. CASE Configured
    <3> DEFINE p == mem.pauses \ {"signer"}
               n == [mem EXCEPT !.configuring = FALSE, !.messenger = TRUE, !.pauses = p]
    <3>1. p \in SUBSET {"network", "signer", "closed"}
      BY <1>1 DEF Memory
    <3>2. mem' = Pump(Wake(StateChanged(n)))
      BY <2>4 DEF Configured
    <3> HIDE DEF p
    <3>3. /\ n \in Memory /\ Untouched(mem, n) /\ n.closed = mem.closed
          /\ n.remote = mem.remote /\ n.local = mem.local /\ n.worker = mem.worker
      BY <1>1, <3>1 DEF Memory, Untouched
    <3> HIDE DEF n
    <3>4. MemoryOK(StateChanged(n))
      BY <3>3, SwitchesMildly
    <3> QED BY <3>2, <3>4, PumpsMildly, PumpMildly, MildKeeps
  <2>5. CASE JournalTimerFires
    BY <2>5, JournalRetriesMildly, MildKeeps DEF JournalTimerFires
  <2> QED BY <2>1, <2>2, <2>3, <2>4, <2>5
<1> QED BY <1>2, <1>3, <1>4, Unmoved

LEMMA UnlockKeeps ==
    ASSUME StoresOK, MemoryOK(mem), Unlock PROVE MemoryOK(mem)' /\ StoresOK'
<1> DEFINE a == [mem EXCEPT !.available = TRUE, !.journaling = TRUE, !.sendTimer = FALSE, !.unarchived = {}]
           m == PumpLocal(Wake(a))
           S == {e \in Entries : e \in m.listed /\ SendRetryable(m.obj[e])}
           X == m.retries \cup {e \in Admitted(m) : m.obj[e].localRetryable}
           objs == [e \in Entries |-> IF e \in S THEN [m.obj[e] EXCEPT !.failed = FALSE] ELSE m.obj[e]]
           n == [m EXCEPT !.retries = X, !.obj = objs, !.configuring = TRUE]
<1>1. UNCHANGED <<row, offers, stored, archived, sent, acked, told, dropped, plan>> /\ mem \in Memory
  BY DEF Unlock, world, MemoryOK
<1>2. MemoryOK(m) /\ m \in Memory
  <2>1. /\ a \in Memory /\ Untouched(mem, a) /\ a.closed = mem.closed
        /\ a.remote = mem.remote /\ a.local = mem.local /\ a.worker = mem.worker
    BY <1>1 DEF Memory, Untouched
  <2> HIDE DEF a
  <2>2. MemoryOK(a)
    BY <2>1, SwitchesMildly
  <2> QED BY <2>2, PumpsMildly, MildKeeps DEF MemoryOK
<1>3. mem' = n
  <2>1. mem' = [m EXCEPT
               !.retries = @ \cup {e \in Admitted(m) : m.obj[e].localRetryable},
               !.obj = [e \in Entries |-> IF e \in m.listed /\ SendRetryable(@[e])
                                          THEN [@[e] EXCEPT !.failed = FALSE] ELSE @[e]],
               !.configuring = TRUE]
    BY DEF Unlock
  <2> HIDE DEF m
  <2>2. objs = [e \in Entries |-> IF e \in m.listed /\ SendRetryable(m.obj[e])
                                  THEN [m.obj[e] EXCEPT !.failed = FALSE] ELSE m.obj[e]]
    OBVIOUS
  <2> HIDE DEF objs
  <2> QED BY <1>2, <2>1, <2>2 DEF Memory
<1> HIDE DEF m
<1>4. X \in SUBSET Entries
  BY <1>2 DEF Memory, Admitted
<1>5. /\ objs \in [Entries -> Entry]
      /\ \A e \in Entries : /\ SameSend(objs[e], m.obj[e]) /\ objs[e].status = m.obj[e].status
                            /\ objs[e].cancelled = m.obj[e].cancelled
  <2> HIDE DEF S
  <2> QED BY <1>2, FreedObjects
<1> HIDE DEF X, objs
<1>6. /\ n \in Memory /\ n.obj = objs /\ RestUntouched(m, n)
      /\ n.cancelled = m.cancelled /\ n.cleaning = m.cleaning /\ n.closed = m.closed
      /\ n.remote = m.remote /\ n.local = m.local /\ n.worker = m.worker
  BY <1>2, <1>4, <1>5 DEF Memory, RestUntouched
<1> HIDE DEF n
<1>7. MemoryOK(n)
  BY <1>2, <1>5, <1>6, ObjectsMove, MildKeeps
<1> QED BY <1>1, <1>3, <1>7, Unmoved

(* A session that closes ends the send in progress, whatever it was at. *)
LEMMA CloseKeeps == ASSUME PlanOK, StoresOK, MemoryOK(mem), Close PROVE MemoryOK(mem)' /\ StoresOK'
<1> DEFINE c == [mem EXCEPT !.closed = TRUE]
           a == Abort(c, Entries)
           x == [mem.remote EXCEPT !.aborted = TRUE]
           n == [a EXCEPT !.available = FALSE, !.configuring = FALSE, !.sendTimer = FALSE, !.retries = {}, !.parked = {}]
<1>1. /\ Fault("close") /\ UNCHANGED <<row, offers, stored, archived, sent, acked, told, dropped>>
      /\ mem' = Paused([Abort(mem, Entries) EXCEPT !.closed = TRUE, !.available = FALSE, !.configuring = FALSE,
                                                   !.sendTimer = FALSE, !.retries = {}, !.parked = {}], "closed")
  BY Zenon DEF Close, world
<1>2. PlanKept /\ "close" \in plan.faults /\ mem \in Memory
  BY <1>1, FaultsKeep DEF MemoryOK
<1>3. MemoryOK(c)
  <2>1. /\ c \in Memory /\ c.unadmitted = mem.unadmitted /\ c.removing = mem.removing
        /\ c.obj = mem.obj /\ c.queued = mem.queued /\ c.flying = mem.flying /\ c.cleaning = mem.cleaning
        /\ c.resolved = mem.resolved /\ c.durable = mem.durable /\ c.listed = mem.listed /\ c.cancelled = mem.cancelled
        /\ c.closed /\ c.local = mem.local /\ c.worker = mem.worker /\ c.remote = mem.remote
    BY <1>2 DEF Memory
  <2> HIDE DEF c
  <2>2. ASSUME NEW f \in Entries
        PROVE  /\ Sending(c, f) <=> Sending(mem, f)
               /\ Archiving(c, f) <=> Archiving(mem, f)
               /\ Saving(c, f) <=> Saving(mem, f)
               /\ InRow(c, f) <=> InRow(mem, f)
               /\ \A who \in Loops : /\ Waits(c, who, f) <=> Waits(mem, who, f)
                                     /\ OnePlace(c, who, f) <=> OnePlace(mem, who, f)
                                     /\ Checkpoints(c, who, f) <=> Checkpoints(mem, who, f)
               /\ Waits(c, "cancel", f) <=> Waits(mem, "cancel", f)
    BY <2>1 DEF Sending, Archiving, Saving, InRow, Waits, OnePlace, Checkpoints, SamePacket
  <2>3. ObjectsOK(c)
    BY <2>1, <2>2, ZenonT(40) DEF MemoryOK, ObjectsOK
  <2>4. RemoteOK(c) /\ WorkerOK(c) /\ WaitsOK(c)
    BY <2>1, <2>2, ZenonT(40) DEF MemoryOK, RemoteOK, WorkerOK, WaitsOK, Loops
  <2>5. MarksOK(c) /\ SeedsHeld(c)
    BY <2>1 DEF MemoryOK, MarksOK, ReallyArchived, SeedsHeld, Carries
  <2>6. HonestOK(c) /\ CancelOK(c) /\ AdmissionOK(c)
    BY <2>1, <2>2 DEF MemoryOK, HonestOK, CancelOK, AdmissionOK
  <2>7. PauseOK(c)
    BY <2>1, <2>2 DEF MemoryOK, PauseOK, Ended
  <2> QED BY <1>2, <2>1, <2>3, <2>4, <2>5, <2>6, <2>7 DEF MemoryOK
<1>4. MemoryOK(a) /\ a \in Memory
  <2>1. c.closed
    BY <1>2 DEF Memory
  <2> HIDE DEF c
  <2>2. \A e \in Entries : Ended(c, e)
    BY <2>1 DEF Ended
  <2> QED BY <1>3, <2>2, AbortsMildly, MildKeeps DEF MemoryOK
<1>5. [Abort(mem, Entries) EXCEPT !.closed = TRUE, !.available = FALSE, !.configuring = FALSE,
                                  !.sendTimer = FALSE, !.retries = {}, !.parked = {}] = n
  <2>1. c.remote = mem.remote
    BY <1>2 DEF Memory
  <2>2. CASE mem.remote.pc \notin {"idle", "pass"} /\ mem.remote.entry \in Entries
    <3>1. Abort(mem, Entries) = [mem EXCEPT !.remote = x] /\ a = [c EXCEPT !.remote = x]
      <4>1. Abort(mem, Entries) = [mem EXCEPT !.remote.aborted = TRUE] /\ a = [c EXCEPT !.remote.aborted = TRUE]
        BY <2>1, <2>2 DEF Abort
      <4>2. [c EXCEPT !.remote.aborted = TRUE] = [c EXCEPT !.remote = x]
        BY <2>1
      <4> HIDE DEF c, a
      <4> QED BY <4>1, <4>2
    <3> HIDE DEF x, a
    <3> QED BY <1>2, <3>1 DEF Memory
  <2>3. CASE ~(mem.remote.pc \notin {"idle", "pass"} /\ mem.remote.entry \in Entries)
    <3>1. Abort(mem, Entries) = mem /\ a = c
      BY <2>1, <2>3 DEF Abort
    <3> HIDE DEF a
    <3> QED BY <1>2, <3>1 DEF Memory
  <2> QED BY <2>2, <2>3
<1> HIDE DEF a
<1>6. /\ n \in Memory /\ Untouched(a, n) /\ n.closed = a.closed
      /\ n.remote = a.remote /\ n.local = a.local /\ n.worker = a.worker
  BY <1>4, ZenonT(40) DEF Memory, Untouched
<1>7. mem' = Paused(n, "closed")
  BY <1>1, <1>5
<1> HIDE DEF n
<1>8. MemoryOK(mem')
  BY <1>4, <1>6, <1>7, SwitchesMildly
<1> QED BY <1>1, <1>2, <1>8, Unmoved

LEMMA StopKeeps == ASSUME StoresOK, MemoryOK(mem), StopJournal PROVE MemoryOK(mem)' /\ StoresOK'
<1>1. mem \in Memory /\ mem' = [mem EXCEPT !.stopped = TRUE, !.journalTimer = FALSE]
      /\ UNCHANGED <<row, offers, stored, archived, sent, acked, told, dropped, plan>>
  BY DEF StopJournal, MemoryOK, world
<1>2. /\ mem' \in Memory /\ Untouched(mem, mem') /\ mem'.closed = mem.closed
      /\ mem'.remote = mem.remote /\ mem'.local = mem.local /\ mem'.worker = mem.worker
  BY <1>1 DEF Memory, Untouched
<1> QED BY <1>1, <1>2, SwitchesMildly, Unmoved

(* The memory a session starts with holds what its rows hold. *)
LEMMA NewMemoryOK == ASSUME StoresOK PROVE MemoryOK(NewMemory)
<1> DEFINE n == NewMemory
<1>1. row \in [Entries -> Entry \cup {NoRow}] /\ FreshEntry \in Entry
  BY DEF StoresOK, FreshEntry, Entry, Statuses
<1>2. ASSUME NEW e \in Entries
      PROVE  /\ n.obj[e] \in Entry
             /\ row[e] = NoRow => n.obj[e] = FreshEntry
             /\ row[e] # NoRow => /\ SameSend(n.obj[e], row[e]) /\ n.obj[e].cancelled = row[e].cancelled
                                  /\ n.obj[e].delivered => n.obj[e].status = "saved"
                                  /\ n.obj[e].status = row[e].status \/ n.obj[e].delivered
  <2>1. n.obj[e] = IF row[e] = NoRow THEN FreshEntry
                   ELSE [row[e] EXCEPT !.status = IF row[e].delivered THEN "saved" ELSE @]
    BY DEF NewMemory
  <2>2. row[e] # NoRow => row[e] \in Entry
    BY <1>1
  <2> HIDE DEF n
  <2>3. ASSUME row[e] # NoRow, NEW st \in Statuses, NEW x, x = [row[e] EXCEPT !.status = st]
        PROVE  /\ x \in Entry /\ SameSend(x, row[e]) /\ x.delivered = row[e].delivered
               /\ x.cancelled = row[e].cancelled /\ x.status = st
    BY <2>2, <2>3 DEF Entry, SameSend
  <2>4. ASSUME row[e] # NoRow
        PROVE  \E st \in Statuses : /\ n.obj[e] = [row[e] EXCEPT !.status = st] /\ (row[e].delivered => st = "saved")
                                    /\ st = row[e].status \/ row[e].delivered
    <3>1. row[e].status \in Statuses /\ "saved" \in Statuses
      BY <2>2, <2>4 DEF Entry, Statuses
    <3> QED BY <2>1, <2>4, <3>1
  <2>5. CASE row[e] # NoRow
    <3>1. PICK st \in Statuses : /\ n.obj[e] = [row[e] EXCEPT !.status = st] /\ (row[e].delivered => st = "saved")
                                 /\ st = row[e].status \/ row[e].delivered
      BY <2>4, <2>5
    <3>2. /\ n.obj[e] \in Entry /\ SameSend(n.obj[e], row[e]) /\ n.obj[e].delivered = row[e].delivered
          /\ n.obj[e].cancelled = row[e].cancelled /\ n.obj[e].status = st
      BY <2>3, <2>5, <3>1
    <3> QED BY <2>5, <3>1, <3>2
  <2>6. CASE row[e] = NoRow
    BY <1>1, <2>1, <2>6
  <2> QED BY <2>5, <2>6
<1>3. n.obj \in [Entries -> Entry]
  <2>1. n.obj = [e \in Entries |-> n.obj[e]]
    BY DEF NewMemory
  <2> HIDE DEF n
  <2> QED BY <1>2, <2>1
<1>4. /\ n.flying = [e \in Entries |-> [who |-> {}, entry |-> FreshEntry]]
      /\ n.queued = [e \in Entries |-> {}] /\ n.resolved = {} /\ n.removing = {} /\ n.cleaning = {}
      /\ n.remote = IdleRemote /\ n.local = IdleLocal /\ n.worker = IdleWorker /\ n.closed = FALSE
      /\ n.listed = {e \in Entries : row[e] # NoRow} /\ n.unadmitted = {}
      /\ n.cancelled = {e \in Entries : row[e] # NoRow /\ row[e].cancelled}
      /\ n.durable = {e \in Entries : row[e] # NoRow /\ row[e].packet # NoPacket}
  BY DEF NewMemory
<1>5. n \in Memory
  <2>1. IdleRemote \in RemoteLoop /\ IdleLocal \in LocalLoop /\ IdleWorker \in WorkerLoop
    BY DEF IdleRemote, IdleLocal, IdleWorker, RemoteLoop, LocalLoop, WorkerLoop, RemoteStages, Causes
  <2>2. n.flying \in [Entries -> Snapshot]
    <3>1. [who |-> {}, entry |-> FreshEntry] \in Snapshot
      BY <1>1 DEF Snapshot
    <3> HIDE DEF n
    <3> QED BY <1>4, <3>1
  <2>3. ASSUME NEW o \in [Entries -> Entry], NEW l \in SUBSET Entries, NEW c \in SUBSET Entries, NEW d \in SUBSET Entries,
               NEW q \in [Entries -> SUBSET Writers], NEW f \in [Entries -> Snapshot]
        PROVE  [available |-> FALSE, closed |-> FALSE, stopped |-> FALSE, messenger |-> FALSE,
                configuring |-> FALSE, pauses |-> {}, journaling |-> FALSE,
                obj |-> o, listed |-> l, unadmitted |-> {}, discarded |-> {},
                cancelled |-> c, durable |-> d, queued |-> q, flying |-> f,
                resolved |-> {}, removing |-> {}, cleaning |-> {},
                remote |-> IdleRemote, local |-> IdleLocal, worker |-> IdleWorker,
                sendTimer |-> FALSE, journalTimer |-> FALSE, unarchived |-> {}, parked |-> {}, retries |-> {}] \in Memory
    BY <2>1, <2>3 DEF Memory
  <2>4. /\ n.listed \in SUBSET Entries /\ n.cancelled \in SUBSET Entries /\ n.durable \in SUBSET Entries
        /\ n.queued \in [Entries -> SUBSET Writers]
    <3> HIDE DEF n
    <3> QED BY <1>4
  <2>5. n = [available |-> FALSE, closed |-> FALSE, stopped |-> FALSE, messenger |-> FALSE,
             configuring |-> FALSE, pauses |-> {}, journaling |-> FALSE,
             obj |-> n.obj, listed |-> n.listed, unadmitted |-> {}, discarded |-> {},
             cancelled |-> n.cancelled, durable |-> n.durable, queued |-> n.queued, flying |-> n.flying,
             resolved |-> {}, removing |-> {}, cleaning |-> {},
             remote |-> IdleRemote, local |-> IdleLocal, worker |-> IdleWorker,
             sendTimer |-> FALSE, journalTimer |-> FALSE, unarchived |-> {}, parked |-> {}, retries |-> {}]
    BY DEF NewMemory
  <2> HIDE DEF n
  <2> QED BY <1>3, <2>2, <2>3, <2>4, <2>5
<1> HIDE DEF n
<1>6. /\ n.remote.pc = "idle" /\ n.local.pc = "idle" /\ n.worker.pc = "idle" /\ FreshEntry.packet = NoPacket
      /\ ~FreshEntry.delivered /\ ~FreshEntry.cancelled /\ FreshEntry.status = "pending"
  BY <1>4 DEF IdleRemote, IdleLocal, IdleWorker, FreshEntry
<1>7. ASSUME NEW e \in Entries
      PROVE  /\ ~Sending(n, e) /\ ~Archiving(n, e) /\ ~Saving(n, e) /\ \A who : ~Waits(n, who, e) /\ OnePlace(n, who, e)
             /\ n.flying[e].who = {} /\ n.flying[e].entry = FreshEntry
             /\ e \in n.durable => InRow(n, e)
  <2>1. n.flying[e].who = {} /\ n.flying[e].entry = FreshEntry /\ n.queued[e] = {}
    BY <1>4
  <2>2. e \in n.durable => InRow(n, e)
    <3>1. ASSUME e \in n.durable PROVE row[e] # NoRow /\ row[e].packet # NoPacket /\ n.obj[e].packet = row[e].packet
      BY <1>2, <1>4, <3>1 DEF SameSend
    <3> QED BY <2>1, <3>1 DEF InRow, SamePacket
  <2> QED BY <1>4, <1>6, <2>1, <2>2 DEF Sending, Archiving, Saving, Waits, OnePlace
<1>8. ObjectsOK(n)
  <2>1. ASSUME NEW e \in Entries, row[e] = NoRow
        PROVE  /\ n.obj[e] = FreshEntry /\ e \notin n.listed /\ e \notin n.durable
    BY <1>2, <1>4, <2>1
  <2>2. ASSUME NEW e \in Entries, row[e] # NoRow
        PROVE  /\ n.obj[e].cancelled => e \in n.cancelled
               /\ e \in Self => n.obj[e].packet = NoPacket
               /\ n.obj[e].delivered => n.obj[e].status = "saved"
               /\ offers[e] \notin {"new", "putting"}
    BY <1>2, <1>4, <2>2 DEF StoresOK, SameSend
  <2> QED BY <1>4, <1>6, <1>7, <2>1, <2>2 DEF ObjectsOK
<1>9. RemoteOK(n) /\ WorkerOK(n) /\ WaitsOK(n)
  BY <1>7 DEF RemoteOK, WorkerOK, WaitsOK
<1>10. MarksOK(n)
  <2>1. ASSUME Keeps, NEW e \in Entries PROVE ReallyArchived(n.obj[e], e)
    <3>1. CASE row[e] = NoRow
      BY <1>2, <1>6, <3>1 DEF ReallyArchived
    <3>2. CASE row[e] # NoRow
      BY <1>2, <2>1, <3>2 DEF ReallyArchived, StoresOK, SameSend
    <3> QED BY <3>1, <3>2
  <2> QED BY <1>6, <1>7, <2>1 DEF MarksOK, ReallyArchived
<1>11. SeedsHeld(n)
  <2>1. ASSUME Keeps, NEW e \in Entries, NEW i \in Nat, Unsaved(e, i) PROVE Carries(n.obj[e], i)
    BY <1>2, <2>1 DEF Unsaved, StoresOK, SeedRecoverable, Carries, SameSend, Keeps
  <2> QED BY <1>4, <1>7, <2>1 DEF SeedsHeld
<1>12. HonestOK(n)
  <2>1. ASSUME NEW e \in Entries PROVE Right(n.obj[e], e) /\ Kept(n.obj[e], e) /\ Right(FreshEntry, e)
    <3>1. Right(FreshEntry, e)
      BY LengthAssumption DEF FreshEntry, Right
    <3>2. CASE row[e] = NoRow
      BY <1>2, <3>1, <3>2 DEF Kept
    <3>3. CASE row[e] # NoRow
      <4>1. Right(row[e], e) /\ Kept(row[e], e) /\ SameSend(n.obj[e], row[e])
        BY <1>2, <3>3 DEF StoresOK
      <4>2. n.obj[e].status = "saved" => row[e].status = "saved" \/ (e \notin Self /\ n.obj[e].delivered)
        BY <1>2, <3>3, <4>1 DEF Right, SameSend
      <4>3. Right(n.obj[e], e)
        BY <4>1, <4>2 DEF Right, SameSend
      <4> QED BY <3>1, <4>1, <4>3, KeptStays
    <3> QED BY <3>2, <3>3
  <2> QED BY <1>4, <1>7, <2>1 DEF HonestOK
<1>13. CancelOK(n)
  BY <1>2, <1>4, <1>6, <1>7 DEF CancelOK
<1>14. AdmissionOK(n)
  <2>1. ASSUME NEW e \in Entries, Fresh(e) PROVE row[e] = NoRow /\ n.obj[e].status = "pending"
    BY <1>2, <1>6, <2>1 DEF StoresOK, Fresh
  <2> QED BY <1>4, <1>6, <1>7, <2>1 DEF AdmissionOK
<1>15. PauseOK(n)
  BY <1>7 DEF PauseOK
<1>16. MemoryOK(n)
  BY <1>4, <1>5, <1>6, <1>8, <1>9, <1>10, <1>11, <1>12, <1>13, <1>14, <1>15 DEF MemoryOK
<1> QED BY <1>16 DEF n

--------------------------------------------------------------------------------
(* Every step spends a fault of the plan or leaves it alone. *)
LEMMA PlanStays == ASSUME PlanOK, Next PROVE PlanOK' /\ PlanKept
<1>1. UNCHANGED plan \/ \E kind : Fault(kind)
  <2>1. CASE Local
    BY <2>1 DEF Local, LocalPass, LocalCheck, LocalSaved, LocalRefused, LocalWritten, LocalSettles, world
  <2>2. CASE Remote
    BY <2>2 DEF Remote, RemotePass, RemoteCheck, RemotePrepare, RemoteStaged, RemoteTransmit, RemoteAccepted,
                RemoteRefused, RemoteAdvance, RemoteFailed, RemoteCancelled, RemoteDropped, world
  <2>3. CASE Worker
    BY <2>3 DEF Worker, WorkerPass, WorkerChecked, WorkerWaited, WorkerArchives, WorkerForgot, world
  <2>4. CASE Recovery \/ Timers \/ Restart
    BY <2>4 DEF Recovery, Unlock, Configured, Release, StopJournal, Closed, Timers, SendTimerFires, JournalTimerFires,
                Restart, world
  <2>5. ASSUME NEW e \in Entries, Database(e) \/ Admission(e) \/ Continuation(e) \/ User(e)
        PROVE  UNCHANGED plan \/ \E kind : Fault(kind)
    <3>1. CASE Database(e)
      BY <3>1 DEF Database, StartWrite, WriteCommits, WriteFails, CleanupCommits, CleanupFails, RemovalCommits, world
    <3>2. CASE Admission(e) \/ Continuation(e)
      BY <3>2 DEF Admission, PutCommits, PutFails, Continuation, CancelWritten, AckWritten, world
    <3>3. CASE User(e)
      BY <3>3 DEF User, Enqueue, Cancel, Retry, world
    <3> QED BY <2>5, <3>1, <3>2, <3>3
  <2>6. CASE Alive /\ (Pause \/ Lock \/ Close \/ Crash)
    BY <2>6 DEF Pause, Lock, Close, Crash, world
  <2> QED BY <2>1, <2>2, <2>3, <2>4, <2>5, <2>6 DEF Next
<1> QED BY <1>1, FaultsKeep DEF PlanOK, PlanKept

LEMMA RemoteKeeps == ASSUME PlanOK, StoresOK, MemoryOK(mem), Remote PROVE MemoryOK(mem)' /\ StoresOK'
<1>1. PlanKept
  BY PlanStays DEF Next
<1>2. CASE RemoteTransmit \/ RemoteAccepted \/ RemoteFailed \/ RemoteDropped
  BY <1>2, RemoteTransmitKeeps, RemoteAcceptedKeeps, RemoteFailedKeeps, RemoteDroppedKeeps
<1>3. CASE RemotePass \/ RemoteCheck \/ RemotePrepare \/ RemoteStaged \/ RemoteRefused \/ RemoteAdvance \/ RemoteCancelled
  <2>1. MemoryOK(mem)'
    BY <1>3, RemotePassKeeps, RemoteCheckKeeps, RemotePrepareKeeps, RemoteStagedKeeps,
       RemoteRefusedKeeps, RemoteAdvanceKeeps, RemoteCancelledKeeps
  <2>2. UNCHANGED <<row, offers, stored, archived, sent, acked, told, dropped>>
    BY <1>3 DEF RemotePass, RemoteCheck, RemotePrepare, RemoteStaged, RemoteRefused,
                RemoteAdvance, RemoteCancelled, world
  <2>3. /\ offers' \in [Entries -> {"new", "putting", "accepted", "refused", "lost"}]
        /\ \A e \in Entries : Fresh(e)' => Fresh(e)
    BY <2>2 DEF StoresOK, Fresh
  <2> QED BY <1>1, <2>1, <2>2, <2>3, StoresStay
<1> QED BY <1>2, <1>3 DEF Remote

LEMMA WorkerKeeps == ASSUME PlanOK, StoresOK, MemoryOK(mem), Worker PROVE MemoryOK(mem)' /\ StoresOK'
<1>1. PlanKept
  BY PlanStays DEF Next
<1>2. MemoryOK(mem)'
  BY WorkerPassKeeps, WorkerCheckedKeeps, WorkerWaitedKeeps, WorkerArchivesKeeps, WorkerForgotKeeps DEF Worker
<1>3. UNCHANGED <<row, offers, stored, sent, acked, told, dropped>> /\ archived \subseteq archived'
  BY DEF Worker, WorkerPass, WorkerChecked, WorkerWaited, WorkerArchives, WorkerForgot, world
<1>4. /\ offers' \in [Entries -> {"new", "putting", "accepted", "refused", "lost"}]
      /\ \A e \in Entries : Fresh(e)' => Fresh(e)
  BY <1>3 DEF StoresOK, Fresh
<1> QED BY <1>1, <1>2, <1>3, <1>4, StoresStay

LEMMA InitHolds == Init => IInv
<1> SUFFICES ASSUME Init PROVE IInv
  OBVIOUS
<1>1. PlanOK
  BY PlansAssumption DEF Init, PlanOK
<1>2. StoresOK
  <2>1. IsFiniteSet(sent)
    BY FS_EmptySet DEF Init
  <2> QED BY <2>1 DEF Init, StoresOK, SeedRecoverable, OnlyALockSurfaces, PauseNeverSurfaces
<1>3. MemoryOK(mem)
  BY <1>2, NewMemoryOK DEF Init
<1> QED BY <1>1, <1>2, <1>3 DEF IInv

LEMMA NextKeeps == IInv /\ [Next]_vars => IInv'
<1> SUFFICES ASSUME IInv, [Next]_vars PROVE IInv'
  OBVIOUS
<1>0. PlanOK /\ StoresOK /\ (Alive => MemoryOK(mem))
  BY DEF IInv
<1>1. CASE UNCHANGED vars
  <2>1. UNCHANGED <<mem, row, offers, stored, archived, sent, acked, told, dropped, plan>>
    BY <1>1 DEF vars
  <2>2. PlanOK' /\ PlanKept
    BY <1>0, <2>1 DEF PlanOK, PlanKept
  <2>3. StoresOK'
    <3>1. /\ offers' \in [Entries -> {"new", "putting", "accepted", "refused", "lost"}]
          /\ \A e \in Entries : Fresh(e)' => Fresh(e)
      BY <1>0, <2>1 DEF StoresOK, Fresh
    <3> QED BY <1>0, <2>1, <2>2, <3>1, StoresStay
  <2>4. ASSUME MemoryOK(mem) PROVE MemoryOK(mem)'
    <3>1. MemoryOK(mem')
      BY <2>1, <2>4
    <3> QED BY <2>1, <2>2, <3>1, WorldStays
  <2> QED BY <1>0, <2>1, <2>2, <2>3, <2>4 DEF IInv, Alive
<1>2. CASE Next
  <2>1. PlanOK' /\ PlanKept
    BY <1>0, <1>2, PlanStays
  <2> SUFFICES StoresOK' /\ (Alive' => MemoryOK(mem)')
    BY <2>1 DEF IInv
  <2>4. CASE Local
    BY <1>0, <2>4, LocalKeeps DEF Local
  <2>5. CASE Remote
    BY <1>0, <2>5, RemoteKeeps DEF Remote
  <2>6. CASE Worker
    BY <1>0, <2>6, WorkerKeeps DEF Worker
  <2>7. CASE Recovery
    <3>1. CASE Alive /\ (Unlock \/ Configured \/ Release \/ StopJournal)
      BY <1>0, <3>1, UnlockKeeps, AvailabilityKeeps, StopKeeps
    <3>2. CASE Alive /\ Closed
      <4>1. mem' = NoSession /\ UNCHANGED <<row, offers, stored, archived, sent, acked, told, dropped>>
        BY <3>2 DEF Closed, world
      <4>2. /\ offers' \in [Entries -> {"new", "putting", "accepted", "refused", "lost"}]
            /\ \A e \in Entries : Fresh(e)' => Fresh(e)
        BY <1>0, <4>1 DEF StoresOK, Fresh
      <4>3. StoresOK'
        BY <1>0, <2>1, <4>1, <4>2, StoresStay
      <4> QED BY <4>1, <4>3 DEF Alive
    <3> QED BY <2>7, <3>1, <3>2 DEF Recovery
  <2>8. CASE Timers
    BY <1>0, <2>8, SendTimerKeeps, AvailabilityKeeps DEF Timers
  <2>9. CASE Restart
    <3>1. mem' = NewMemory /\ UNCHANGED <<row, offers, stored, archived, sent, acked, told, dropped, plan>>
      BY <2>9 DEF Restart, world
    <3>2. MemoryOK(mem')
      BY <1>0, <3>1, NewMemoryOK
    <3> QED BY <1>0, <3>1, <3>2, Unmoved
  <2>10. ASSUME NEW e \in Entries, Database(e) \/ Admission(e) \/ Continuation(e) \/ User(e)
         PROVE  StoresOK' /\ (Alive' => MemoryOK(mem)')
    <3>1. CASE Database(e)
      BY <1>0, <3>1, DatabaseKeeps DEF Database
    <3>2. CASE Admission(e)
      BY <1>0, <3>2, PutCommitsKeeps, PutFailsKeeps DEF Admission
    <3>3. CASE Continuation(e)
      BY <1>0, <3>3, ContinuationKeeps DEF Continuation
    <3>4. CASE User(e)
      BY <1>0, <3>4, EnqueueKeeps, CancelKeeps, RetryKeeps DEF User
    <3> QED BY <2>10, <3>1, <3>2, <3>3, <3>4
  <2>11. CASE Alive /\ (Pause \/ Lock)
    BY <1>0, <2>11, AvailabilityKeeps
  <2>12. CASE Alive /\ Close
    BY <1>0, <2>12, CloseKeeps
  <2>13. CASE Alive /\ Crash
    <3>1. mem' = NoSession /\ UNCHANGED <<row, stored, archived, sent, acked, told, dropped>>
          /\ offers' = [e \in Entries |-> IF offers[e] = "putting" THEN "lost" ELSE offers[e]]
      BY <2>13 DEF Crash, world
    <3>2. /\ offers' \in [Entries -> {"new", "putting", "accepted", "refused", "lost"}]
          /\ \A e \in Entries : Fresh(e)' => Fresh(e)
      BY <1>0, <3>1 DEF StoresOK, Fresh
    <3>3. StoresOK'
      BY <1>0, <2>1, <3>1, <3>2, StoresStay
    <3> QED BY <3>1, <3>3 DEF Alive
  <2> QED BY <1>2, <2>4, <2>5, <2>6, <2>7, <2>8, <2>9, <2>10, <2>11, <2>12, <2>13 DEF Next
<1> QED BY <1>1, <1>2

(* The inductive invariant holds of every reachable state, of every plan: the three theorems below rest on    *)
(* it (the awaits of stage, worker, saveEntry, cancel and boot in session/index.js).                          *)
THEOREM Inductive == Spec => []IInv
BY InitHolds, NextKeeps, PTL DEF Spec

(* A message's recovery seeds survive: unless the session may be closed while the worker archives, what      *)
(* was ever transmitted stays archived or carried by the entry's durable row, whatever the order of          *)
(* sends, writes, cancels, retries, pauses, locks, failures, crashes and restarts (stage, worker, cancel of  *)
(* session/index.js and publication-journal.js).                                                             *)
THEOREM SeedsSurvive == Spec => []("close" \notin plan.faults => SeedRecoverable)
<1>1. IInv => ("close" \notin plan.faults => SeedRecoverable)
  BY DEF IInv, StoresOK, Keeps, SeedRecoverable
<1> QED BY <1>1, Inductive, PTL

(* What an event of the entry was acknowledged, when its index is at the end. *)
LEMMA WhollySent ==
    ASSUME NEW x, NEW e \in Entries \ Self, Right(x, e), x.delivered
    PROVE  \A index \in 0..Length[e] - 1 : <<e, index>> \in acked
<1>1. x.index = Length[e] /\ Length[e] \in Nat \ {0} /\ \A i \in Nat : i < x.index => <<e, i>> \in acked
  BY LengthAssumption DEF Right
<1> QED BY <1>1

LEMMA ShapeFollows ==
    ASSUME NEW x \in Entry, NEW e \in Entries, Right(x, e)
    PROVE  x \in EntryShape(e)
<1>1. x.index \in 0..Length[e]
  BY LengthAssumption DEF Right, Entry
<1> QED BY <1>1 DEF Entry, EntryShape

(* What the session says is so, whatever fails and whenever: every event goes out in one envelope, saved is   *)
(* shown when the message is stored and every event acknowledged, and a pause is reported as a failed send     *)
(* only if a lock aborted it (stage, saveEntry, sendEntry and admit of session/index.js).                      *)
THEOREM AlwaysHonest == Spec => []OutboxHonest
<1>1. IInv => OutboxHonest
  <2> SUFFICES ASSUME IInv PROVE OutboxHonest
    OBVIOUS
  <2>1. PlanOK /\ StoresOK /\ (Alive => MemoryOK(mem))
    BY DEF IInv
  <2>2. TypeOK
    <3>1. ASSUME NEW e \in Entries, row[e] # NoRow PROVE row[e] \in EntryShape(e)
      BY <2>1, <3>1, ShapeFollows DEF StoresOK
    <3>2. ASSUME Alive, NEW e \in Entries PROVE mem.obj[e] \in EntryShape(e)
      BY <2>1, <3>2, Records, ObjectBooks, ShapeFollows
    <3>3. ASSUME Alive
          PROVE  /\ mem.unadmitted \subseteq mem.listed \cap Self
                 /\ mem.durable \cup mem.cleaning \cup mem.parked \subseteq Entries
      <4>1. MemoryOK(mem) /\ mem \in Memory
        BY <2>1, <3>3 DEF MemoryOK
      <4>2. mem.unadmitted \subseteq Self /\ Self \subseteq Entries
        BY <4>1, EntriesAssumption DEF Memory
      <4>3. \A e \in Entries : e \in mem.unadmitted => e \in mem.listed
        BY <4>1 DEF MemoryOK, AdmissionOK
      <4>4. mem.durable \cup mem.cleaning \cup mem.parked \subseteq Entries
        BY <4>1 DEF Memory
      <4> QED BY <4>2, <4>3, <4>4
    <3>4. \E p \in Plans : plan \in {[p EXCEPT !.left = n] : n \in 0..p.left}
      BY <2>1 DEF PlanOK
    <3>5. /\ offers \in [Entries -> {"new", "putting", "accepted", "refused", "lost"}]
          /\ stored \subseteq Entries /\ dropped \subseteq Entries
      BY <2>1 DEF StoresOK
    <3> QED BY <3>1, <3>2, <3>3, <3>4, <3>5 DEF TypeOK
  <2>3. OneEnvelope
    BY <2>1 DEF StoresOK, OneEnvelope
  <2>4. SavedMeansDone
    <3> SUFFICES ASSUME Alive, NEW e \in mem.listed, mem.obj[e].status = "saved"
                 PROVE  IF e \in Self THEN e \in stored /\ e \notin mem.unadmitted
                        ELSE \A index \in 0..Length[e] - 1 : <<e, index>> \in acked
      BY DEF SavedMeansDone
    <3>1. MemoryOK(mem) /\ e \in Entries
      BY <2>1 DEF MemoryOK, Memory
    <3>2. Right(mem.obj[e], e)
      BY <3>1, ObjectBooks
    <3>3. CASE e \in Self
      BY <3>1, <3>2, <3>3 DEF Right, MemoryOK, AdmissionOK
    <3>4. CASE e \notin Self
      <4>1. mem.obj[e].delivered
        BY <3>1, <3>2, <3>4 DEF Right
      <4> QED BY <3>1, <3>2, <3>4, <4>1, WhollySent
    <3> QED BY <3>3, <3>4
  <2> QED BY <2>1, <2>2, <2>3, <2>4 DEF OutboxHonest, StoresOK
<1> QED BY <1>1, Inductive, PTL

--------------------------------------------------------------------------------
(* Who removes a row, who transmits, and who reports a cancel. *)
LEMMA WhoChanges ==
    ASSUME Next, row \in [Entries -> Entry \cup {NoRow}], \A e \in Entries : Alive => mem.flying[e].entry # NoRow
    PROVE  /\ dropped \subseteq dropped'
           /\ (UNCHANGED sent) \/ (Alive /\ RemoteTransmit)
           /\ \A e \in Entries : row[e] # NoRow /\ row'[e] = NoRow =>
                 Alive /\ (CleanupCommits(e) \/ RemovalCommits(e) \/ (RemoteDropped /\ e = mem.remote.entry))
<1> DEFINE Goes(e) == row[e] # NoRow /\ row'[e] = NoRow =>
                 Alive /\ (CleanupCommits(e) \/ RemovalCommits(e) \/ (RemoteDropped /\ e = mem.remote.entry))
<1>1. CASE UNCHANGED <<row, sent>>
  <2>1. dropped \subseteq dropped'
    <3>1. CASE Local \/ Remote
      BY <3>1 DEF Local, LocalPass, LocalCheck, LocalSaved, LocalRefused, LocalWritten, LocalSettles,
                  Remote, RemotePass, RemoteCheck, RemotePrepare, RemoteStaged, RemoteTransmit, RemoteAccepted,
                  RemoteRefused, RemoteAdvance, RemoteFailed, RemoteCancelled, RemoteDropped, world
    <3>2. CASE Worker \/ Recovery \/ Timers \/ Restart
      BY <3>2 DEF Worker, WorkerPass, WorkerChecked, WorkerWaited, WorkerArchives, WorkerForgot,
                  Recovery, Unlock, Configured, Release, StopJournal, Closed, Timers, SendTimerFires,
                  JournalTimerFires, Restart, world
    <3>3. ASSUME NEW e \in Entries, Database(e) \/ Admission(e) \/ Continuation(e) \/ User(e)
          PROVE  dropped \subseteq dropped'
      BY <3>3 DEF Database, StartWrite, WriteCommits, WriteFails, CleanupCommits, CleanupFails, RemovalCommits,
                  Admission, PutCommits, PutFails, Continuation, CancelWritten, AckWritten,
                  User, Enqueue, Cancel, Retry, world
    <3>4. CASE Alive /\ (Pause \/ Lock \/ Close \/ Crash)
      BY <3>4 DEF Pause, Lock, Close, Crash, world
    <3> QED BY <3>1, <3>2, <3>3, <3>4 DEF Next
  <2> QED BY <1>1, <2>1
<1>2. CASE ~UNCHANGED <<row, sent>>
  <2>1. CASE Local \/ Recovery \/ Timers \/ Restart \/ Worker \/ (Alive /\ (Pause \/ Lock \/ Close \/ Crash))
    BY <1>2, <2>1 DEF Local, LocalPass, LocalCheck, LocalSaved, LocalRefused, LocalWritten, LocalSettles,
                Worker, WorkerPass, WorkerChecked, WorkerWaited, WorkerArchives, WorkerForgot,
                Recovery, Unlock, Configured, Release, StopJournal, Closed, Timers, SendTimerFires,
                JournalTimerFires, Restart, Pause, Lock, Close, Crash, world
  <2>2. CASE Remote
    <3>1. CASE Alive /\ RemoteTransmit
      BY <3>1 DEF RemoteTransmit
    <3>2. CASE Alive /\ RemoteDropped
      <4>1. row' = [row EXCEPT ![mem.remote.entry] = NoRow] /\ UNCHANGED <<sent, dropped>>
        BY <3>2 DEF RemoteDropped, world
      <4> QED BY <3>2, <4>1
    <3>3. CASE Alive /\ ~RemoteTransmit /\ ~RemoteDropped
      BY <1>2, <2>2, <3>3 DEF Remote, RemotePass, RemoteCheck, RemotePrepare, RemoteStaged, RemoteAccepted,
                  RemoteRefused, RemoteAdvance, RemoteFailed, RemoteCancelled, world
    <3> QED BY <2>2, <3>1, <3>2, <3>3 DEF Remote
  <2>3. ASSUME NEW f \in Entries, Database(f) \/ Admission(f) \/ Continuation(f) \/ User(f)
        PROVE  /\ dropped \subseteq dropped' /\ UNCHANGED sent
               /\ \A e \in Entries : Goes(e)
    <3>1. CASE StartWrite(f) \/ WriteFails(f) \/ CleanupFails(f) \/ PutFails(f) \/ Continuation(f) \/ User(f)
      BY <1>2, <3>1 DEF StartWrite, WriteFails, CleanupFails, PutFails, Continuation, CancelWritten, AckWritten,
                  User, Enqueue, Cancel, Retry, world
    <3>2. CASE Alive /\ WriteCommits(f)
      <4>1. row' = PutExisting(f, mem.flying[f].entry) /\ UNCHANGED <<sent, dropped>> /\ mem.flying[f].entry # NoRow
        BY <3>2 DEF WriteCommits, world
      <4>2. \A e \in Entries : row[e] # NoRow => row'[e] # NoRow
        BY <4>1 DEF PutExisting
      <4> QED BY <4>1, <4>2
    <3>3. CASE Alive /\ (CleanupCommits(f) \/ RemovalCommits(f))
      <4>1. row' = [row EXCEPT ![f] = NoRow] /\ UNCHANGED sent /\ dropped \subseteq dropped'
        BY <3>3 DEF CleanupCommits, RemovalCommits, world
      <4>2. \A e \in Entries : row[e] # NoRow /\ row'[e] = NoRow => e = f
        BY <4>1
      <4> QED BY <3>3, <4>1, <4>2
    <3>4. CASE Alive /\ PutCommits(f)
      <4>1. row' = [row EXCEPT ![f] = FreshEntry] /\ UNCHANGED <<sent, dropped>> /\ FreshEntry # NoRow
        <5>1. FreshEntry \in Entry
          BY DEF FreshEntry, Entry, Statuses
        <5> QED BY <3>4, <5>1, AbsenceAssumption DEF PutCommits
      <4>2. \A e \in Entries : row[e] # NoRow => row'[e] # NoRow
        BY <4>1
      <4> QED BY <4>1, <4>2
    <3> HIDE DEF Goes
    <3> QED BY <2>3, <3>1, <3>2, <3>3, <3>4 DEF Database, Admission
  <2> QED BY <2>1, <2>2, <2>3 DEF Next
<1> QED BY <1>1, <1>2

(* A durable intent goes away when it is stored and every event acknowledged, or was cancelled or blocked      *)
(* (cleanupEntry, cancel, sendEntry's catch of session/index.js); and once cancel() has resolved, nothing of   *)
(* it is transmitted and no row brings it back, over crashes and restarts too (cancel, dispatch, putBy).       *)
THEOREM IntentsSurvive == Spec => IntentsKept
<1> DEFINE Done(e) == \/ e \in mem.cancelled
                      \/ /\ e \in stored
                         /\ e \in Self \/ \A index \in 0..Length[e] - 1 : <<e, index>> \in acked
           Held(e) == /\ {s \in sent' : s[1] = e} = {s \in sent : s[1] = e}
                      /\ row'[e] # NoRow => row'[e].cancelled
           DropStep == \A e \in Entries : row[e] # NoRow /\ row'[e] = NoRow => Done(e)
           HoldStep == \A e \in dropped : Held(e)
<1>1. ASSUME IInv, IInv', [Next]_vars PROVE [DropStep]_vars /\ [HoldStep]_vars
  <2> SUFFICES ASSUME Next PROVE DropStep /\ HoldStep
    BY <1>1
  <2>0. PlanOK /\ StoresOK /\ StoresOK' /\ (Alive => MemoryOK(mem))
    BY <1>1 DEF IInv
  <2>1. /\ dropped \subseteq dropped'
        /\ (UNCHANGED sent) \/ (Alive /\ RemoteTransmit)
        /\ \A e \in Entries : row[e] # NoRow /\ row'[e] = NoRow =>
              Alive /\ (CleanupCommits(e) \/ RemovalCommits(e) \/ (RemoteDropped /\ e = mem.remote.entry))
    <3>1. row \in [Entries -> Entry \cup {NoRow}]
      BY <2>0 DEF StoresOK
    <3>2. ASSUME NEW e \in Entries, Alive PROVE mem.flying[e].entry # NoRow
      <4>1. mem.flying \in [Entries -> Snapshot]
        BY <2>0, <3>2, Parts DEF MemoryOK
      <4>2. mem.flying[e].entry \in Entry
        BY <4>1 DEF Snapshot
      <4> QED BY <4>2, AbsenceAssumption
    <3> QED BY <3>1, <3>2, WhoChanges
  <2>2. ASSUME NEW e \in Entries, row[e] # NoRow, row'[e] = NoRow PROVE Done(e)
    <3>1. Alive /\ MemoryOK(mem)
      BY <2>0, <2>1, <2>2
    <3>2. CASE RemovalCommits(e)
      BY <3>1, <3>2 DEF RemovalCommits, MemoryOK, ObjectsOK
    <3>3. CASE RemoteDropped /\ e = mem.remote.entry
      <4>1. mem.remote.pc = "dropping" /\ Sending(mem, e)
        BY <3>3 DEF RemoteDropped, Sending
      <4> QED BY <3>1, <4>1 DEF MemoryOK, RemoteOK
    <3>4. CASE CleanupCommits(e)
      <4>1. \/ e \in mem.cancelled
            \/ (e \in Self \/ mem.obj[e].delivered) /\ mem.obj[e].local
        BY <3>1, <3>4 DEF CleanupCommits, MemoryOK, ObjectsOK, HonestOK
      <4>2. Right(mem.obj[e], e)
        BY <3>1, ObjectBooks
      <4>3. mem.obj[e].local => e \in stored
        BY <4>2 DEF Right
      <4>4. e \notin Self /\ mem.obj[e].delivered => \A index \in 0..Length[e] - 1 : <<e, index>> \in acked
        BY <4>2, WhollySent
      <4> QED BY <4>1, <4>3, <4>4
    <3> QED BY <2>1, <2>2, <3>2, <3>3, <3>4
  <2>3. ASSUME NEW e \in dropped PROVE Held(e)
    <3>1. e \in Entries /\ (row[e] = NoRow \/ row[e].cancelled) /\ (row'[e] = NoRow \/ row'[e].cancelled)
      BY <2>0, <2>1 DEF StoresOK
    <3>2. {s \in sent' : s[1] = e} = {s \in sent : s[1] = e}
      <4>1. CASE UNCHANGED sent
        BY <4>1
      <4>2. CASE Alive /\ RemoteTransmit /\ ~UNCHANGED sent
        <5> DEFINE f == mem.remote.entry
        <5>1. /\ mem.remote.pc = "transmitting" /\ Interruptions(mem) = {}
              /\ sent' = sent \cup {<<f, mem.obj[f].packet.index, mem.obj[f].packet.envelope>>}
          BY <4>2 DEF RemoteTransmit
        <5>2. MemoryOK(mem) /\ Sending(mem, f) /\ f \in Entries /\ ~mem.remote.aborted
          BY <2>0, <4>2, <5>1 DEF MemoryOK, Sending, Interruptions
        <5>3. f \notin mem.cancelled /\ row[f] # NoRow
          BY <5>2 DEF MemoryOK, RemoteOK
        <5>4. f # e
          BY <3>1, <5>2, <5>3 DEF MemoryOK, CancelOK, ObjectsOK
        <5> HIDE DEF f
        <5> QED BY <5>1, <5>4
      <4> QED BY <2>1, <4>1, <4>2
    <3> QED BY <3>1, <3>2
  <2> QED BY <2>2, <2>3
<1>2. IntentsKept <=> [][DropStep]_vars /\ [][HoldStep]_vars
  BY DEF IntentsKept, DroppedWhenDone, CancelHolds
<1> QED BY <1>1, <1>2, Inductive, PTL DEF Spec
================================================================================
