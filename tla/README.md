# A verification project for libp2r2p

libp2r2p is a JavaScript library for private messaging over Nostr relays: a
messenger with channels, queues, offline recovery and file transfer
(`private-messenger/`), the wrapping of messages into envelopes and chunks
(`private-channel/`, `private-message/`), the relay pool below it (`relay/`), two
persistent queues (`idb-queue/`, `web-storage-queue/`), a connectivity monitor
(`network/`) and a range of NIP helpers.

This directory holds TLA+ models of the parts whose correctness depends on order,
interruption and concurrency, the TLC configurations that check them on small
instances, and TLAPS proofs of what holds for every instance. `PROJECT.json` lists
the runs, the mutants that each property rejects, the lines of code behind every
definition, the hazards of the code and what was found.

    tlc -workers 2 -config QueueReservations_two_tabs.cfg MCQueueReservations
    tlapm QueueReservationsProofs.tla

A configuration `X_name.cfg` belongs to the module `MCX`. Paths below are relative to
the repository.

## Inventory

| component | state | operations | what is hard | modules |
|---|---|---|---|---|
| `idb-queue` | rows by position, bounds, byte count, a lease in the row; in memory: item waiters, a session byte budget | push, unshift, shift, pop, positional edits, index reads and writes, coalesceBy, reserve with ack, nack, renew, removeBy, items() | several tabs on one database; leases that lapse while held; a position used again; byte accounting apart from the rows | QueueReservations |
| `web-storage-queue` | the same in `localStorage`, one key per row, bounds, and a journal of the positional edit under way | as above without leases | a page may die after any single write, also during the repair of the last death | WebStorageQueue, Deque |
| `relay/helpers/read-admission.js` | per relay: slots in use, history slots in use, a FIFO | acquire, release, timeout, abort, cancelQueued | a feed takes two slots at once and returns them apart; disconnects and idle ledgers | ReadAdmission |
| `relay/services/relay-connection.js` | publish jobs and their waiters, bulk queue, cooldowns, backoff, subscriptions | publish, subscribe, count, the socket's messages and end | callers of different patience share a job; pacing, rate limits and aborts feed one scheduler | RelayConnection |
| `relay/services/relay-pool.js`, one-shot | pooled connections, idle timers, live counts; per operation its legs | getRelay, disconnect, getEvents, countEvents, sendEvent | a connection is taken up while it is being dropped; late answers; a fresh event after an ambiguous one | RelayReads |
| `relay/services/relay-pool.js`, live | attempts per relay, cursors, buffers, the queue to the consumer | open, retry, gap read, stop, stopAndDrain | live events overtake the gap; a lost relay is lost again during its gap read | LiveReader |
| `private-message` | watches, a subscription per relay, recoveries | watch, update, unwatch, failure, interruption | channels that share a relay come and go while it fails; gaps are saved across awaits | WatchSession |
| `network`, `read-retry.js`, `pause-recovery.js` | one probe loop, listeners with urgencies; the pool's shared check; a recovery job | onOnline, probe, wake, waitOnline | everybody's listener on one loop; answers that come after their question ended | Connectivity |
| `private-messenger/index.js` | channels, inbox queue, pause reasons, stored recovery state, passes | watch, update, pause/resume, recover, close, nextMessage, send, ask | every way delivery can stop leaves a gap that must be stored before later progress hides it | Messenger, HistoryRanges |
| messenger services | rows of channel state, pending packets, scheduler slots, a registry of leases | flush, repair, clean; save, retry; schedule; touch, delete idle storage | several tabs; counters read in one transaction and written in another | ChannelStates, PendingPackets, DecryptionScheduler, StorageRegistry |
| messenger helpers | fallback race, relay health, routing | publish with fallbacks | timers racing answers, a probe racing both | SendRace |
| `private-messenger/session` | outbox entries in memory and their encrypted rows, retry and pause sets, controllers, timers, the publication journal | enqueue, retry, cancel, setAvailable, close; two pumps, a worker, two timers | four loops over one entry, each suspended at every await; locks, pauses, crashes, failing writes and archives | SessionOutbox |
| `private-channel` | received chunk groups with drain leases, history cursors | wrap, unwrap, put, drain, page | chunks in any order from several relays; drains that lapse | ReceivedChunks, HistoryRanges |
| session helpers, `private-messenger/file`, `recovery`, `event-store`, `temporary-storage`, `nip46` | prepared peers, cached chunks, archive, expiring values, request tables | | | none, see *Not modelled* |
| `idb`, `helpers`, encodings, cryptography, NIP formats, `url`, `event`, `key`, `wasm`, `benchmark` | none | pure functions, tooling | nothing interleaves | none |

How they interact: an application calls the **session**; its outbox writes rows
through **idb-queue**, has the **messenger** wrap and broadcast through
**private-message** and **private-channel**, whose publications choose relays by
**send routing and the fallback race**, and learns of acceptance, pauses and failures
through promises and `onStateChanged`. The **journal** inside the session keeps what
was transmitted recoverable until the **recovery** archive has it. Inbound, the
messenger **watches** a channel through private-message, which keeps one **live
stream** per relay; what a stream could not deliver becomes a stored **range** that
passes over **history** read back. Streams and reads go through the **relay pool**,
which asks **read admission** for slots and runs its jobs on **connections**. Wrappers
become chunks, lines and rumors, which the messenger puts in its inbox **idb-queue**
and hands out under leases; what lacks a key is a **pending packet**. The
**connectivity monitor** wakes whatever waits for the network.

What makes each modelled component correct:

- *inbox queue*: two sessions never hold one message under running leases; no
  message vanishes but by ack, removal or a newer one of its key; bytes and bounds
  describe the rows; supersession keeps the newest.
- *web-storage queue*: each operation is atomic over page death, completes in full,
  leaves nothing outside the bounds; the whole is a deque.
- *read admission*: limits, exact counters, FIFO, no waiter forgotten, no capacity
  idle beside a waiter, a disconnect admits nobody.
- *connection*: a waiting call is a waiter of exactly one job, a job has a waiter, the
  bulk scheduler never stalls, pacing and cooldowns hold.
- *pool*: a connection stays exactly while it is held; a finished operation holds
  nothing; a second version of an event is sent only if nobody has the first.
- *live stream*: nothing a relay owes is missed, nothing comes twice or early, slots
  come back, lost relays come back.
- *watches*: subscriptions follow the watches; a gap is never silent; it is saved before
  the relay is opened again.
- *connectivity*: the loop runs exactly while needed; nobody's end answers for another.
- *channel of a messenger*: what was published is accepted or covered by the stored
  state; an explicit pause wins; in the end it is accepted.
- *history*: covered means read, complete means accounted for.
- *channel rows*: a promised gap stays stored; nobody writes another's rows.
- *pending packets, scheduler, registry*: kept until delivered or reported; three tries;
  nobody overtaken; storage in use is not deleted.
- *publication*: success means every receiver is covered; failure means every route
  failed.
- *outbox*: an intent that was accepted is settled; saved means acknowledged (or
  stored, to oneself); a row goes only when done or cancelled; transmitted seeds stay
  recoverable; one event, one envelope; a pause is never an error; a cancel holds.
- *chunk reassembly*: usage is exact and bounded; a group is drained once, in order,
  by whoever holds its lease; a chunk that came is read; a message reaches the
  application before its group goes; a list of recipients is complete.

The hazards that these properties answer to, and the five that none does, are in
`PROJECT.json` under `hazards`, each at its line.

## Modules

How they are written. Code between two awaits runs to completion, so it is one action;
an IndexedDB transaction or a critical section under a Web Lock is one action; an action
that composes several functions is written with operators from memory to memory, in the
order of the code. A *plan* is chosen in the initial state: it says what a behaviour is
offered (events, callers, channels) and how many faults of which kind it may meet; the
rest of it counts down. A delay is any delay, unless a clock is named. Variables marked
*ghost* record what the outside saw and guard nothing. The lines each definition stands
for are in `PROJECT.json` under `map`; a helper of one line is covered by the row of the
action that uses it.

### QueueReservations (idb-queue with the messenger's inbox)

State: `records` (the object store, a function of positions), `head`, `tail`,
`usedBytes` (the state row), `handles` (the reservation objects that sessions hold,
by token) and `clock`. Ghosts: `outcome`, what callers were told of every message,
and `nextId`. Every `mutate` is one IndexedDB transaction and so one action:
`Push`, `CoalesceAppend` and `CoalesceReplace` (the two outcomes of `coalesceBy`;
an ignored item changes nothing), `Reserve`, `Ack`, `NackRequeue`, `NackSuperseded`,
`Renew`, `UpdateRefused`, `RemoveBy`, with `trimBounds` and the byte arithmetic
inside. `now` is read before the transaction starts, so an action takes any clock
reading of the last `MaxDelay` units. `Produce` adds what `enqueueRumor` checks
first, `Crash` loses a session's handles.

`until` in a handle is the deadline written at reserve time, `promised` the one the
last `renew()` returned true for. The first is what exclusivity holds for; the
second is where it fails (`renewed_lease`).

Not in the module: positional operations, eviction (the inbox is a `reject` queue),
quota retries, the waiters of `items()`.

### WebStorageQueue and Deque

`stored` is what `localStorage` holds: rows, bounds, and the journal of a positional
edit. An operation is the list of single writes the code makes, computed from what it
read; `Write` performs one, `Interrupt` is the page dying between two. The next
`Begin` runs the repairs of `readState` first (`recoverOperation`, `recoverHead`,
`recoverTail`), again one write at a time and interruptible. `Deque` is the abstract
queue; the mapping reads the content a reload would show, and every write is a step
of Deque or no step at all.

### ReadAdmission

A ledger per relay state object, including the ones a map no longer holds while
their leases are out; `current` is the map entry. One action for each public call:
`Acquire` (enqueue and drain), `AcquireTooWide`, `AcquireRefused`, `Release` of one
kind, `Cancel` (timeout or abort), `CancelQueued`. JavaScript runs each of them
without interruption, so they are atomic.

### RelayConnection

One socket. `conn` is the connection's memory: `jobs` per event and pacing with their
`waiters`, the bulk `queue` and its `active` job, `retryAt` and `backoff` per type,
`calls` (the waiters' side), `asks` (subscriptions and counts) and `wire`, the EVENT
messages the relay has not answered. Actions: `Publish` (join, share a scheduled retry,
or make a job), `Abort`, `Expire`, `AbortRetry`, `Due` and `BulkTimer` (timers), `Accept`,
`Refuse`, `RateLimit` (the relay's OK), `Ask`, `AskDue`, `Answer`, `CloseAsk`,
`CloseFromRelay`, `Cap`, `SocketCloses`, `HandleClose`, `Reconnect`, and a clock in half
seconds. The scheduler is passed to the operators that call it, so that every caller of
`#pumpBulkPublishes` runs it where the code does. Left out: AUTH, and an owner's close()
followed by a reopening before the old socket's `onclose`.

### RelayReads

The pool's connections and the operations that fan out over relays. `objects` are
connection objects (a url can have several over time), `pool` what the maps hold, `legs`
an operation's part on one relay, `wire` the ghost of accepted events. A leg goes from
getRelay over the connection to its subscription, count or publication; disconnects,
idle timers, live counts, retries of a leg, the operation's own timers, and the fresh
event of `sendEvent` are actions. Connections that a getRelay took up between a
disconnect's close and its delete (`relay-pool.js:327`) are marked `forgotten` and
exempt: nothing closes them. `mute:` and `duplicate:` count as fulfilled, as in the
code.

### LiveReader

`getLiveEventsGenerator`. `reader` holds per relay its attempts (admission slot,
connection, subscription, gap read, buffer of live events) and the queue to the consumer;
`relay` and `store` are the relays. A lost relay is attempted again, reads its gap first,
and only then hands over what arrived live. Stops (`abort`, `until`, `stopAndDrain`),
refusals, overflow, progress markers and being offline are actions. Not owed, and so not
claimed: what a relay stores between an attempt's reading of the clock and its REQ. The
de-duplication memory of 500 ids and the backoff delays are left out.

### WatchSession

The session of `private-message`. `watches` by channel, `at` per relay its subscriptions
(replaced ones go on to be told), the recovery under way and `subscriptionReady`; live
streams are external: they open, reconnect or fail. `Watch`, `Update`, `Unwatch` and
their continuations, `Fails`, the notification of the channels (each saves its gap, may
refuse) and the reopening are actions. A call takes its number from `seq`
(`requestSequence`) when it is made and comes to its channel after an await, so calls
overtake one another, and the last request about a channel counts. `forsaken` records
what replacing a reader loses.

### Connectivity

`monitor`, its listeners (`entries`), the pool's shared check (`probe`), the live readers
that wait for it (`reader`) and the messenger's recovery from a network pause (`job`).
A probe answers by what the network was at some time while it ran, or fails. Focus,
urgency, the end of a listener and failing resumes are actions.

### Messenger

One channel, from its live subscription to its stored state: `sub` (external), `incoming`
(`queueOperationTail`), `inbox`, `unsaved` (`pendingStorageWrites`), `st` and `disk` (the
channel's state in memory and stored: lastSeenAt, recoveredThrough, openOfflineStart and
offlineRanges), `pauses`, `auto`, `resumes`, the watch `w` with its call, job and
interruption, the pass `rec`, and `timer`. Publishing, delivery, refusal by a full or
failing inbox, pause, resume, automatic pauses and their end, watch, update, rewatch and
close, interruption and return, the stages of a recovery pass, crash and start are
actions. An event is its created_at, one per instant. What is exempt is a ghost of its
own: `unheard` is published between a watch's reading of the clock and its subscription
(README.md:674-675 reads as if nothing could be), `resting` is set when an offline pass
leaves a pending range with nothing scheduled (`index.js:1800-1838`, `3528-3535`). A failed
pass is retried here (`PassEnds`): the plans have failures that pass only. What a refusal, a
dense second or an exception does to the range (`index.js:1729-1737`, 1825-1833, 3616-3618)
is in HistoryRanges, not here, so `AllRecovered` says nothing of them.

### HistoryRanges

How one pending range is read: `record` is what `recoveryRanges` keeps per relay
(covered parts, failures per tier), `stage` where the pass is (priority lane, asking
seeders, main read), `fetches` the calls of `fetchHistory` with their pages. Pages come
back partial, full, empty or fail; a hedge starts on another relay at any time; the
application changes windows, aborts, restarts, changes the channel's relays. The ghost
`asked` counts what seeders were asked for as accounted, as the code does. Plans have
finite worlds and whole numbers of faults, and a tier's budget of failures lies between
that of partial and of failed reads (`PlansAssumption`, `ConstantsAssumption`), as in
`recoveryRanges`. The module's properties are in the module, which the run's MCServices
extends, so that the runs and the proofs use one definition.

Three kinds of failure are told apart. A read fails and is an entry of the report, for
good or not (`PageFails`, a full second at `MaxPage`). Taking in an event throws in the
middle of a page, which loses the whole call's report, covered pages included
(`ProcessFails`; `broken` is "failed", or "invalid" for what `isPermanentRecoveryError`
calls permanent). An abort throws too. What throws ends the main pass in `MainThrew`: the
record stays and a timer follows, but a permanent exception marks every relay of the record
dead and leaves no timer (`index.js:3616-3618`). One malformed event of one relay is
enough for that, where `recovery-retry.js:33-34` speaks of stopping "that relay's retries".
The next trigger then finds nothing to read, asks the seeders and completes. The ghost
`tries` keeps how each relay was given up (`refused`, `thrown`, `passes`), and
`GivenUpInTime` allows these three. Finalizing throws only pauses, which change
nothing; a failure of `resolveWatchRelays` is not modelled.

A range that is left without a timer is `pending`, and `Triggered` (a watch, a resume,
the end of an interruption, `index.js:1448`, 2083, 3125) begins a pass again. Plans with
`lasting` have permanent and unknown failures and no network, the others transient ones.
The repository says that "dense-page limits, permanent refusals and unknown failures
stay pending" (README.md:1451-1453, 759-763, and for the delay alone
tests/private-recovery-retry.test.js:5). The code does that only while an ask of the
seeders fails or there is no network: a refused relay, or one with a dense second, is
dead, and when no other relay is left to read, the same pass asks the seeders and
completes the range if that ask was published, with what the relay refused never read.
`RefusedStaysPending` says what the documents say and fails in eight steps; no run of
the project checks it. `AllEnd` asks for no more than the code does: a range completes,
or, if its plan has failures that do not pass or a second as dense as `MaxPage`
(`Hard`), completes or is pending without a timer.

### ChannelStates

The rows of `channel-state.js`, the copy each messenger keeps, its tail of writes, and
the cleanup of channels nobody administers, which reads leases and rows in different
transactions. An update that adopts a channel, or drops it, is followed through its
awaits: the lease, the stamp, the flush of what it owes; a recovery reads the gaps it
found and writes what is left of them. A cleanup flushes before it loads the rows.
`hurt` marks channels of which some memory is out of step with the store:
adopted beside a stale row, changed while a cleanup replaced `this.state`
(`index.js:3830-3843`), cleaned between check and delete (`3826-3829`), or rewritten by a
repair (`1060-1065`, against `channel-state.js:19-21`). Claims are about the others;
A recovery that ends after its channel went to another messenger writes its old row back
there, and is `hurt` too. `PromisedIsKeptAlways` drops the exemption and fails.

### PendingPackets

The queue of packets that could not be decrypted, shared by the messengers of an
identity, and the passes that retry them under a lock: save (with the attempts it read),
pass with its attempts, delivery, deferral, discard after three, eviction, forced passes,
`again` requests, and the removal of a channel.

A save is one action per await: it reads the row it may have (`SaveReads`) and writes it
with the new error (`SaveUpdates`), or reads the space used (`SaveSizes`), adds the
packet and so evicts the oldest (`SaveEnqueues`; `SaveFinds` if another messenger added
it first), reads the space again and reports what is missing (`SaveReports`). Steps of
other messengers, and a crash, come between any two. The report is a difference of two
readings (`pending-decryption.js:127-134`), so that an addition of another messenger in
between may hide the eviction, and a crash before it says nothing. `DeferredIsKept`
therefore excuses exactly these two: a save that another addition crossed (`crossed`)
and whose difference showed nothing, and a messenger that crashed with the report in
hand (`excused`). An eviction is otherwise reported or in the hands of a save under way.
Without the exceptions, `EvictionIsReported`, as README.md:258-259 reads, fails; no run
checks it. The run's plans combine an eviction with a second messenger and with a crash.

`Clear` is `clearChannel` (`index.js:3640-3655`) from its unwatch to the removal of the
rows: what the messenger had in its hands comes to nothing, and it is off until `Start`
adds the channel again. The other messenger's writes that cross it find no row
(`existingOnly`). All packets are of one channel and one size, so that an oversized
packet is left out, as are a storage that fails and chunk groups. `undone` marks packets
whose attempts a reception wrote back (`pending-decryption.js:111-113` against
`171-177`; README.md:265-266), and those evicted or cleared between the read and the
write of a failure (`Counting`): if such a packet is deferred anew before the write, its
count of one is overwritten by the older count, which the proof of `ThreeAttempts`
brought up. A request between the last test of `job.again` and the end of the job is
lost (`index.js:3812-3821`); plans offer it with `late = TRUE`, which the run's plans do
not, so `AllEnd` says nothing of it.

### DecryptionScheduler

One timer over the channels: quiet times, deadlines, batches of one channel, foreground
and priority. Its constants are the code's in small: quiet 1, wait 2, two in a row.

### StorageRegistry

`set` (policy and status of an identity's databases), `leases`, the `requests` for the
maintenance lock and what its holder is at (`hold`), `files`, and per instance its
channels, policy and what it applied; `life` is what is left of a behaviour's bounds.
Time is counted in heartbeats, a lease lives two. Opening, heartbeats, updates and their
broadcast, close, maintenance, deletion that fails and is retried, and crashes are
actions. Without Web Locks (`locks = FALSE`) `InUseKept` fails, as the code concedes by
serialising only within a page. `Named` exempts a heartbeat that crosses an update until
the next one (`index.js:746`, `885`); an instance that missed a broadcast is exempt from
`Reached`. `RegistryAssumption` gives the bounds their types. Left out: the retry delay
and counter, touches between heartbeats, the failure path of init.

### SendRace

One signed event to its receivers: `send` per publication its pending receivers, tried
relays, lanes (primary, fallback), publications under way, probes; `health` is the
circuit per relay. Sequential and early routing, mirrors, explicit relays, prepared
publications, re-signing and interruption are chosen by plan; `Continue` is the next
event or group of one publish, which starts with the relays the last one excluded
(`follows`). The mirror's acceptance
covers all receivers, as in the code. Cooldown levels and their expiry times, and the
limit of 256 circuits, are left out; whether a probe finds the network is free. What a
success and a final failure mean is stated in the module and proved (Proofs).

### SessionOutbox

The session's memory is one record, `mem`, which a crash replaces by `NoSession`; the
rows, the message store, the archive and the wire survive. Code between two awaits is
an operator from memory to memory, and an action runs from one await to the next. The
loops have a program counter each:

- local (`pumpLocal`, `saveEntry`): pass, checking, saving, writing, failing;
- remote (`pumpRemote`, `sendEntry`, `publish`): pass, checking, preparing, staging,
  transmitting, sending, accepted, failing, cancelling, dropping;
- worker (`journal.wake`): pass, checkpoint, waiting, archiving, forgetting;
- writes (`journal.write`): per entry one in flight and one waiting, shared by whoever
  asks before it starts, its snapshot taken then.

Around them: `Enqueue`/`PutCommits`/`PutFails`, `Cancel`, `Retry`, the two timers,
`Pause`/`Release` (network), `Lock`/`Unlock`/`Configured` (signer), `Close` and its
phases, `Crash` and `Restart`. Ghosts: `sent`, `acked`, `stored`, `archived`, `told`,
`dropped` are what the outside world saw; they guard nothing.

What it leaves out: entries carry no files; every peer stays and is prepared; entries
are visited in the order of their ids; offline sends and network urgency only decide
when a probe runs and are left to the fair timer; archive faults are recoverable ones;
`configure` succeeds; the inbox drain and downloads of the same file are other
components. A plan says what a behaviour offers, whether its mode keeps seeds, which
faults it may see and how many (`Plans`, `plan`).

### ReceivedChunks

The processors of one scope (the relay subscriptions of a session) and the chunk store
they share. `groups`, `order` and `usedBytes` are the object stores; each IndexedDB
transaction is an action, and `calls[p]` is where the handler of processor p stands
between two of them: `put`, `claim`, `read`, `lines`, `stop`, `release`, then `gather`,
`seed`, `deliver`, `finish` or `failed`. A processor handles one outer at a time, as
`subscribe` does; `ignored` is its in-memory set. A bundle is the list of the chunks its
rows end in, the reader's own row and how far the reader scans: a leecher stops at its
row, an own message and a seeder or watchtower read everything, a nym message is read
once complete. The drain token of a processor is its name, which becomes `Orphan` when
the page dies; a lease lapses as a fault while its drain lives and freely afterwards.
`order` is the relation "was updated before" between the stored groups, total at every
time (`TypeOK`); putOnce evicts the least set of oldest groups that makes room. Its
refusal after all evictions (`received-chunks.js:338-343`) is in `PutTooLarge`, and
`RoomIsMade` says that it is never reached. Plans give bundles whose rows follow one
another through their chunks (`InOrder`, as `preparedChunks` writes them), and nothing
else is assumed of them.

What it leaves out: chunks have one size, bundles end with a newline as `preparedChunks`
writes them, all outers of a group agree on total and descriptor (a router key is made
for one message), `claimDrain` may wake as soon as the lease is over rather than at the
time it computed, failing transactions other than quota, and the deferral of outers that
do not decrypt, which precedes the group.

### Sums

A run that carries the name of a side of the system (`relays`, `receiving`, `live`,
`services`, and `two_tabs`) explores several components at once. The components share
no variable, so their product would only multiply their states; instead the sum chooses
one of them in the initial state (`part`), the others rest in an initial state, and every
property and fairness condition is that of its component, guarded by `part`. A sum is
violated exactly when a component is. Where components do share state they are one
module: Messenger holds the inbox, the pauses and the passes of a channel together,
Connectivity the monitor and all who wait on it, RelayReads the pool under its
operations.

## Runs

| run | module and instance | shows |
|---|---|---|
| two_tabs | QueueReservations: 2 sessions, 1 key, 3 messages and tokens, clock to 3, late clock readings, up to 3 open deliveries; or 1 session with one open delivery, 2 keys, one of them keep-oldest, 3 versions | lease exclusivity, no lost message, exact bookkeeping, coalescing keeps what it should |
| interrupted | WebStorageQueue: 4 items, 2 interruptions; an application with removeAt, another with removeWhere and clear | atomicity, completion, no stray rows, refinement of Deque |
| sends | SessionOutbox, six plans, see below | the safety properties of the outbox |
| settles | SessionOutbox: an entry of two events, 1 fault of five kinds, fairness | every accepted intent settles |
| receiving | ReceivedChunks: 2 processors, bundles of 1 to 4 chunks, budget of 3, six plans; ChannelStates: 2 messengers, 2 channels, four plans; DecryptionScheduler: 2 channels, three plans | accounts, whole bundles, promised gaps, no overtaking, nobody undone |
| relays | ReadAdmission: 2 feeds, 1 live, 3 history reads, 3 slots, 1 history slot, 2 queued; RelayReads: 2 relays, up to 3 operations, six plans; RelayConnection: up to 3 calls, five offers | counters, connections and waiters agree; nobody waits for nothing; order |
| live | LiveReader: up to 2 relays, 3 events, 2 faults, six plans; WatchSession: 2 channels on a relay, up to 3 calls about them, three plans; Connectivity: five plans | nothing missed, no silent gap, everything resumes |
| messenger | Messenger: clock to 3, nine plans with a fault each | nothing forgotten, explicit pauses, everything recovered |
| services | HistoryRanges: 2 relays, a range of 3 seconds, seven plans; PendingPackets: 2 messengers, 2 packets, eleven budgets; StorageRegistry: 2 instances, four plans; SendRace: 2 receivers, 4 relays, up to 2 sends, nine plans | what is said to be covered, kept, accepted or failed is; everything ends, but for a range that waits for a trigger |
| renewed_lease | as two_tabs with exact clocks | violation: a renewed lease is not exclusive |
| interrupted_again | Messenger: two cuts, no other fault | violation: a second interruption is forgotten |
| partial_ack | SendRace: two receivers of different relays, one prepared publication | violation: success without the second receiver |

Why these bounds suffice for the questions asked.

- Queue: a clash needs two sessions, a lapse and a reused position, so three messages,
  three tokens and a clock of one lease and a half; sizes 1 and 2 make replacement change
  the byte count in both directions.
- Web storage: four items give a middle with neighbours on both sides, and two
  interruptions cut an operation and then its repair.
- Admission: two feeds and three slots make a feed wait beside a free slot, and a queue
  of two overflows.
- Connection: two calls of one event share, outlive and abort one another's job; a third,
  bulk one makes the queue; deadlines of 4 and 5 half seconds fall before and after a
  retry; two faults make a rate limit in the middle of a retry.
- Pool: two operations and a live reader reach the take-over of a dying connection; three
  faults let a relay refuse the first event, lose the answer of another and answer late.
- Live stream: two faults lose a relay again during its gap read, a capacity of two
  overflows with three events. Watches: two channels are enough to share a relay, two
  failures and a refusal to fail while the first gap is being saved.
- Messenger: three instants give a stored gap, a later checkpoint and live delivery after
  both. One fault each, because each fault already races with every await of the code;
  `interrupted_again` shows what the second cut does.
- History: three seconds with two events in one of them and pages of one put an edge
  inside a second. Packets, registry, states: two tabs, two packets or channels are what
  the transactions can interleave. Publication: two receivers, one shared primary, one
  fallback and one mirror, since coverage differs only by who reads which relay.
- Outbox: one entry meets all four loops, the second adds shared passes and writes;
  faults are few because each one multiplies the interleavings.
- Chunks: two processors are enough for a lapsed lease, a take-over and a late commit, two
  chunks for progress to go back over, a third group never adds a conflict beyond the
  eviction of the other one.

`sends` chooses a plan in its initial state: a remote message with any two of crash and
cancel, with any two of network pause, refused send and manual retry, or with one lock,
close or failing write; a context event with its message and one crash, pause or failing
write; a self message with any two of close, lock, failing admission, failing or blocked
local save and retry; a self message beside a remote one with one failing admission or
local save. The plans that close keep no recovery seeds, since a close loses them
(`close_while_archiving`), and the plans with a lock are exempt from the claim on
surfaced pauses (see *Seen while modelling*). `WebStorageQueue` chooses in the same way
which methods the application calls. removeAt and the operations that leave holes stay
apart, because together they break `CompletedInFull`: moveItem
(`web-storage-queue/index.js:323`) does nothing when its source is absent, so a removal
over a hole keeps the item that the hole should have overwritten. `Uses <- {{"push",
"shift", "removeAt", "removeWhere"}}` shows it.

The chunks of `receiving` choose among: a leecher whose row is in the first chunk, with any
two of lapse and expiry; one whose row spans both, with any two of crash, refused delivery,
deferred or failed decryption; a seeder with lapses, expiries and deferrals; an own message
with crashes and refused deliveries; a leecher beside a nym message over a short budget;
and a bundle larger than the budget beside another. `NothingDropped` exempts a drain that
starts over after a crash or a refusal where a leecher's drain had stopped: the stop
commits the row count but not the chunk (`received-chunks.js:493`), so line 0 comes back
as a later row, fails to parse, and the group is removed and ignored.

The newest message of a key is safe with one delivery open at a time, the way a session
drains its inbox. With two open deliveries of one key a nack may delete the newest in
favour of an older one, because it compares positions where coalescing has rewritten
them out of order (`idb-queue/index.js:942`); the second part of `two_tabs` with
`MaxHeld <- 2` shows it.

The configurations switch deadlock checking off: the models stop when messages, clock,
operations or requests are used up, as the program does when nobody calls it. What must
not stop is said by the liveness properties and by `QueueNeverStalls`,
`NobodyForgotten` and `LoopAlive`.

### Liveness and fairness

Faults are bounded by the plan, so liveness is stated as `<>[]`: once they are over,
everything settles and stays so. `SessionOutbox` states it per intent. Fairness is weak
and asks for no more than this:

- SessionOutbox: a suspended async function resumes, a transaction commits or aborts, both
  retry timers fire, the signer and the network come back, the application starts again
  after a crash. Nothing is assumed of users (no retry, no cancel).
- LiveReader: a relay answers or its timeout fires, an attempt goes on, the consumer reads,
  the network comes back.
- WatchSession: the handler of a relay goes on, a stream that opens gets live or
  reconnects.
- Connectivity: probes answer by their deadline, timers fire, jobs go on.
- Messenger: awaited work goes on, live events arrive, the consumer empties the inbox
  under capacity pressure, an application that crashed or closed starts and watches
  again, the network comes back. `AllRecovered` exempts a messenger whose inbox fills
  again and again: a refused pass starts its range over, so a range larger than the inbox
  never ends.
- HistoryRanges: a fetch answers or fails, lane and pass go on. Nothing triggers a range that waits without a timer.
- PendingPackets: an open messenger's pass goes on, a pause ends.
- StorageRegistry: lock requests are granted, heartbeats are punctual, time passes.
- SendRace: a publication answers or times out, a lane goes on, a probe answers.

The network's and the user's misbehaviour (failures, cuts, pauses, crashes) is never fair.

## What the code does otherwise than it says

Three runs end in a counterexample to a sentence of the repository; `findings` quotes each.
In short: `renew()` does not persist its deadline; a relay that is interrupted again
while its return is being saved is forgotten; a prepared publication counts one acceptance
for receivers who do not read that relay.

More disagreements have a configuration that is no run of the project, because the
project's runs go to what holds. Each ends in a violation:

| configuration | module | what it shows |
|---|---|---|
| SessionOutbox_close_while_archiving | MCSessionOutbox | a close while the archive waits marks seeds archived that are not (`session/index.js:182`) |
| SessionOutbox_write_fails_when_archived | MCSessionOutbox | a write that fails after the archive leaves an entry that nothing resumes (`publication-journal.js:69`) |
| ReceivedChunks_watchtower_in_order | MCReceivedChunks | a reader that scans the whole bundle loses the event of a row that a call before the completing one decrypted (`private-channel/index.js:1109`) |
| WatchSession_replaced_reader | MCWatchSession | replacing a reader (`private-message/index.js:410`, 468-554) ends an established one before the new one has taken over, against "Keep an established reader alive until private-message atomically replaces it" (`private-messenger/index.js:899-900`) |
| Connectivity_forgotten_watch | MCConnectivity | a recovery that is woken twice subscribes twice and forgets the first handle (`pause-recovery.js:40`), against "One cancellable job per cause." (:7) |
| SendRace_lost_report | MCSendRace | the report of an event whose signing failed never settles (`fallback-race.js:75-79`), against `session/README.md:244-245` |
| SendRace_closed_circuit | MCSendRace | a failure that comes late closes a circuit that is open (`publication-relay-health.js:66-73`), against `session/README.md:233-236` |

Seen while modelling, with a definition that says it and no configuration:
`DrainKeepsAccepted` (stopAndDrain with a full queue tears the stream down,
`relay-pool.js:913-930`, 978-986, against README.md:77-80; plan `Plan({"a"}, 3, 1,
{"drain"}, FALSE, 0, 0, TRUE)`), `ThreeAttemptsAlways`, `PromisedIsKeptAlways`,
`NamedAlways` and `PolicyReachesAll` (above, the exemptions); `RefusedStaysPending` (a
refused or dense range completes once the seeders are asked) and `EvictionIsReported`
(evictions that nobody reports), above as well. `OmittedRetained` under `Lives <-
OmittedLives` of MCStorageRegistry (an update writes back the fields it did not name, as
this page last saw them, `index.js:869-893`, against "omitted fields retain their
current persisted values", README.md:540). `PauseNeverSurfaces` under `Plans <-
LockPlans` of MCSessionOutbox (a lock followed quickly by an unlock surfaces a send
failure, `session/index.js:39`). And without one: a permanent exception at one event
gives up every relay of the range (`private-messenger/index.js:3616-3618`, against
`recovery-retry.js:33-34`; `thrown` in HistoryRanges); a wait of more than 2^31 ms
overflows setTimeout (`relay-pool.js:1088`); the first answer of a hedge wins even when
it is a failure (`private-messenger/index.js:3423-3444`), and a hedge that throws leaves
the first fetch unawaited (3429-3431); an internal storage failure with the reason of a
pause undoes a resume under way (1985-1988, 2011-2020); processedRanges are reused
within a second (3620-3630); a probe that began before a change of the network answers
for after it (`network/index.js:184`); urgency below two seconds may delay the telling
up to a minute; sequential routing records failures before it has confirmed that the
network is up (`send-routing.js:182`).

## Proofs

| theorem | module | says, for all constants that satisfy the assumptions |
|---|---|---|
| ShapeCorrect, LeasesAreExclusive, NoMessageIsLost | QueueReservationsProofs | the rows keep their shape; running leases are exclusive; no message is lost or revived |
| CountIsExact | QueueReservationsProofs | the persisted byte count is the sum of the rows, and the bounds hug them (`BookkeepingExact`) |
| CoalescingKeepsAMessage | QueueReservationsProofs | a key loses its last message only to an ack or a removal; `oldest` keeps the pending one |
| NewestIsNeverSuperseded | QueueReservationsProofs | with one delivery open and no delayed call, the newest message of a key outlives the older ones |
| CountersExact, CapacityHolds, NobodyIsForgotten | ReadAdmissionProofs | counters equal the leases out; limits hold; who waits is queued |
| NobodyWaitsForNothing, ServedInTurn | ReadAdmissionProofs | whoever is first in a queue really does not fit; first come, first served; a disconnect hands out nothing (the part of read admission in `QueueNeverStalls` and `ServedInOrder`) |
| WatchedOnlyWhileWanted, ExplicitPausesStay | MessengerProofs | a subscription lives only while its channel is watched and unpaused; only the application ends its own pause |
| DeferredStaysKept | RecoveryProofs | a packet whose deferral was confirmed is queued, or was delivered, evicted or cleared with its channel; an eviction is reported, but where another addition came between the two readings or the messenger crashed before the report |
| TriedThreeTimes | RecoveryProofs | where there are locks, no packet is tried more often with an invalid MAC than the limit says, by however many messengers, forced passes apart |
| SeedsSurvive | SessionOutboxProofs | the seeds of what was transmitted are archived or in the durable row |
| AlwaysHonest | SessionOutboxProofs | one envelope for an event; saved is shown only of what is stored and acknowledged; short of a lock no pause is reported as a failed send |
| IntentsSurvive | SessionOutboxProofs | a durable intent goes away only when it is done or was cancelled or blocked; once `cancel()` resolved nothing of it is sent and no row brings it back |
| WhatIsCoveredWasRead, WhatIsCompleteIsAccounted | RecoveryProofs | no relay is said to have covered a second of which an event was not taken in; when a range completes, what its relays hold was taken in, asked of the seeders, or is on a relay that was given up; and none is given up before a refusal, the failures that the least tier allows, or a pass that a permanent exception ended |
| SuccessIsCovered | ServicesProofs | a send that succeeded was accepted, for each receiver, by a relay it reads or by a mirror (prepared publications that mix relays apart) |
| FailuresAreFinal | ServicesProofs | a failure that nothing retries was the event's own, or left no route of a pending receiver untried |
| DatabasesInUseStay | ServicesProofs | with Web Locks, no step deletes the databases of an identity while an instance has them open |
| ChannelsStayNamed | ServicesProofs | with Web Locks, an open instance has a lease that has not run out and names its channels, but for the heartbeat that crossed an update |
| StoreStaysExact | ReceivedChunksProofs | the usage record is the size of what is stored and within the budget; evictions make room for every chunk whose group fits by itself; the progress of a group is that of exactly the chunks drained |
| WholeListIsReported, DrainsGoForward | ReceivedChunksProofs | a whole scan that completes has every recipient; no step takes the progress of a live group back |

None of these properties is inductive by itself. What each needs beside:

*The queue.* A row is found by position, and positions come back after the queue was
emptied or its tail removed. `IInv` adds that rows lie below the tail, that messages and
tokens not yet handed out are fresh, that no message is stored twice, that a row with
the token of a handle holds that handle's message, and that a lease still running is the
one in its row. Each action is an append, a deletion, a replacement in place or a change
of leases, and has a lemma. The byte count needs the sum over the rows: the sums of
`FiniteSetsExt` are folds, so `NaturalsLemmas` proves what a sum does when an element is
added, removed or changed, by a smallest counterexample under strict inclusion. The steps
of `CoalescingKeeps` follow from the same invariant, by what an append, a deletion and a
replacement leave of a key; the newest needs `DeliveryOrder` as well: the leased record is
the first of the queue and the messages of a key lie in the order of their versions. That
holds with one delivery open and calls that read the clock in their transaction: with two
deliveries, or a reserve that still takes a lapsed lease for a running one, a later record
may be leased while an earlier one is rewritten.

*Read admission.* Over all ledgers: counters equal the cardinality of the leases out,
queued requests are exactly the waiting ones, without repetition, and a ledger that the
map has dropped is idle. `drain` grants a prefix of the queue; its lemmas are about any
prefix that fits. Where it stops, the next does not fit, and what an enqueue, a
cancellation and a drain do to the order of two readers gives the turns.

*The messenger.* Who may bring a subscription to life is spread over a watch call, its
job and a resume, each suspended somewhere. The invariant says what holds of each at
each of its awaits: while the channel is paused or closed, every one of them will find
that out before it subscribes. The pause is then an action property: of the actions that
change the reasons, only the application's own resume takes its reason away, whatever a
resume under way saw before its last await.

*Pending packets.* `Kept` is what must not vanish: queued packets and those with an end
of their own. A pass works on the queue it once read and a save on the attempts it once
read, so `MsgrOK` relates what every messenger holds in its hands to the queue at each
step. Since a report is made some steps after its eviction, `Reports` says of a save
between its two readings that, unless another messenger's addition crossed it, the space
used now is at most what it read first, and less than that plus its own packet once it
evicted one, so that the difference shows: every other step of another messenger
shortens the queue or leaves its length. The theorem assumes `Room >= 1`: a queue
without room evicts what it just took. For the attempts `TurnOK` says of each messenger
that it holds the lock while it is at an item, that an unforced pass there found
attempts left, and that the count it read for a failure is the one stored; `CountOK`
that what was tried is at most the stored count. A step of another messenger is then a
save (`Stays`): it keeps the counts, stores a new item with one attempt at most, or
marks the packet `undone`. It assumes a limit of two or more (the code's is three), that
`Nothing` is no messenger, and that budgets are records.

*The outbox.* The invariant follows an entry through the four places it can be: the
session's memory, the snapshot on its way to the row, the row, and the archive. Most of
the code moves no packet (`Mild`); the lemmas about the few operators that do, staging,
sending, archiving, forgetting, removing and reloading, carry the proof. It holds of every
plan; only what it says of seeds (`Keeps`) asks that the mode keeps seeds and that nothing
closes the session, since `close_while_archiving` is a counterexample there. Its other
parts: `Right`, what an entry, a snapshot or a row says of itself is so (what lies before
its index was acknowledged, saved is stored and acknowledged); `Kept`, whatever of an entry
is on the wire is behind its index or the event of its packet, so that the event it sends
next is wrapped for the first time or was wrapped before, which gives one envelope, also
when the process comes back with an older row; `CancelOK`, a cancel reaches the memory
before the snapshot and the snapshot before the row, so a row written late never revives
an entry; `AdmissionOK`, before its first row is written an entry is worked on only as an
unadmitted self entry; and `PauseOK`, only a cancel, a close or a lock aborts a send.

*History.* A read pages backwards, so an unfull page must be all there is, which is a
count of the events newer than its end. The invariant says that of a read's request no
second is lost: it is covered by a read, on the stack of intervals still to be read, or
reported as missing; that what a relay record calls covered was taken in; that the main
pass reads exactly what the relays owe; and that a relay's attempts never exceed the
passes that failed on it, or that an exception gave it up. Intervals are proved to be
the maximal runs of the set of seconds they came from, with nothing assumed about the
size of the range.

*Publication.* A receiver leaves `pending` when a publication that covers it is
accepted, and a publication goes on while the send has ended, is re-signed or is
replaced. `SendOK` says that the publications of a send share no relay, that whoever is
no longer pending has an acceptance of a relay it may read (`Accounted`), that a batch
in the hands of a lane is for receivers that read its relays, and that one being
re-signed has no answer that counts. The failure asks for more, since it depends on why
each lane stopped: `FinalInv` adds that a lane is over only when the send was stopped or
every route it could take was tried or is shut (`RacesOK`), and that the sends of one
publish share their exclusions and whether they are live (`Together1`). That a lane
never stops early is a fact about routing: while a pending receiver has a relay left,
the next batch is not empty (`PicksExist`; a relay that most receivers share exists
because there are finitely many). Both assume `RaceAssumption`: finitely many relays and
receivers, thresholds of at least one, and routes made of relays.

*The storage registry.* An instance may wait for the lock while its lease runs out: it
is the order of the requests that saves it. `RequestsOK` says that they stand in the
order of their times, none older than one heartbeat; `LeaseOK`, for every request in the
queue, that the lease of whoever is present lasts at the time of that request, or its
renewal stands before it. When a maintenance comes to be first, nothing stands before
it, so every lease of somebody present lasts: one that finds no lease finds nobody
(`HoldOK`), and who comes while it deletes waits behind it. Times matter as much as
order: a request carries the time it was made at, and a later one may be granted only
after it. `ChannelsOK` follows a change of channels from the update to the request that
writes it, and says that a heartbeat which did not cross the update stands before that
request. Without Web Locks the requests of two pages have no common order, so the
theorems assume `locks` of every behaviour (`InUseKept` fails there).

*Received chunks.* A drain works on the record it read, and what it reads between two
commits is only in its memory. The invariant says that whoever holds a group's token is at
a draining step of that group, with the progress its record has; that in the middle of a
chunk a reader of everything has counted the rows up to where it stands, and no row that
ends later; and that a processor which lost its token writes nothing. Since the rows of a
bundle are in order, "no line left in this chunk" then gives the count for the next one,
and after the last chunk all of them. The usage is the sum over all groups, as in the
queue. Deleting the oldest groups one after another ends in a least set, which exists by
the smallest-subset lemma; if nothing else is left the chunk's own group fits.

`tlapm` needs the definitions of TLC's run and no others: the theorems about
BookkeepingExact, LeaseExclusive, NoLostMessage, LedgerExact, NobodyForgotten,
ExplicitPauseHolds, DeferredIsKept, ThreeAttempts, SeedRecoverable, OutboxHonest,
IntentsKept, CoveredIsRead, RangeIsAccounted, CoverageIsReal, FailureIsFinal, Named,
InUseKept and StoreExact are about the very definitions that the configurations name.

Only model-checked, and why:

- liveness (`EveryIntentSettles`, `AllResume`, `AllRecovered`, `AllEnd`), which the prover
  cannot state over fairness;
- `Durable` and `ImplementsDeque` of WebStorageQueue: an operation is a fold over a script
  of writes, and what a fold computes for every script is induction over data;
- `NothingForgotten` and `MissedIsPending`, which hold of the plans of their runs and not
  of every plan: with a skew of one and two pauses an event falls between two windows, and
  a second cut is forgotten (`interrupted_again`);
- the remaining safety properties: the rest of `BundlesDelivered`, and those of
  ChannelStates, DecryptionScheduler, RelayReads, RelayConnection, LiveReader,
  WatchSession and Connectivity. They are within reach, and not attempted yet.

## Not modelled

- `private-messenger/file`: a cache of verified pieces and their download; its state is
  content, and no modelled component reads it.
- `private-messenger/recovery` and `event-store`: the archive is the set of seeds that
  SessionOutbox sees; building and reading backups is data.
- `nip46`: a subsystem of its own beside the messenger, with a request table and retries.
  The first candidate for another module.
- The session's `foreground-work`, `peer-preparation` and prepared state: their promises
  are what SessionOutbox waits for.
- `idb-queue`'s positional edits, unique indexes, eviction and `items()`; the byte limit
  of `web-storage-queue`.
- In the messenger: asks and tells, iterators over messages, several channels over one
  inbox beyond what capacity shows, failing writes of the state store in Messenger (they
  are in ChannelStates), clocks of senders in the future.
- AUTH on a connection, feeds that merge live streams, HLL merging.
- `idb`, `temporary-storage`, the semaphore, encodings, cryptography, formats, HTTP helpers,
  build and benchmark: nothing interleaves, or pure data.

## Plan

1. Proofs: for RelayConnection, ChannelStates and LiveReader what their runs check.
2. `nip46`, client and server: duplicate and late answers, reconnects.
3. `IdbQueue`: positional operations, unique indexes, eviction and `items()`, refining
   `Deque` as WebStorageQueue does.
4. SessionOutbox with peers that leave and offline sends.
