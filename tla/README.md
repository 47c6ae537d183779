# polykit-rust in TLA+

This directory models polykit-rust: the synchronisation core `polybase`
(session, sync, offline queue, key-value store, realtime, storage, registry),
its SQLite backend, its Tauri plugin, and the parts of `polylog` and
`polysym-build` that keep state. A line such as `auth.rs:290` means
`src/crates/polybase/src/auth.rs`, line 290. Crates other than `polybase` are
named.

- `*.tla` without a prefix: components and their properties
- `MC*.tla`, `MC*.cfg`: finite instances for TLC
- `*Proofs.tla`: theorems, checked by TLAPS
- `PROJECT.json`: the runs, the mutants, the source lines each definition
  stands for, the hazards, the disagreements found, and the theorems

## 1. Inventory

### 1.1 Components

| Component | State it keeps | Operations | What makes it correct |
|---|---|---|---|
| Contract (`contract.rs`) | none | reconcile decision, finalize of a queue, version arithmetic | finalize drops only what was replayed; equal versions mean equal rows |
| Offline queue (`offline_queue/mod.rs`) | operations, one for a (table, id) | enqueue, snapshot, finalize, clear | nothing accepted is lost; retry_count counts |
| SqliteOfflineQueue (`polybase-sqlite/src/queue.rs`) | a table of rows | the same, finalize in two steps | the same, and replay in stamp order |
| FileBackedQueue (`tauri-plugin-polybase/src/queue_store.rs`) | a cache and one JSON file | the same, each rewriting the file | acknowledged means durable; the cache never resurrects or forgets |
| SessionStore (`auth.rs`) | session, watermark, mutation lock, refresh slot, cooldown | set, clear, ensure_fresh, force_refresh, identity checks | one refresh at a time, every caller answered, hooks follow the session, stale work is recognised |
| Coordinator (`sync/coordinator.rs`) | none of its own | persist_change, delete, reconcile_plan_for, apply_remote_record | an acknowledged write reaches the server or the queue, and is announced |
| Push, pull, remote and edge clients (`sync/push.rs`, `pull.rs`, `remote.rs`, `edge.rs`) | none | one request each, and the class of its answer | transient failures retried, permanent ones reported, the paths agree |
| Echo tracker (`sync/echo.rs`) | time of the last push of a row | mark, ask, vacuum, clear | an own event is not applied |
| Reconcile (`sync/reconcile.rs`) | none | make_plan | repeated rounds converge |
| Key-value store (`kvs.rs`) | none (rows in the mirror) | get, set, delete, subscribe | versions grow; a deletion is final until the next set |
| Scheduler (`sync/reducer.rs`) | gates (connected, signed in, processing), `has_pending`, consecutive failures | one event at a time | no queued operation forgotten, no run without its gates |
| DbManager and SqliteLocalStore (`polybase-sqlite/src/manager.rs`, `store.rs`) | the pool of the active user's file | switch_user, wipe, row access | nobody reaches another user's rows |
| Realtime (`realtime/mod.rs`) | handle, socket, pending replies, change channel, failure count | subscribe, unsubscribe, reconnect, heartbeat, probe | a dead connection is noticed and replaced, a stopped one stays stopped, what is missed is bounded |
| Event bus and its receivers (`events.rs`, plugin `events.rs`, `kvs.rs`) | bounded broadcast channels | publish, forward, relay | lag is noticed and survived |
| Plugin shell (`lib.rs`, `commands.rs`, `session_store.rs`) | the handles of the runtime, hook, keychain entry | configure, attach, commands of the front end | handles of two configurations never mix |
| Storage (`storage.rs`) | objects, at the server | upload, download, delete | only those who may read it get a text in the clear |
| Encryption (`encryption.rs`) and encrypted columns (`registry/mod.rs`) | none; the values on their way | encrypt, decrypt, serialize | sealed once, on every path |
| Registry and drift check (`registry/mod.rs`, `schema.rs`) | three maps | register, look up, validate | a check that passes means that writes fit |
| `polylog` | INITIALIZED, the shared level, the file's queue | install, log, override | one logger; an override restores what it found; the file is flushed |
| `polysym-build` | OUT_DIR, committed icons, their manifest | one build, one refresh | a build that does not warn may be committed |
| `client.rs`, `persistence.rs`, `polysym` | none that changes | configuration, traits, a table | not stateful |

### 1.2 How they interact

A write enters through `Kvs::set` or `Coordinator::persist_change`. The
coordinator writes the local mirror, marks the echo tracker and awaits a
request. A transient failure is stamped and given to the `OfflineQueue`; the
host replays snapshots of that queue and finalizes them. The server publishes
the change to every device's realtime socket; the echo tracker suppresses the
own event and the host applies the others with `apply_remote_record`. The host
also runs reconcile rounds: local versions, `reconcile_plan_for`, then the
pulls and pushes of the plan. A regression reported by the server becomes an
event that asks the host for a pull. Every request takes its token from
`SessionStore`, whose hooks switch the database and the queue to the active
user, in tasks the plugin spawns (plugin `commands.rs:166`). The scheduler
decides when the host replays. The plugin's `configure` builds client,
coordinator, encryption and session store once or several times; each command
takes what it needs from them under one lock and goes on without it. What
happened is published on the event bus, from which the plugin forwards it to
the front end.

### 1.3 What is hard

- Everything is `async`: between two awaits any other task may run, and a
  caller may drop a future in any await.
- `SessionStore` has two locks and a watch channel that depend on each other.
- `finalize_after_processing` receives a snapshot that is out of date.
- The SQLite queue decides what to delete outside its transaction; the file
  queue is a cache over a file that is rewritten in place.
- The version of a write is read an await before it is written, and rows are
  applied an await after they were fetched.
- Requests, answers and events are lost, and a lost answer is retried.
- Four tasks of one realtime connection, a supervisor and an unsubscribe that
  gives up waiting end in any order.
- The session changes before the database does, and the tasks that follow it
  are not ordered.
- A build of icons leaves files that the next one takes for its own.

The complete list, each entry at its line, is `hazards` in `PROJECT.json`.

## 2. Modules

```
Contract --- QueueClients --+-- MemoryQueue --- MemoryQueueProofs
   |             |          +-- SqliteQueue --+-- PersistentQueueProofs
   |        (Promise)       +-- FileQueue ----+
   |             |                  | (OnDisk)
   |        OfflineQueue -----------+
   |                              QueueClientsProofs (lemmas of the first two)
   +--- RowSync --- RowSyncProofs
   +--- Scheduler --- SchedulerProofs    SessionStore --- SessionStoreProofs
            |
   MCScheduler                           UserPartition -- MCUserPartition
            |                                                   |
        Connection --+-- TransportProofs                   MCLibraries
        Realtime ----+                                          |
                   Encryption --+-- Bucket  --------------------+
                                +-- Columns --------------------+
                   EventBus, Backoff, Writes, Registry, --------+
                   Remote, Runtime, Logger, Symbols

   LibraryProofs: UserPartition and all the machines of MCLibraries
```

### 2.1 Queues, session and row

**Contract** -- the pure functions of `contract.rs` the others call.
`FinalizeQueueAfterProcessing` is the code's double loop as sets of full keys
(table, id, stamp).

**OfflineQueue** -- the abstract queue: what the trait's text promises,
independent of any store. An operation may leave only because it was delivered
or because a newer one replaced it.

**QueueClients** -- everything around a store: tasks that stamp an operation
and enqueue it later, and the host's replay loops (snapshot, one outcome for
each operation, finalize). A task reads the wall clock while it builds the
operation and waits for the queue's lock afterwards, hence two steps (`Stamp`,
then the store's `Enqueue`). `Slip` says how far a reading may fall behind the
last one; `Slip = 0` means readings strictly increase. `delivered`,
`superseded`, `failures` and the field `after` of an operation are history.

**MemoryQueue, SqliteQueue, FileQueue** -- the stores. A `VecDeque` with one
entry for a key is a set of operations with arrival numbers. MemoryQueue's
finalize is one step (one lock). SqliteQueue's is two: `ReadCurrent` reads the
rows, `CommitFinalize` deletes and bumps by full key; `Restart` loses tasks and
replays and keeps rows. In FileQueue the cache is loaded before the lock is
taken (`EnqueueLoad`, `FinalizeLoad`), the change and the flush happen under it,
and the flush is a truncation (`FlushTruncate`) and a write (`FlushWrite`);
`FlushFails` and `Crash` may happen in between. `harm` is history: whether a
write has failed since the last good one, and whether the process then died.
`OnDisk` is the abstract queue over the file: an enqueue or a finalize takes
effect when its flush truncates the file (`Committed`), and `DurableSpec` is the
module without failing writes and without a crash in a write.

**SessionStore** -- one action for each stretch between two awaits of
`refresh_if_needed`, `perform_refresh`, `set_session` and `clear_session`. `pc`
is the place in the code, `hand` the local variables. `mutation` is the
`mutation_lock`. The lock of `refresh_in_flight` is held exactly by waiting
callers (`SlotFree`): the guard in the head of the `if let` lives as long as
its body. `Troubles` selects what else may happen in an instance: a sign-out, a
refused token, a request without an answer, a dropped future.

**RowSync** -- one row on several devices and the server. Rows never meet in
this code, so one is enough, and the queue appears as the operation it holds
for the row. `call` says where each writer, replay and reconcile round is and
which row it carries. The server (`Serve`, `Verdict`) is external; `Guarded`
says whether the table has the trigger `guard_version_regression`, which
rejects regressions, equal versions and undeletes below the contract's step.
The table of the key-value store has none in the migration the repository
shows, tables that follow the contract have it.

### 2.2 Scheduling, database and realtime

**Scheduler** -- the reducer's six handlers as operators that yield the next
state and the delay of the replay asked for, and the host (external) with the
queue, one timer and one replay. What happens and its report are two steps: an
operation is queued before it is announced, the network is back before the
event says so, and a replay may look at the queue (`outcome.left`) some time
before it reports. `slipped` is history: announcements that such a report
overwrote (`reducer.rs:145`).

**UserPartition** -- whose database the app writes to. A change of the
session's user spawns a task with a number (`spawned`, `tasks`); any task may be
the next to take the manager's write lock (`switching`), forget the user,
remove the other's directory, open the new one, fail at either. A command
reads the session, takes the pool, and runs its statement, in three steps. A
row is its owner. `kept` is history: whose directory outlived a failure or a
restart.

**Realtime** -- subscribe, unsubscribe, and the supervisors, of which an
unsubscribe that gives up after three seconds may leave one running beside the
next. `Step` moves a supervisor from await to await: refresh, connect, run,
sleep. The server's changes go over `wire` into the bounded `buffer`; the host
reads the tables at each lifecycle event and otherwise lives on the changes.
**Connection** is one connection from its opening to `run`'s return: reader,
writer, heartbeat and probe, the tracker of unanswered questions, and the
supervisor's select. In Realtime a connection that has died is `lost` until it
is given up; Connection shows that it is. **Backoff** is the delay between two
attempts, in milliseconds, with saturation and jitter.

### 2.3 What one value or one write meets

**Writes** -- one write after it has reached the mirror, on both paths
(PostgREST and edge function), with every class of answer, the error made of
it, what is enqueued, announced or told, and its replay. Statuses and texts are
classes: what the code looks for in a body is a field.

**Encryption** -- a text under layers of sealing, each with the key of a user
and a secret. A plain text may itself look sealed. **Columns** takes one
encrypted column through frontend, mirror, queue, server and another device,
under secrets that change. **Bucket** does the same with an object of a storage
bucket and the sessions of several users.

**EventBus** -- a broadcast channel that keeps its last events, the plugin's
forwarder and the relay of `Kvs::subscribe` with a bounded channel of its own.

**Registry** -- registration in the three maps, what a serialised record and a
tombstone consist of, and the drift check against schemas that differ from what
they should be in one place. **Remote** -- the exported PostgREST writer with
batches and echo marks against a table with the trigger, and the filters of the
PostgREST reader next to those of the memory reader that tests use.

### 2.4 Shell and tools

**Runtime** -- the plugin's handles. A handle is known by the number of the
`configure` that built it; a command takes its handles in one step and runs
later.

**Logger** -- `install` in several threads up to the points where it may fail,
the builder's target overrides, the shared level with overrides of several
threads, and the lines that reach console and file, whose queue may be full.

**Symbols** -- one action for a build, with any subset of symbols drawn and any
subset of copies failing; OUT_DIR, the committed icons and the manifest outlive
it. An icon is who drew it and at which size.

### 2.5 Instances

`MC*` modules declare model values, symmetry and writer sets. Three of them check
several machines in one run: `MCQueues` (MemoryQueue and SqliteQueue, in the same
variables, with `store` saying which one the clients have), `MCScheduler`
(Scheduler and Connection, both with liveness) and `MCLibraries` (eleven
machines, safety). The machines of the last two share no state, so their
product would only multiply states; a variable `machine` says which of them a
behaviour is about and the others stand still. Each machine is the whole
specification of its module, and the states of the run are the sum of theirs.
In `MCScheduler` the fairness of a machine is assumed in its behaviours only.

Operators marked "Mutant" state a plausible bug of the definition that follows
them. They belong to no specification: each property is known to fail when its
mutant takes the definition's place (`mutants` in `PROJECT.json`).

## 3. Runs

| Run | Question | Answer |
|---|---|---|
| `queues` | Do the in-memory queue, and the SQLite queue with its read before the transaction and restarts, keep the trait's promise with overlapping tasks and replays? Is replay in causal order? | yes, if stamps differ |
| `file` | Is what `enqueue` acknowledged in the file; held while the process lives; does nothing finished come back? Is the file alone a queue as the trait promises it? | yes, as far as no write fails or dies half-way, see below |
| `session` | Do hook and slot follow the session under every trouble, and what does `is_session_valid` tell? | yes; whether somebody is signed in |
| `session_returns` | Is there one leader, does every `ensure_fresh` return, when the host never signs out? | yes, unless the leader's future was dropped |
| `session_sign_out` | And with a sign-out? | no: deadlock |
| `session_switch` | Does the check cancel a task that began under another user? | no |
| `sync` | Is an acknowledged write kept, an own event suppressed, do all copies converge? | yes, unless two writes have one version |
| `sync_skip` | Does Skip mean agreement? | no |
| `scheduler` | Is no operation forgotten and the queue emptied in the end? Is a dead connection noticed and a live one kept? | yes, but for an announcement that a report overwrites |
| `realtime` | Does exactly one supervisor go on, does it stop when told and recover when not? What may be missed? | yes; changes before the join, and past a full channel |
| `libraries` | Eleven questions, one for each machine, see below | yes, with the exceptions each property states |
| `partition_rows` | Is each row in its owner's file? | no: a write that overlaps an account switch is not |

The properties and why they can fail:

- `Promised` (memory and SQLite queues): every step of store and clients is a
  step of the abstract queue. A finalize that compared keys only would drop an
  operation enqueued during the replay.
- `RetriesCountFailures`: relates a field in the store with the history of
  every replay loop, overlapping ones included.
- `ReplayOrderIsCausal` (both queues): what was queued when an operation was stamped is
  replayed before it. It needs two tasks and a replaced row to go wrong.
- `AckedOnDisk`, `AckedHeld`, `NoneComesBack`: relate what a caller was told to
  the cache and the file, across failing writes and restarts. `AckedOnDisk` is
  stated for histories in which no write failed since the last good one and
  the process did not die in a write; `AckedHeld` for those in which it did not
  die; `NoneComesBack` for all.
- `CommitsKeepPromise` (file queue): from wherever cache and file agree
  (`DurableInv`), every call, every flush that is spared and every crash outside
  a write is a step of the abstract queue or commits nothing, and they agree
  again; and after any history of failed writes and crashes the next write that
  succeeds makes them agree. An enqueue that appended instead of replacing, or a
  finalize that worked on its snapshot instead of the deque, breaks it.
- `HookFollowsSession`, `SlotIsLive`, `OneLeader`: relate session, hook, slot,
  and several callers' places. `EveryCallReturns` adds that nobody waits for
  ever, but for the waiters of a leader whose future was dropped (`Abandoned`);
  in its run futures are dropped at every await.
- `OnlySignedOutCancels`: the check a task makes before it publishes, with `>=`
  against the watermark it captured, says no exactly while nobody is signed in,
  through sign-ins, switches and refreshes. A session installed under an old
  stamp would cancel work that is still its user's. What the comment at the code
  promises beyond that, and what does not hold, is `ValidMeansSameUser`.
- `OkIsKept`: for a write (not a deletion: the `PATCH` of a row the server does
  not have succeeds and stores nothing) acknowledged with `Ok`, the server has
  its version or a newer one, or the queue holds it.
- `Converges`: `<>[]`, whatever was lost on the way. Excluded are histories in
  which two writes were given one version, which `sync_skip` is about.
- `NoStranding`, `Drains`: an idle scheduler with open gates has a timer
  whenever something announced is queued, and the queue is empty in the end if
  the app stays connected and signed in. Both leave out exactly the histories
  in which a report overwrote an announcement. `NoParallelDrain`: no event that
  arrives during a replay schedules another.
- `DeathNoticed`, `NoFalseAlarm`: the two sides of a timeout. Either of reader
  and writer may end without a word, and a reply may come between the question
  and the look at the tracker.
- `HandleIsTruth`, `Stops`, `Recovers`, `NothingElseMissed`: the host's handle
  and what supervisors do, over unsubscribes that did not wait to the end; and
  an exact account of what a subscriber may miss.
- `PoolIsActiveUsers`, `OthersWiped`, `MirrorFollowsHook`: no interleaving of
  switches, failures and restarts hands out a pool of somebody else, leaves
  somebody's directory, or loses the user, except where `kept` and the order of
  tasks say so. `RowsInOwnersFile` is what users need and does not hold.
- `ConsumerInformed`: of two bounded channels in a row, the second never hides a
  change. `Paced`: delays never shrink before a connection was made, and there
  is no attempt without a pause.
- `BucketKeeps`: a text in the clear is only seen by its author unless it was
  uploaded so, and comes back as it was. `SealedOnce`: whatever order of
  secrets, replays and pulls, one layer and not zero.
- `WritesSettle`: a set or delete reported done is at the server or older than
  what is, or was the deletion of a row the server did not have; none is lost
  without an error; a regression is told; announcements follow.
- `RegistryKeeps`: if the check passes, what serialisation sends has its columns
  at the server and what is applied has them in the mirror, whichever single
  drift there is; and the three values of a tombstone, which goes round
  serialisation, have the types of the registered columns at the server, but for
  exactly those registered with another type (`Misfits`). The check compares a
  column's `sql_type` with the mirror and its `remote_type` with the server; a
  tombstone's `updated_at` follows the first of them. `RemoteKeeps`: an outcome tells what
  the table holds, what realtime will bring back is marked, and tests on the
  memory reader see what PostgREST would return, where that is true.
- `RuntimeKeeps`: one session store, a secret only with its own bucket's
  configuration, a coordinator that is whole. `LoggerKeeps`: one logger;
  overrides that nest restore; the most specific target decides; the guard
  flushes. `SymbolsKeep`: a quiet build may be committed, and a manifest entry
  was drawn at its size.

Type invariants are parts of the inductive invariants, which are theorems
(section 4). The runs `sync` and `realtime` check the inductive invariants of
theirs as well (`RowInv`, `StreamInv`), with the bounds of versions and of the
change channel in them: an invariant that is true of a small instance is worth
the attempt to prove it of all.

### 3.1 Bounds

- Queues: two keys, two tasks, two replay loops, three operations (two for the
  file), three clock readings, one failure for each operation. Two keys are
  needed for order, two tasks for enqueues opposite to their stamps, two loops
  for overlapping finalizes; three operations allow a replacement while another
  replay holds the replaced one. The clock readings equal the number of
  operations.
- Sessions: two or three callers (a leader, one that waits, one that comes in
  between), one host process, two users where identity matters, two tokens
  (the first and the one after a sign-in; refreshes issue one more for each
  caller). In `session` one caller forces its refresh and the others do not
  (symmetry exchanges the others).
- Rows: two devices, a writer on one of them (`sync`) or on both, two writes,
  two faults. Two faults are what a failing replay takes: one for the
  write, one for the replay. With two writes the server never holds a tombstone
  that is set again, so the trigger's rejection of an undelete (`Verdict`,
  "rejected") is out of `sync`'s bounds.
- `LateEcho = FALSE`: an own event arrives within the five seconds of the echo
  window. The code cannot guarantee it, and `NoOwnEcho` is a claim about that
  window only; `Converges` does not depend on it.
- Scheduler: two operations (one announced while the replay of the other
  runs), two changes of network or session (off and on again), two failing
  replays (the ladder's second rung), one restart.
- Realtime: two subscriptions (an old supervisor beside a new one), two changes
  over a channel of one (one is dropped), two deaths and one trouble.
- Partition: two users, two commands, three changes of user (so that two
  unordered switches follow a first), one failure, one restart.
- The other libraries: a bus of two events and a relay of one under five events;
  two secrets; a row that is missing, or of three versions with ours in the
  middle; two rows and two versions; five configurations beside the key-value
  store's, four of them for one table and two of these with a tombstone that does
  not fit; two installers, two builders whose
  overrides depend on their order, one of them with an override for the bridge,
  events of four targets, three of them nested; two symbols, one with two sizes and a
  fallback.

Runs stop when the bounds are used up, so all of them set
`CHECK_DEADLOCK FALSE`; the deadlock of the session store is found by
`EveryCallReturns` instead. Symmetry is used for safety only (`libraries` has
one action property, which speaks of a machine without symmetric values).

### 3.2 Fairness

- `SessionStore!FairSpec`: a call that has begun is driven on. The runtime
  polls its tasks, the auth server answers or the connection fails, tokio's
  mutexes are first-come first-served (strong fairness, because another process
  may take the lock in between). Nothing obliges the host to start a call, and
  nothing makes a token expire. A request that is never answered is not in the
  model: `auth.rs:388` sets no timeout, and nothing could be promised.
- `RowSync!FairSpec`: calls go on, the host replays and reconciles again and
  again, events are delivered. Weak fairness of each process is enough because
  nobody disables another's step. Writes and faults are not fair; whether the
  echo window has expired is a choice within the delivery of an event.
- `Scheduler!Fairness`: the host reports what happened, and runs the replays it
  scheduled and ends them. Network, session and new operations owe nothing,
  nor does an answering server fail for ever (`MaxTroubles`).
- `Connection!ConnFairness`: tasks are polled and their timers fire; replies of
  a live server arrive. The probe is only owed once the socket is dead, when
  silence is certain.
- `Realtime!Fairness`: a supervisor goes on from each of its awaits. Two of them
  have no limit in the code, refresh and connect; a call that hangs there is
  not in the model.

## 4. Proofs

Every safety invariant and every action property that a passing run checks is
also proved by TLAPS, for every value of the constants. Below, an assumption is
named where a theorem has one beyond the named ASSUMEs of the modules.

Of the queues, for every set of keys, tasks and replay loops, every bound and
every `Slip`, however far the clock may fall back:

| Theorem | States | if |
|---|---|---|
| `MemoryQueueProofs!Invariance`, `PersistentQueueProofs!Invariance` | the inductive invariant, in memory and in SQLite | |
| `...!TypeCorrect` | `TypeOK`, with at most one operation for a key | |
| `...!OnlyReplayedLeave` | `LeavesForAReason`: an operation leaves the queue because it was replaced or because one of its key and stamp was delivered | |
| `...!RetriesCorrect` | `RetriesCountFailures` | stamps differ |
| `...!Refinement` | the queue implements `OfflineQueue!ASpec` (`Promised`) | stamps differ |
| `...!ClockTellsApart` | stamps differ (`StampsDiffer`) | `Slip = 0` |
| `PersistentQueueProofs!ReplayCausal` | `ReplayOrderIsCausal` | `Slip = 0` |
| `PersistentQueueProofs!FileShapeKept` | the file queue's inductive invariant, `FileTypeOK` included | |
| `...!FinishedStaysOut` | `NoneComesBack` | |
| `...!FileInvariant` | what cache, file and flush owe to an acknowledged operation (`FileAccounts`) | stamps differ |
| `...!AckedStaysOnDisk`, `!AckedStaysHeld` | `AckedOnDisk`, `AckedHeld` | stamps differ |
| `...!CommitsKept` | `CommitsKeepPromise` | stamps differ |
| `...!FileRefinement` | without failing writes, the file implements `OfflineQueue!ASpec` (`PromisedOnDisk`, for `DurableSpec`) | stamps differ |
| `...!FileClockTellsApart` | stamps differ (`FileStampsDiffer`) | `Slip = 0` |

"Stamps differ" is the hypothesis `[]StampsDiffer` (of the file `[]FileStampsDiffer`)
of a behaviour: whenever two operations that a queue, a file, a snapshot or a
pending commit still knows have one key and one stamp, they are the same
operation. It is all the stores need, and weaker than a clock that strictly
increases: readings may repeat or fall back between operations of different
keys, and even of one key once the older is forgotten. The coordinator does not
provide even this (section 5); it would have to take stamps from
`next_queued_at_micros`. `LeavesForAReason` is what remains without it: the
operation that leaves may be another one of the same key and stamp than the
delivered one, and nothing else makes an operation leave. Only the replay order
takes the clock itself. The runs stay at `Slip = 0`, where the hypothesis holds of
every behaviour; the theorems are what covers the others.

Of the session store, for all sets of callers, hosts, tasks and users and
every set of `Troubles`:

| Theorem of `SessionStoreProofs` | States |
|---|---|
| `Invariance` | the inductive invariant |
| `TypeCorrect` | `TypeOK`, with `mutation` held exactly where the code holds the lock |
| `HookCorrect` | `HookFollowsSession` |
| `SlotCorrect` | `SlotIsLive` |
| `CheckTellsPresence` | `OnlySignedOutCancels` |
| `LeaderAlone` | `OneLeader`, if `Troubles` has neither sign-out nor refusal |

Of one row, for every set of devices and writers and every number of writes and
faults:

| Theorem of `RowSyncProofs` | States |
|---|---|
| `RowInvariant` | the inductive invariant |
| `RowTypeCorrect` | `TypeOK` |
| `OwnEchoSuppressed` | `NoOwnEcho`, if no event is later than the echo window (`~LateEcho`) |
| `OkKept` | `OkIsKept`, if the table is `Guarded` |

Without the trigger `OkIsKept` is not so: the server may take an older row over
the one that was acknowledged, from a replay of another device. The run `sync`
therefore has a guarded table too.

Of scheduler and transport, for every bound and capacity:

| Theorem | States |
|---|---|
| `SchedulerProofs!SchedulerTypeCorrect` | `TypeOK` |
| `SchedulerProofs!SchedulerNeverParallel` | `NoParallelDrain` |
| `SchedulerProofs!SchedulerNeverStrands` | `NoStranding` |
| `TransportProofs!StreamInvariant` | the inductive invariant of Realtime |
| `TransportProofs!HandleTellsTruth` | `HandleIsTruth` |
| `TransportProofs!NothingElseIsMissed` | `NothingElseMissed` |
| `TransportProofs!NoFalseAlarms` | `NoFalseAlarm` of Connection |

And of the database switching and the other machines of `MCLibraries`:

| Theorem of `LibraryProofs` | States |
|---|---|
| `PartitionTypeCorrect` | `TypeOK` of UserPartition |
| `PoolCorrect`, `WipeCorrect`, `MirrorCorrect` | `PoolIsActiveUsers`, `OthersWiped`, `MirrorFollowsHook` |
| `ConsumerIsInformed` | `ConsumerInformed` (EventBus) |
| `HandlesBelongTogether` | `RuntimeKeeps` |
| `WritesAreSettled` | `WritesSettle` |
| `CacheIsTold` | `SymbolsKeep` |
| `DelaysArePaced` | `Paced` (Backoff) |
| `ColumnsAreSealedOnce` | `SealedOnce` (Columns) |
| `BucketKeepsTexts` | `BucketKeeps` |
| `WriterAndReadersKeep` | `RemoteKeeps` |
| `RegistryFits` | `RegistryKeeps`, for any configurations |
| `LoggerIsOne` | `LoggerKeeps`, whatever calls a builder was given and in which order |

**The inductive invariant of the queues** (`QueueClients!IInv`). Finalize tells
operations apart by (table, id, stamp), while the promise is about operations.
So the invariant says that arrival numbers identify operations among everything
a queue, a snapshot or a pending commit still knows (`ArrivalsIdentify`); that
each operation of a replay is to do, failed or delivered, and that the rows a
SQLite finalize has read cover the queued rows of its snapshot
(`BatchesAccount`); and that history numbers do not run ahead
(`HistoryBounded`). None of it speaks of the clock. From it and `StampsDiffer`
follows that what finalize drops is the operation that was delivered. That the
clock provides this is an invariant of its own: no two operations have read the
same clock (`StampsFresh`), and one accepted before another was stamped has the
smaller stamp (`StampsFollow`), from which the replay order follows too.

**Layout of the queue proofs.** `QueueClientsProofs` has the lemmas both stores
share: a step of the clients preserves `IInv`, an enqueue preserves it, and each
is a step of the abstract queue. Each store's module proves its own finalize:
`KeptOrDelivered` is the core, an operation in the queue is kept or was
delivered. `StepPreserves` and `StepImplements` collect the actions, one step
each; the theorems combine them with PTL.

**The inductive invariant of the file queue** (`FileQueue!FileInv`). The
properties speak of a cache and a file, and a step may leave either behind the
other. It has two halves. `FileShape` is inductive whatever the clock says:
`ArrivalsTell` and `ReplaysAccount` are what the other stores need too;
`FlushAccounts` says what a flush adds and takes out, that the file it has
opened is empty, and that a file is always a former deque; `GoneStays` that what
has left is in neither cache nor file, which `NoneComesBack` needs at a load.
`FileAccounts` takes stamps that differ. `CacheAccounts`: as long as somebody
relies on the cache, so that no load will replace it, every acknowledged
operation is in it, delivered, replaced, or about to be replaced by the flush
under way. `DiskAccounts`: until the flush truncates the file, the file alone
accounts for all. The two accounts cannot do without each other: the file is
rewritten from the cache, and the cache is loaded from the file.

**The refinement of the file queue** (`FileQueue!DurableInv`). The cache changes
first and the file follows, two steps later; in between, a crash forgets the
change and nobody has been told of it. So the change is committed at
`FlushTruncate`, and `FlushWrite` commits nothing more. `CacheMirrorsDisk` says
that a cache somebody uses is the file, or the file with the one change the
flush will commit: one operation in place of the one of its key, or delivered
ones less. `CommittedFirst` says that replays only know what was committed, so
that each delivery in the abstract queue is one of an accepted operation. Both
are lost when a write fails, as cache and file then disagree in silence; that the
next good write restores them from any state takes one more fact that holds in
all states, `ReplaysKnown`: what a replay holds is in the cache or was delivered
or replaced.

**The inductive invariant of the session store** (`SessionStoreProofs!IInv`).
`HookFollowsSession` speaks of moments when `mutation` is free, so `HookInv`
says what is missing while it is held: in `set_session` the session already has
the user in the holder's `hand`; in `clear_session` the session is gone, and if
there was none before, the hook needs no call. `SlotInv` lists the places
between a claim and a return. `WatermarkInv` adds that the counter is ahead of
every watermark handed out. `QuietStep` and `LockStep` are the two shapes of a
step, outside the lock and around it; each action is shown to be one of them.
`LeaderAlone` needs one fact more, that a leader's sender stays in the slot
until it takes it (`LeadersInSlot`), which is false when `clear_session` empties
the slot, hence its assumption.

**The inductive invariant of a row** (`RowSync!RowInv`). `NoOwnEcho` and
`OkIsKept` are action properties: they speak of the step that applies an event
and of the step that returns. `RowsExist` says that what is sent, queued,
fetched or announced is a row; `EchoCovers` that the tracker is marked from
before a request until the device's last own event has arrived; `AnswersStand`
that what a guarded server has answered is on it, or newer is, while the caller
is on its way back.

**The inductive invariants of the transport** (`Realtime!StreamInv`,
`Connection!ConnInv`). `HandleIsTruth` and `NothingElseMissed` are nearly inductive;
`ConnectionsRun` adds that only a running supervisor has a connection, that those
not yet started have not begun, and that `Connected` comes after the join. In
Connection a reply that was read has taken its question from the tracker
(`replied` and `pending` are disjoint); without that, a live connection might be
given up for a question already answered.

**The inductive invariant of the scheduler** (`SchedulerProofs!IInv`).
`NoStranding` speaks of the timer, the reducer of `pending`. `KnownWhenIdle`
says that an idle reducer knows of what is queued and announced,
`ScheduledWhenOpen` that open gates come with a timer, and `MissedWasAnnounced`
that what a replay's last look did not see was announced since, so that the
report which overwrites it counts in `slipped`. Without the last one the step
`Report` could leave an operation nobody knows of. One lemma covers the world's
steps, one the replay's, one the reports'.

**The inductive invariant of the database switching**
(`LibraryProofs!IInv`). `MirrorFollowsHook` compares numbers of tasks, so
`SpawnInv` says that the task with the latest number, waiting, running or done,
has the session's user as its target, and that a settled switch made its target
the user. `CommandInv` and `SessionInv` give a command's pool and owner.

**The machines of `LibraryProofs`.** Each has its invariant at the end of its
module, `BusInv` to `SymbolsInv`. What had to be added:

- EventBus: a key that the relay has passed waits in its channel, is covered by
  a later read, or was lost.
- Runtime: the store is there as soon as anything is configured, and whatever a
  command has taken was built with it.
- Writes, Columns, Symbols: types only; their properties are inductive. Of Writes
  the theorem holds wherever in the row's versions ours is. `Columns`
  says of each place on the way that its value has at most one layer, which is
  enough because `encrypt` looks at the value and not at its history.
- Backoff: the last delay is at most the one that would be next.
- Bucket: the first layer of a text is sealed with a key of its author, in the
  object, in the hands of an upload and in what a download shows. The property
  is about the open text only, which is one `decrypt` later.
- Remote: the marks are exactly the rows of the request, and `upsert_record` asks
  for one row. That the two readers agree needs no step: it is a lemma over all
  tables of the type.
- Registry: the three maps lead to registered configurations and to each other.
  `ValidatedFits` is then a lemma about every single drift; its part about
  tombstones needs that a table has one column of a name (`ServerColumns`).
- Logger: one install at a time is between the flag and the subscriber
  (`InstallsAlternate`); each override found what the one below it had left
  (`OverridesStack`), without which dropping the last says nothing of the level
  that comes back; written, queued and lost lines are all there are (`LinesInv`).
  `MostSpecific` is about a builder's calls and not about steps. `LastCallsStand`
  says what the overrides are after `n` calls, each prefix once and with the level
  of its last call. It is an induction over the calls, done as a minimal
  counterexample: among the numbers of calls after which it fails there is a
  least one (`LeastOf`, from the well-foundedness of the naturals), which is
  neither 0 nor the successor of one for which it holds. `PrefixByLength` then
  says that of the prefixes of one target no two are equally long, so that the
  first in sorted order is the only longest.

The prover found an error in the models: operators of Writes, Symbols and Remote
were CASEs whose conditions overlapped. TLC takes the first that is true, as the
code's `match` and `if` chains do, but TLA+ leaves the choice open, so that
nothing could be proved of them. They are IF chains or disjoint CASEs now.
Another of the kind: Logger sorted overrides by length with `SortSeq`, of which
TLA+ only says something when the order is total, and two different prefixes may
be equally long. The code's sort is stable; `SortedBefore` now says so by comparing
positions as well.

**Only model-checked.** Liveness (`Drains`, `DeathNoticed`, `Stops`, `Recovers`,
`Converges`, `EveryCallReturns`), which is out of the prover's reach. The runs
that show a violation have nothing to prove. The other way round, no run checks
`LeavesForAReason`, which says what `Promised` says where stamps differ and is
about the behaviours of `Slip > 0`, nor `PromisedOnDisk`, which is about
`DurableSpec` and whose steps `CommitsKeepPromise` checks under `FileSpec`.

## 5. Where code and documentation disagree

Shown by a run (`findings` in `PROJECT.json`): `session_sign_out`,
`session_switch` (`auth.rs:259`: the validity check compares watermarks with
`>=`, so a capture taken under one user is valid under the next, while
`auth.rs:249` says it protects against an account switch), `sync_skip`,
`partition_rows`.

Met while modelling, without a run of their own. Queues and session:

- `sync/coordinator.rs:228`: queued operations are stamped with the wall clock.
  `contract.rs:37` says `queued_at` must be monotonic. Two operations with one
  stamp are one for finalize, and the newer vanishes unsent (`Slip = 1` in the
  queues; `OnlyReplayedLeave` proves that no operation is dropped in another way).
- `queue_store.rs:90` (plugin): the file is truncated and rewritten in place,
  so a crash in between loses the queue, which the plugin's `README.md:16`
  calls "production-ready persistent". `harm = "lost"` in FileQueue.
- `queue_store.rs:129` (plugin): `retry_count` is never raised, although
  `offline_queue/mod.rs:28` calls it "Number of replay attempts so far."
- `auth.rs:314`: a caller that read the expired session before another's refresh
  finished claims the slot afterwards and refreshes a second time, with the token
  it read then, while a test at `auth.rs:625` names the single request as the
  goal. `OneLeader` is about two leaders at one moment, not about two in a row.
- `auth.rs:361`: a refresh in flight at a sign-out installs its session
  afterwards. `auth.rs:205` calls `clear_session` the sign-out.
- `auth.rs:325`: the slot keeps a sender, so waiters of a leader whose future
  was dropped wait for ever, and the error of `auth.rs:350` is unreachable
  (`Abandoned`, the exception of `EveryCallReturns`).
- `contract.rs:255`: a failed operation is only kept if it is still in the
  queue or nothing replaced its key.

Rows and writes:

- `kvs.rs:202`: an undelete raises the version by one, `kvs.rs:42` says by a
  thousand, so an older tombstone of another device can delete the key again.
- `remote.rs:175`: the exported writer always upserts on `id`, the key-value
  table's key is `(id, user_id)`. `upsert_records` and `update_fields` report a
  row already there in the same version as permanent, `upsert_record` ignores it;
  a body with "ignored" anywhere in it is benign.
- `remote.rs:372`: the memory reader is said to mirror PostgREST, but compares
  texts that look like numbers as numbers, and its equality only knows texts.
- `push.rs:116`: a tombstone of a row the server does not have succeeds, and a
  queued older set of that row may create it afterwards; the next reconcile
  round then pushes the tombstone. In Writes such a delete ends with the verdict
  "no row".
- `contract.rs:120`: "both push routes must agree", but an edge function's
  same-version answer is a conflict and a tombstone's is permanent.
- `errors.rs:106` calls a rate limit transient; the edge path makes 429 a
  validation error. Errors of a push that no list names are transient for ever.
- `edge.rs:145`: without a key from its caller each call makes a new one, and the
  coordinator gives none, so a repeated write is not recognised as one.
- `sync/coordinator.rs:374`: a delete that is queued is not announced, a set
  (`kvs.rs:205`) is.
- `registry/mod.rs:420`: a text that begins with "enc:" is stored as it is and
  cannot be opened later.
- `registry/mod.rs:462`: registering a table again under another type leaves the
  old type's entry.
- `registry/mod.rs:326`: a tombstone's `updated_at` has the type of the mirror's
  column, and `push.rs:104` names its three columns literally. A column that is
  INTEGER in the mirror and a text at the server passes both drift checks
  (`registry/mod.rs:598`, `605`) and gets a number; one that the mirror spells
  INT8 passes them and gets a text, as `normalize_type` knows a spelling
  (`schema.rs:127`) that `tombstone_updated_at_value` does not. These are the
  `Misfits` of Registry.

Scheduler, database, realtime, shell:

- `reducer.rs:145`: a report overwrites `has_pending`, which line 32 says is true
  whenever the queue has an operation.
- `polybase-sqlite/src/manager.rs:128`: the user is forgotten before the wipe;
  if it fails, or the app restarts, nothing removes that user's directory when
  somebody else signs in (`kept`). A switch that fails leaves no pool and no
  user.
- plugin `commands.rs:166`: the hook spawns its switches, so that of an earlier
  user may run last.
- `realtime/mod.rs:455`: `Connected` is sent when the join has been sent, not
  when it has succeeded; a change in between is neither in what the host reads
  then nor sent. A full change channel only logs what it drops.
- `realtime/mod.rs:391`: if its transport is dropped without an unsubscribe, the
  supervisor goes on for ever, which the comment says, and reconnects without
  the backoff sleep, which it does not say.
- plugin `events.rs:27`: the forwarder ends for good at its first lag; `kvs.rs:225`
  skips its own silently.
- plugin `commands.rs:146`: only `configure` registers the key-value store, and a
  registry or store attached later does not reach the coordinator; the session
  store keeps the client of the first `configure`; each `configure` starts with
  a new echo tracker.

Tools:

- `polylog/src/level_override.rs`: overrides dropped out of order leave a level
  nobody asked for; one alive across `install` brings back the level of before.
  A failed install leaves its level behind. Events from the `log` crate arrive
  with the target "log", so `target_level` does not see them.
- `polysym-build/src/lib.rs:500`: a symbol counts as drawn if its files exist, be
  they from an earlier build, another size or the fallback, and a refresh may
  commit them. A copy that fails is listed in the manifest all the same, and
  later builds do not warn. A refresh in which nothing was drawn prunes but does
  not rewrite the manifest. An icon larger than its canvas makes the padding's
  subtraction overflow.

## 6. Not modelled

- Texts, formats and bytes: the formation of requests, Phoenix frames, values of
  columns, the cipher, SVG and PNG work, generated code, log lines. The models
  keep the classes the code distinguishes.
- Reads without effect: `current_user`, `is_identity_valid`, `jwt_expires_at`,
  `list`, signed URLs' texts, `client.rs`, `persistence.rs`, `polysym`.
- Migrations of `polybase-sqlite` and the plugin's keychain entry: one call each.
- `clear` of queues and echo tracker: called by nothing outside tests.
- A crash between the mirror's write and the enqueue (`sync/coordinator.rs:188`):
  RowSync has no end of the process, because its queue does not say which store
  it is. The next reconcile round is the code's answer, which RowSync has.
- Compositions across sections: the session store's hook and the partition share
  one variable, the session's user; UserPartition takes it as given, with any
  order of changes, which is more than SessionStore allows. Scheduler and queues
  meet in the number of queued operations.

Worth doing next: a crash in RowSync, and with it the hazard at
`sync/coordinator.rs:188`; an abstract queue whose promise lets a write fail, so
that the file queue implements it without `DurableSpec`'s restriction; and the
composition of the session's hook with the partition.
