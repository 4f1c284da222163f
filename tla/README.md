# Couchbase Server 2.0: TLA+ models, checks and proofs

This directory is a verification project for the repository above it. The repository is the
complete source of a Couchbase Server 2.0 package: about a dozen programs and libraries in C,
C++, Erlang and Python. The project models the parts in which the server's own promises are
kept (a document that was written is replicated and persisted, a node that is promoted has what it
needs): ep-engine, the storage engine, and the module that gives each bucket an engine of its own.

To check it: `tlc -config <run>.cfg <module>.tla` for the runs of `PROJECT.json`, and
`tlapm <module>.tla` for the modules whose names end in `_proofs`.

## 1. Inventory

| component | state | operations and callers | what makes it correct |
|---|---|---|---|
| **checkpoint manager** `ep-engine/src/checkpoint.cc` | per vbucket: a list of checkpoints (deduplicated mutations), a cursor per consumer, counters, ids | front-end threads queue mutations; the flusher and TAP producers read through cursors; the remover task frees checkpoints; a master's messages open and close them on replicas; promotion, flush_all and vbucket reset | no cursor misses a mutation; every cursor points into a live checkpoint; counts and ids are right; closed checkpoints get freed |
| **flusher and persistence pipeline** `flusher.cc`, `ep.cc`, `vbucketmap.cc`, `couch-kvstore/` | outgoing queues, reject queue, the open transaction, dirty flags, persisted checkpoint id, clients that wait | take items from a vbucket, submit what the hash table holds, commit, callbacks, vbucket state snapshots | a dirty value is on its way to disk; clean means saved; the reported and the stored checkpoint id are not ahead of the disk |
| **flusher state machine** `flusher.cc` | state, task id | start, pause, resume, stop, wake from other threads | legal transitions, no lost wake-up |
| **vbucket and its life cycle** `vbucket.cc`, `ep.cc`, `vbucketmap.cc` | the map, states, creation and deletion flags, snapshot flags, pending operations | setVBucketState, deletion and reset by connections; snapshot and deletion tasks | memory and disk agree in the end; a recreated vbucket keeps its data and gets none of its predecessor's; a deletion is reported when it is done; pending operations are all notified |
| **TAP** `tapconnection.cc`, `tapconnmap.cc`, `backfill.cc` | per connection: queues, ack log, sequence numbers, backfill counters | walk, acknowledge, refuse, suspend, disconnect, reconnect, backfill, background fetch, takeover | nothing unacknowledged is dropped; the copy can be resumed from the checkpoint it names; a takeover activates a complete copy only |
| **warmup** `warmup.cc` | state of the warmup sequence | restores vbuckets and values from files and logs | restores what was persisted |
| **mutation log** `mutation_log.cc` | block buffer, file, committed and uncommitted entries | append, commit1, commit2, compaction, recovery | recovery returns the committed entries only |
| **dispatcher, background fetch, pager** `dispatcher.cc`, `bgfetcher.cc`, `item_pager.cc` | ready and future queues, task states | schedule, snooze, wake, cancel | no task runs after cancel; fetches are all answered |
| **hash table** `stored-value.cc` | chains under striped locks | set, add, delete, evict, resize | one value per key |
| **memcached** `memcached/daemon` | connections, references on them, worker threads | calls into the engine, notify after EWOULDBLOCK, closing | no lost notification, no connection freed in use |
| **bucket_engine** `bucket_engine/bucket_engine.c` | buckets, reference and client counts, states | create, select, delete, reserve and release, shut down | an engine is destroyed once, after its last user left; a handle is freed when nothing refers to it; whoever waits is told |
| **couchstore** | append-only B-trees, headers | save, commit, compact, open | open finds the last complete header |
| **ns_server** | cluster configuration, masters, movers | rebalance, janitor, auto-failover, heartbeats | one active per vbucket, one master, configuration converges |
| libvbucket, moxi, couchdb, geocouch, clients, tools | maps, views, scripts | | not planned (forks of other projects, or no cluster state) |

How they interact: memcached calls ep-engine from its worker threads. A write changes the hash
table under a bucket lock and then, in a second step, calls `queueDirty`, which puts the key
into the vbucket's checkpoint manager. Two kinds of consumers walk it: the flusher's task, which
moves keys to an outgoing queue, submits values to couchstore in a transaction and has callbacks
mark them clean; and TAP producers, which send mutations and checkpoint markers to the consumer
side of another node's engine. That side calls the same hash table and checkpoint manager, but
opens and closes checkpoints when the master says so. ns_server decides which node has which
vbucket in which state, and waits for replication and for persisted checkpoint ids
(`CMD_CHECKPOINT_PERSISTENCE`) before it promotes a copy.

Hard behaviours: cursors in a list that is deduplicated, collapsed, renumbered and freed under
them; the master's messages against promotion, rollback and backfill; values that change between
submission and commit; answers that precede the commit; crash and warmup; ids and counts that
are kept by differences; flags and tasks that bring disk and memory together while both change;
atomic counters instead of locks; acks that are implicit, refused or lost with a connection; tasks
that find a connection by its name only. `PROJECT.json` lists them as hazards, each at its line.

## 2. Modules

    UnifiedQueue            what consumers of a vbucket's queue may rely on
      ^ refined by
    CheckpointQueue         the refinement mapping
      extends CheckpointManager   checkpoint.cc
    MCCheckpointManager     symmetry and views for TLC
    VBucketFlush            from the hash table to the file and back at warmup
    VBucketMap              creation, change, reset and deletion of vbuckets, and the disk
    TapProducer             a vbucket's stream to another node
    BucketEngine            buckets, their connections and the threads that delete them

    CheckpointManager_proofs, VBucketFlush_proofs, VBucketMap_proofs, TapProducer_proofs,
    BucketEngine_proofs     theorems about the module of that name
    CheckpointOrder_proofs        the order of the list, ids, names, eviction, backups
      ^ extended by
    CheckpointQueue_proofs        the refinement of UnifiedQueue
    CheckpointCounts_proofs       counts and offsets (extends CheckpointOrder_proofs as well)

The modules meet at the boundaries that the code has. `CheckpointManager` is the list that
`VBucketFlush` and `TapProducer` read, each through its own cursor; these two keep of it only
what their consumer sees. `VBucketMap` keeps of the flusher what a vbucket's life depends on.
`BucketEngine` is around all of them: what it lets in is a call of an engine.

### CheckpointManager

The object is one record `cm`. `cm.list` is `checkpointList`, a checkpoint's `mid` is its
`keyIndex` (0: absent), `open` its state, `cursors` its set of names; `cm.cursor[c]` is an entry
of `tapCursors` (the persistence cursor is one of them): `chk` is the iterator into the list,
`pos` the key of the item it points to, `offset` its offset. `toWrite` needs no variable: the
order of the items is that of their mutation ids behind the two meta items (`Rank`).
`preChkId` is `pCursorPreCheckpointId`; `lastClosedId` and `collapsed` are the fields of the
same meaning.

Every public operation takes `queueLock` for its whole length and is one action. Operators from
records to records (`AddNewCheckpoint`, `CollapseClosed`, `Rollback`, ...) are the functions
that the operations call, so that an action is the whole operation with everything it calls.
The interleavings are those of operations of different threads; `backfill` and `vbState` are the
parts of the vbucket that decide which of them are called. Only `VBucket::setState` takes
the lock twice and then changes the state without it; it is one action all the same. Its steps
commute with those of the flusher and the remover, and a master's message of another connection
could come in between with effect only while the replica has not had its first
`CHECKPOINT_START` (its id is below 2), that is when an incomplete vbucket is promoted. `event`
records what a call returned, for the properties; no action reads it. Two failures end a behaviour: queueDirty's assertion
fails (`QueueDirtyAborts`), or the code makes an iterator point into another list than that of
its checkpoint (`...Strays`), after which its behaviour is undefined.

`CheckpointQueue` shows with the mapping "`todo` of a consumer = documents ahead of its cursor"
that the manager implements `UnifiedQueue`: a key that is written while a consumer is subscribed
stays on its list until handed over.

### VBucketFlush

One vbucket, whose file exists. A value is the number of its mutation, which stands for its CAS.

| variable | code |
|---|---|
| `mem` | StoredValues: CAS, deleted, dirty, and the row id's three states |
| `unqueued` | a thread between its change of the hash table and its `queueDirty` |
| `incoming`, `backfillItems` | keys ahead of the persistence cursor; the vbucket's backfill queue |
| `writing`, `rejectQueue` | `writingQueues[vb]`, and `flushVBQueue`'s local queue |
| `submitted` | `pendingReqsQ` of CouchKVStore with the callbacks |
| `disk` | the database file |
| `ids` | the open checkpoint, `getPersistenceCursorPreChkId`, `persistenceCheckpointIds[vb]`, and the id in the file |
| `waiter`, `answered` | a high priority entry of the flusher; what a client was told |
| `flusher` | the place in `doFlush`, the pass (for waiting clients, or for all) and phase |
| `owed`, `lapse`, `latest` | history, for the properties |

The checkpoint manager is reduced to what the flusher sees of it; the keys of a batch are a set
because `optimizeWrites` sorts them and `pushToOutgoingQueue` drops neighbours of the same key.
Front-end steps interleave with every step of the flusher, the commit and each callback. The
state snapshot task runs on the flusher's thread and so only between two calls of `doFlush`.
A second submission of a key in one transaction replaces the first. A deletion is queued also for a
value that has expired and, on a replica, for a key that the hash table does not have
(`DeleteMissing`). The process may end at any
point (`Restart`); then what is in the file is loaded, and ids continue from the stored one.

The code forgets a value in three ways, which the model keeps and records in `lapse`: a backfill
item for a key that is submitted but not yet saved, a failed save (the callback puts the key
into a queue that no longer exists), and a value that expires and is skipped. The safety
properties say that there are no others. `MaxLapses` bounds how many kinds meet in a behaviour.

### VBucketMap

| variable | code |
|---|---|
| `map`, `pid` | `vbMap`: vbuckets in memory; `persistenceCheckpointIds` |
| `creation`, `deletion`, `snapshotVBState` | `bucketCreation`, `bucketDeletion`, `snapshotVBState`; the flags of scheduled snapshots are the tasks' presence in `ready` and `future` |
| `order` | a deletion task's `recreate` and cookie |
| `writing` | `writing`, the outgoing queue |
| `cached`, `file` | `cachedVBStates`; the files |
| `ready`, `future`, `thread` | the read-write dispatcher's two queues, and where its one thread is |
| `conn`, `specific` | a connection in the middle of a command; its engine specific |

A connection's command is split where the code drops `vbsetMutex` or schedules a task after it;
the dispatcher's thread where others can see a difference: between reading the states and saving
each, before and after a file is deleted, between items of the flusher, and, if it found nothing to
write, between getting the checkpoint id of a vbucket (`ReadId`) and setting it by number
(`SetId`). Items of a dead vbucket do not count as something to write (`DiskQueueEmpty`): they
stay in its queue until something else is flushed or the vbucket changes its state. The id that
a flush reports is read at the end of a vbucket's queue, from the vbucket that the flusher got
when it began with it (`CurrentPre`). A snapshot that fails leaves the file as it was, created
without the state, or with it. `MoveReadyTasks` moves what is due, and the flusher may sleep on. A deletion may fail at CouchDB and runs again;
`Restart` may come at any point and brings back what the files have, as dead vbuckets.

The flags do not cover everything. What they miss is kept in the model and recorded, for the
vbucket to which it happened, in `lapse`: a vbucket is `replaced` while the flusher works on its
items, or by a new one between getting and setting its checkpoint id, which the new one then has; a
synchronous deletion is `not tried` because the connection's engine specific is still set; a deletion `joined` one that is under way; a deletion runs `late`, when the vbucket exists
again; a snapshot of other vbuckets clears a creation flag early (`hurried`); a snapshot
`failed` after the cache had the new state (it stops there, and a new vbucket that it has not
come to has lost its creation flag already); the flusher took items of a new vbucket `early`,
before its creation flag was set. The properties hold for vbuckets without a lapse, and say so
that there is no eighth kind. `sync_deletion` shows what `not tried` does to a client.

### BucketEngine

`refcount`, `clients` and `state` are atomic fields without a common lock, so an action is one
access to one of them, or one section under `engines_mutex` or `shutdown.mutex`. `worker[c].pc`
is the place in the function that the connection's worker thread is in (`get_engine_handle` is
`Enter`, `CheckState`; `release_engine_handle` is `LeaveEngine`, `LastOut`), `es` its
`engine_specific`, `core` what memcached knows of it, `releaser` the engine's own thread that
calls `release_cookie`, `killer[h]` the place of `engine_shutdown_thread`. `signals` holds the
handles whose last reference is released and whose broadcast is yet to come. `leaked` counts
calls that the code forgets to count out (a TAP stream whose iterator is gone): `ClientsCounted`
adds them and `NobodyWaitsForever` excuses a behaviour that has one.

`RefcountExact` says what the code counts: the table, each connection whose `es.peh` is the handle,
each reservation, the temporary ones. A connection that memcached has closed and that the engine has
reserved is among them, against the field's comment (finding 4). `es.producer` tells whether the
engine has a TAP producer for a reserved connection. It has none if `createTapQueue` rejects the
request after it has reserved the cookie; then nobody will release it, and the connection and its
bucket's handle are kept until the process ends.

### TapProducer

| variable | code |
|---|---|
| `src` | the vbucket's state, the checkpoints as one sequence of entries, the oldest id in memory, and the producer's cursor (0: none) |
| `tap` | the `TapProducer` of the name: `high`, `low`, `checkpointMsgs`, `queue`, `fetched` (`backfilledItems`), `jobs` (background fetches under way), `log` (`tapLog`), the sequence numbers, the counters of messages to be acknowledged, the backfill's flags and counters; `lastItem` and `atEnd` are of its `TapCheckpointState` |
| `tasks` | backfill visitors and disk loads; `own` is false for one of a producer that is gone |
| `toC`, `toP` | the connection, in order, one way and the other |
| `copy` | the vbucket at the consumer: state, last checkpoint, is it closed, backfill phase, mutations |
| `writer` | a client's thread between the check of the state and `queueDirty` |

`Walk` is `walkTapQueue`, with an action for each of its outcomes in the code's order of
preference; what it sends is logged and numbered in the same step (`Send`). `ReceiveAck` and
`ReceiveNack` are `processAck`; `Applied` is `tapNotify` with `processCheckpointCommand`. Whether
a value is in memory is a choice for `ColdItems`, each time it is looked at. A connection may be
lost at any point with all that is on it. It is opened again as ns_server does (`ConnectFresh`:
`kill_tapname`, then a stream from the copy's last closed checkpoint) or by a client that lets
the old producer live (`ConnectGrab`: filter, cursor or backfill, then `rollback`).

Three things the protocol does not cover are kept and recorded in `lapse`; a behaviour goes on
after those in `Followed` and ends with the others. `late`: a write that saw the vbucket active
is queued after the copy was told to become active. `stale`: a task of a producer that is gone
acts on the new one of the same name. `replayed`: a producer with a CHECKPOINT_START in its log
or queue is opened again and schedules a new backfill; the start is sent again first, and the copy
leaves its backfill phase without the documents. With `replayed` in `Followed`, `Kinds = {"grab"}`
and one mutation TLC finds `ResumePointSound` violated; so it does with `SeqModulus` as small as
24, where a number wraps while a refused item waits (the reset of `lastSeqNum` at the first ack
after the wrap). ns_server's own streams are opened afresh and do not meet `replayed`.

## 3. Runs

| run | question | bounds |
|---|---|---|
| `master` | active vbucket: counts, names, eviction exact; refinement | 2 keys, 1 TAP cursor, 3 checkpoint ids |
| `replica` | the master's messages in any order, states that change at any time, extended checkpoints: list well formed, counts, reported id; refinement | 1 key, 1 TAP cursor, 3 ids (a gap needs three) |
| `reused_replica` | a backfill without a reset, `keep_closed_chks`; types, live cursors, registered names | as above, 9 mutation ids, no view |
| `live` | queued is persisted, unreferenced is freed; a backup client reads closed checkpoints only | 1 key, 8 mutation ids, 4 ids, a backup client |
| `flush` | VBucketFlush: nothing forgotten, clean is saved, reports, stored id; every write reaches the disk | 1 key, 2 mutations, 3 ids, 1 kind of lapse, a client that waits for id 2 |
| `vbuckets` | VBucketMap: disk follows memory, nothing dropped, nothing old, deletions told when done, liveness | 1 vbucket, 2 connections, 2 commands, 2 writes, 1 restart, 1 kind of lapse |
| `tap` | TapProducer: nothing left behind, resuming is sound, a takeover is complete, liveness (a takeover ends with the copy active and the connection closed) | replica and takeover, both ways to reconnect, 2 mutations (1 cold), 2 checkpoints, 1 refusal, 1 lost connection, window of 4 |
| `buckets` | BucketEngine: counts exact, nobody in a destroyed engine, no dangling handle, answers; whoever deletes or shuts down does not wait for ever | 2 connections (1 administrator, 1 TAP), 1 name, 2 handles |
| `promoted_closed` | `NeverAborts` is violated | |
| `answered_before_commit` | `AnsweredIsDurable` is violated | |
| `sync_deletion` | `SyncDeletionDone` is violated | 1 connection, 3 commands |
| `refcount_comment` | `RefcountAsDocumented` is violated | 1 connection, 1 handle |

Why the bounds are enough. All list operations treat the list by position: first, last, next to
last, the checkpoint of a cursor. With 3 ids and `MaxCheckpoints = 2`, the list grows beyond
what is allowed, so that freeing, collapsing and the refusal to open a checkpoint all happen.
One key in several checkpoints makes every merge case; two keys are there where the order of two
documents matters (`master`). `CheckpointMaxItems = 1` makes each checkpoint full at once, and
`timeUp` stands for `chk_period`. In VBucketFlush the queues are sets and keys do not depend on
each other but through `rejectQueue` being empty; one key with two mutations gives all orders of
change, submission, rejection and callback. Ids up to 3 with 16 bits scaled to `NarrowModulus`
= 3 make the narrowed comparison go wrong once; by hand, the invariants also hold with 5 ids and a
modulus of 4. Liveness is checked over the same states: `WritesReachDisk` is fulfilled by a value
that gets on disk and by a lapse, and `NobodyWaitsForever` excuses only a leaked call.

In VBucketMap vbuckets meet only in a snapshot, which takes those in memory together, and in the
deletion of a creation flag; with one vbucket and two commands there are a deletion and a
creation that overlap, and a restart between any two steps. By hand, 3 commands (19 million
states) showed nothing more. In BucketEngine two handles of one name are enough for a bucket to
be created while its predecessor is still being taken down, and two connections for one that
deletes what the other is in. In TapProducer two checkpoints give each order of an end, its acks
and the next start; with `ColdItems = {2}` and one refusal an item can be behind an end in all
three ways (fetched, refused, unacknowledged), and the one lost connection comes at every point,
also during a backfill. `AckWindow * AckInterval = 4` fills up. `MaxTakeoverLog` is 3 in place of
10 so that the log gets longer than it. By hand, the invariants also hold with 3 mutations (4.9
million states) and with `MaxTakeoverLog = 10`; two lost connections are beyond TLC's reach here.

Mutation ids grow for ever, but operations only compare them. `View` numbers the ids in use from
1 and drops the counter, which makes the state space finite; `MaxMutationId = 200` is then never
reached. It drops `event` too, which no action reads: action properties are evaluated on steps,
before states are identified. `NoOffsetView` drops cursor offsets in runs whose properties do
not mention them; no guard reads an offset. The runs for types and for liveness use no view.
Keys and TAP names are symmetric where a run names no particular one.

`CHECK_DEADLOCK FALSE` is set everywhere because the bounds (`Becomes`, `MaxVersion`, `MaxCalls`)
stop the model, a failed assertion stops the process, and a takeover or a shutdown is the end.

Fairness. `live`: the flusher's `getAllItemsForPersistence` and the remover's visitor are
dispatcher tasks that reschedule themselves (`WF`, `RemoverRuns`). `flush`: the flusher's task
does the same (`WF` of its steps), a thread that changed the hash table goes on to `queueDirty`
(`WF`), and a value is too young or waits for its row id only for a while: `min_data_age` is
compared with a growing age and `queue_age_cap` overrides it, so a key that comes up for
flushing again and again is submitted in the end (`SF` of `SubmitOne`). `vbuckets`: the
dispatcher's thread and a connection in the middle of a command go on (`WF`), and CouchDB does
not fail for ever to delete a file that is tried again each time (`SF` of `DeleteFile`).
`buckets`: threads go on, each for itself: a worker in the middle of a call, a shutdown thread or
whoever is about to wake it, and the thread that shuts the process down (`WF`); the engine need not
release a reservation ever. `tap`: the
connection is walked when it is woken, dispatcher tasks run, messages and acks arrive, a
suspension ends by its timer, ns_server connects again, and a thread that has begun a write ends it
(`WF` each). Nothing is assumed of clients, refusals, lost connections, crashes or failures.

Each property of a passing run has a mutant: an operator in the module, beside the definition it
replaces, that is wrong the way a slip in the code would be, and with which TLC finds the
property violated.

## 4. Findings

1. A replica that got `CHECKPOINT_END` and is promoted before the next `CHECKPOINT_START` aborts
   on the next write (`promoted_closed`).
2. `CMD_CHECKPOINT_PERSISTENCE` is answered before the commit (`answered_before_commit`).
3. A synchronous deletion is answered with success although nothing was deleted, if an earlier one
   on the connection had failed (`sync_deletion`).
4. `refcount`'s comment says that a closed connection is no longer counted while a reservation keeps
   it; `handle_disconnect` returns before it drops that reference (`refcount_comment`).

`PROJECT.json` quotes what they contradict. Further disagreements are kept in the models, as lapses
or by a choice of constants, and noted at the hazards: eviction on a replica after a rollback
(`EvictionSound` with `VBStates = {"replica"}`), a persisted id that is the open checkpoint's after
a gap and a rollback (`ClosedIdIsStale`), stray cursors after a backfill without a reset
(`NoStrayCursor` with `MayBeEmpty`), a backfill item whose key is in the open transaction, calls
that bucket_engine does not count out, and the lapses of VBucketMap and TapProducer.

## 5. Proofs

All theorems are about the specification of a module for every value of its constants that the
module's named assumptions allow: any number of keys, connections, vbuckets or buckets, every
configuration and every bound. Five theorems of `CheckpointOrder_proofs` and three of
`CheckpointCounts_proofs` restrict the configuration, and four of `TapProducer_proofs` the
behaviours, as said there, because the code does not keep the property otherwise; nothing else is
assumed. In each module one theorem `Invariance` (`OrderInvariance`, `ExactInvariance`, `SpecInv`)
says that the inductive invariant always holds, and the others follow from it. There is a lemma for
each action (`...Keeps`, `...OK` or `...Sound`): if the invariant holds before the step, it holds
after it.

### CheckpointManager_proofs

- `TypeCorrect`: `Spec => []TypeOK`
- `CursorsStayLive`: `Spec => []CursorsLive`
- `NamesStayRegistered`: `Spec => []NamesRegistered`

`CursorsLive` alone is not inductive. Whether a cursor may step to the next item depends on items
having different mutation ids no greater than the counter; whether it may be moved to the next
checkpoint depends on its own being known there by name; and freeing checkpoints is safe only if
every cursor's name keeps its checkpoint. `Invariance` proves the conjunction of these parts
inductive: a first lemma for each operator from records to records (it takes a good manager to a
good manager), then one step for each action. The lemmas follow the code's call structure, so
that an operation's lemma cites those of the functions it calls. `ResetCursors` and names left
in other checkpoints are why the invariant speaks of a cursor's name being in *its* checkpoint,
and not of names being in one checkpoint only, which is false on a reused replica.

### CheckpointOrder_proofs

The first part has no theorem: for each operator from records to records, what it does to the
checkpoints, their items and the cursors, said with named predicates (`Queued`, `MovedOn`, `Cut`,
`Collapsed`, `RolledBack`, ...) instead of with the operator's text. What follows it and the next two
modules use nothing else of the operators, so that the same description serves the order of the list,
the counts and the refinement.

For all constants:

- `OnlyLastStaysOpen`: `Spec => []OnlyLastOpen`
- `BackupsReadClosed`: `Spec => BackupReadsClosed`, an action property

If no backfill may leave the manager without checkpoints (`~MayBeEmpty`):

- `IdsStayGrowing`: `Spec => []IdsGrow`
- `NamesStayExact`: `Spec => []NamesExact`
- `NoCursorStrays`: `Spec => []NoStrayCursor`
- `ReportedIdIsBehind`: `Spec => PreChkIdSetBehind`, an action property

If the vbucket is always a master's and no replica gets inconsistent (`AlwaysMaster`):

- `EvictionStaysSound`: `Spec => []EvictionSound`

`OrderInvariance` adds to `IInv` that no two items of a checkpoint have the same mutation id, that
a closed one, and no other, ends with its end item, that all ids of one checkpoint are below those
of the next, and that only the last is open (`OrderOK`). This part needs no assumption. Growing ids and exact names (`IdsOK`, `NamesOK`) do: a
backfill without a reset empties the manager with the cursors' names still registered, the ids
start over, and the code then follows an iterator into a list that is not its own. That meta items
come before all others of the list (`MetaOK`) holds on a master only: the rollback and the
collapsing on a replica number a checkpoint's start and end items above the items that are merged
into it, and there TLC finds `EvictionSound` violated. `ReportedIdIsBehind` follows the id from
where it is read, the checkpoint before the cursor's, through the operations that may remove this
checkpoint, to where it is set.

### CheckpointQueue_proofs

- `QueueImplemented`: `Spec => ImplementsQueue`, for all constants

The refinement of `UnifiedQueue`. A subscribed consumer's `todo` is what the list holds behind its
cursor (`TodoFacts`). For each action there is a lemma which abstract step it is: a write puts the
key on every subscriber's list (`WriteStep`), a read hands over what leaves the reader's list and
nobody else's (`GiveStep`, `TapStep`), adding, closing and removing checkpoints, collapsing,
renumbering and the master's messages may put items back on a list but never take one off
(`QuietStep`), and a cleared manager, or one that a new stream resets, starts over
(`EmptyingStep`). That nothing is skipped rests on the order: a cursor goes on to the next
checkpoint only from an item behind which, by mutation ids, there is none.

### CheckpointCounts_proofs

For all constants:

- `CountStaysExact`: `Spec => []NumItemsExact`

If the vbucket is always a master's and no replica gets inconsistent (`AlwaysMaster`):

- `RemainingStaysExact`: `Spec => []RemainingExact`
- `MasterNeverAborts`: `Spec => []NeverAborts`

`numItems` is never computed from the list: every operation adds or subtracts what it believes to
have changed. `Counted` says that the sum is right: the documents of all checkpoints, two meta
items for each closed checkpoint and one for the open one. There is a lemma for each operator, from
what `CheckpointOrder_proofs` says of it; documents are counted checkpoint by checkpoint
(`DocsStep`), so that dropping a prefix of the list (`DocsCut`) and merging its unreferenced
checkpoints (`CollapseCount`, `RollbackCount`) subtract cardinalities of disjoint sets.

A cursor's offset is not computed from the list either. It grows by one when the cursor steps on, and
shrinks when something behind the cursor is deduplicated, dropped or merged. On a master it is the
cardinality of `UpTo`, the items of the checkpoints before the cursor's and those of its own up to
its position. This is inductive only together with the order of the list (a step adds one item to
`UpTo` because nothing lies between two neighbours, `UpToNext`), with `numItems` (a cursor at the end
of the list has everything behind it, `AllItems`) and with meta items
being ahead of all others in a checkpoint. `Exact` puts these together with the last checkpoint being open, and `ExactInvariance` proves it
inductive, one lemma for each operator that moves a cursor or takes items from the list.
`RemainingIsAhead` then splits the items of the list into those up to the cursor, the rest of its
checkpoint and those of the later ones. On a replica neither the offsets
nor the open last checkpoint are kept: a `CHECKPOINT_START` that finds the open checkpoint empty renumbers it and puts its cursors back at
the dummy item with the offsets they had (TLC finds `RemainingExact` violated in three states),
and `CHECKPOINT_END` closes the last checkpoint, which is finding 1.

### VBucketFlush_proofs

- `TypeCorrect`: `Spec => []TypeOK`
- `OnlyLapsesForget`: `Spec => []ForgottenByLapseOnly`
- `CleanStaysSaved`: `Spec => []CleanIsSaved`
- `ReportsStayCovered`: `Spec => []ReportsCovered`
- `StoredIdStaysDurable`: `Spec => []StoredIdDurable`

That a clean value is saved depends on the callback comparing CAS values of the same key, so the
invariant orders the versions of a key from memory through the transaction to the file
(`VersionsOrdered`), and says what the file holds between the commit and the last callback
(`CommitOK`). The ids depend on each other in the order in which they are copied (`IdsOrdered`);
that a copied id covers what it stands for needs to know, of everything owed to the disk, in
which queue it is (`OwedOK`), and what the flusher has not counted yet (`FlusherOK`): a pass
without rejects may advance the id only as all that was taken is submitted. The proof needs
`MaxCheckpointId > 1`, the id at which an active vbucket starts, as an assumption.

### VBucketMap_proofs

- `TypeCorrect`: `Spec => []TypeOK`
- `StatesAreSaved`: `Spec => []SettledOnDisk`
- `WritesAreKept`: `Spec => []NothingDropped`
- `OldItemsAreGone`: `Spec => []NoOldItems`
- `FilesComeFirst`: `Spec => []SubmittedHasFile`
- `IdsAreOwn`: `Spec => []PersistedIdIsOwn`
- `ReportedDeletionsHold`: `Spec => []ToldDeletionDone`

The properties speak mostly of states in which no task is left. What keeps them is the meaning of
the flags in between, in two layers. `Shapes` holds of every vbucket whatever happens to it: a
deletion flag is set exactly as long as the task of the deletion is queued or running, creation
flags are set only if a snapshot is to come that clears them, an order with a cookie belongs to
the one connection that waits for it. `Sound(v)` holds of a vbucket without lapses: as long as its
state on disk is not the one in memory, somebody is about to schedule a snapshot, one is queued or
one has not read the states yet, or it has read them and has the present one in hand (`Settled`);
what is on disk of a vbucket that is not in memory is going to be deleted, or the connection that
removed it is about to set it again (`LeftIsRestored`); a vbucket in memory whose deletion is
under way is a new one of which nothing was written (`AgainUnsaved`); what the flusher holds is not
older than what is queued (`HandIsCurrent`, `SubIsCurrent`); an id that the flusher has got and not
yet set is not above that of the vbucket in memory (`HeldIdIsOwn`), which is what the lapse
`replaced` takes away. The theorems hold for any number of
vbuckets, where the run has one: two vbuckets in one snapshot are what the invariant found to be
missing in the lapse `failed`.

### TapProducer_proofs

- `SpecWellFormed`: `Spec => []WellFormed`, the types and the shape of the checkpoints
- `SpecInv`: `Spec /\ []NotRotated => []IInv`
- `NothingIsLeftBehind`: `Spec /\ []NotRotated => []NothingLeftBehind`
- `ResumePointIsSound`: `Spec /\ []NotRotated => []ResumePointSound`
- `ActiveCopyIsComplete`: `Spec /\ []NotRotated => []ActiveIsComplete`

The last four have two hypotheses. `NotRotated`: the 32-bit sequence number has not come to its end.
With a small modulus TLC finds the invariant violated soon after the number wraps, when the
first ack behind it resets `lastSeqNum` while a refused item waits. `Followed \subseteq {"late"}`: a
behaviour is looked at up to and with the first step of a task of a producer that is gone, or of a
replayed start, and no further; a late write is followed. Both hold throughout the run `tap`, in
which every number stays below 62 of 64. Nothing bounds the mutations, checkpoints, refusals, lost
connections, tasks or the window.

A lost item shows only much later, when a checkpoint's end is sent and the copy is resumed behind
it. The invariant `Sound` says of every moment what prevents it, in nine parts, each of which needs
others. `StreamOK`: the log, the messages on their way and the answers on theirs are in the order of
their numbers; a message or an answer belongs to an element of the log, every answer comes before
every message, and everything but an item has its answer to come. So an ack, which clears all
of the log before its own element, clears items only that the copy took or refused.
`CoveredOK` is `NothingLeftBehind` without what it leaves open: an item in the log counts only if
its message or its refusal is still to come, or the connection is lost (then the rollback queues it), and
one in a task only if the task is the producer's own. `CountersOK` ties the two counters that
hold the stream back to the log, and says that there is at most one checkpoint message to be sent or
acknowledged; `BackfillOK` ties the backfill's counters to the one task that a producer can have, and
says that there is no cursor exactly until that task has visited the vbucket. `PhasesOK`
says where the copy is, given the entry under the cursor and the outstanding message; with it,
`CopyOK` and `ConfirmedOK` (a cursor that reads an end left no item of that checkpoint that the copy
has not) give `ResumePointSound`. `EndingOK` and `PendingOK` are about a takeover: once the copy is
told to become active the source is dead, nothing is to be backfilled and no order to wait follows.

The rollback of the log and `Only` are recursive functions. The library's induction theorems cannot
be used (see below), so their lemmas (`IterationExists`, `RollbackFacts`) go by the least
counterexample, from `NatLessThanWellFounded` and `WFMin`: the invariant `RollsTo` says what the
first i elements of the log have left.

### BucketEngine_proofs

- `TypeCorrect`: `Spec => []TypeOK`
- `EnginesOutliveCalls`: `Spec => []NobodyInsideDestroyed`
- `CallsAreCounted`: `Spec => []ClientsCounted`
- `ReferencesAreCounted`: `Spec => []RefcountExact`
- `FreedIsUnreferenced`: `Spec => []NoDangling`
- `EnginesEndOnce`: `Spec => []DestroyedOnce`
- `AnswersComeLast`: `Spec => []AnsweredWhenGone`

The counters are cardinalities of sets of references, and a step of one connection changes each by
what this connection contributes to it (`CountChange` and the lemmas after it). They are exact only
because a connection refers to a handle in no other field than those its place in the code uses
(`WorkerOK`, `ReservedOK`), and they protect an engine only in the order in which things happen: a
call is counted in before it reads the state, and the bucket is stopped before the count is read
(`QuietOK`: from the moment on at which somebody has seen a stopped bucket without clients,
nobody is inside any more). `HandleOK` ties a handle's state, its place in the table and its
shutdown thread together; `AnswersOK` says which client has no answer yet.

### What stays with TLC

The safety properties of CheckpointManager in the configurations that a theorem leaves out and a
run includes. Out of the prover's reach: liveness under fairness
(`PersistenceDrains`, `UnreferencedFreed`, `WritesReachDisk`, `Settles`, `NobodyWaitsForever`,
`CatchesUp`), and anything with ENABLED. Induction over data is where an operator would have to be
given to the library's theorem; the models avoid it (sums are cardinalities of sets of pairs) but
for the two functions of TapProducer, whose lemmas take the way round described there.

## 6. Plan

Done in this order, the most important first:

1. CheckpointManager, its refinement and first theorems (done).
2. VBucketFlush and the theorems that state its safety properties (done, for one vbucket).
3. CheckpointManager: order, ids, names, eviction, backups, the refinement, the counts of
   items and of what is left for each cursor (done).
4. VBucketMap and its theorems (done); pending operations.
5. TapProducer and its theorems (done, for one vbucket and one consumer); chains of replicas,
   registered clients.
6. BucketEngine and its theorems (done).
7. FlusherState: the state machine against pause, resume and stop.
8. MutationLog: blocks, commits, crash and recovery, refined from a log of transactions.
9. ns_server's auto-failover, single vbucket mover and `mb_master`; couchstore's header recovery;
   vclock merge.

Not modelled and not planned: text and binary protocols, statistics, memory accounting, views and
spatial indexes, command-line tools, client libraries. Inside the modelled parts: contents and
sizes of items, `QueuedItem` objects shared between queues, timers (a time limit may have passed
or not, at any time), `flush_all` and several vbuckets in VBucketFlush, dump mode, no-ops, flush and
changes of the filter in TapProducer, `list_buckets` and statistics in BucketEngine.
