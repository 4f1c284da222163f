---------------------------- MODULE VBucketFlush ----------------------------
(***************************************************************************)
(* From the hash table to the disk file: what ep-engine's flusher does     *)
(* with the mutations of a vbucket, and what it reports as persisted.      *)
(*                                                                         *)
(* Front-end threads change the hash table and then, in a second step,     *)
(* queue the key.  The flusher thread takes the queued keys, submits for   *)
(* each the value that the hash table has by then, saves the submitted     *)
(* values in one transaction, and marks them clean in callbacks.  It also  *)
(* keeps the id of the last persisted checkpoint, answers the client that  *)
(* waits for a checkpoint, and has the id stored for the next warmup.      *)
(*                                                                         *)
(* The node has one vbucket, whose database file exists.  Its checkpoint   *)
(* manager is reduced to what the flusher sees of it: the keys ahead of    *)
(* the persistence cursor, the open checkpoint's id and the id that        *)
(* getPersistenceCursorPreChkId returns.  A value is the number of its     *)
(* mutation (which stands for its CAS).                                    *)
(***************************************************************************)
EXTENDS Integers, FiniteSets

CONSTANTS
  Keys,            \* document keys
  Backfills,       \* the vbucket receives backfill items
  SavesFail,       \* couchstore may fail to save a transaction
  Expiries,        \* values may have an expiry time
  WaitedFor,       \* checkpoint ids that clients wait for
  MinDataAge,      \* min_data_age > 0
  NarrowModulus,   \* 2^16, scaled down: CMD_CHECKPOINT_PERSISTENCE compares 16 bits
  MaxVersion,      \* bound on the mutations of a key; nothing is deleted after the last
  MaxCheckpointId, \* bound on checkpoint ids
  MaxLapses        \* bound on the kinds of lapses in a behaviour

ASSUME WidthAssumption == NarrowModulus \in Nat /\ NarrowModulus > 0
ASSUME FlagsAssumption ==
  /\ IsFiniteSet(Keys)
  /\ {Backfills, SavesFail, Expiries, MinDataAge} \subseteq BOOLEAN
ASSUME LimitsAssumption ==
  /\ {MaxVersion, MaxCheckpointId, MaxLapses} \subseteq Nat
  /\ MaxCheckpointId > 1
  /\ WaitedFor \subseteq 1..MaxCheckpointId

VARIABLES
  mem,           \* the hash table
  latest,        \* the number of the last mutation of each key
  unqueued,      \* a front-end thread has yet to queue the key, and where
  incoming,      \* keys ahead of the persistence cursor
  backfillItems, \* keys in the vbucket's backfill queue
  writing,       \* the outgoing queue
  rejectQueue,   \* keys that flushOne put back
  submitted,     \* what the open transaction will save, by key
  disk,          \* what the database file holds, by key
  owed,          \* mutations not yet on disk, and the checkpoints they are queued in
  ids,           \* checkpoint ids: open, pre (of the cursor), persisted, stored
  waiter,        \* the checkpoint that a client waits for (0: none)
  answered,      \* the highest checkpoint that was reported as persisted
  flusher,       \* where the flusher thread is
  lapse          \* history: what happened that makes the code forget a mutation

vars == <<mem, latest, unqueued, incoming, backfillItems, writing, rejectQueue,
          submitted, disk, owed, ids, waiter, answered, flusher, lapse>>

queues == <<incoming, backfillItems, writing, rejectQueue>>
reports == <<waiter, answered>>
-----------------------------------------------------------------------------
\* A key that the hash table, the transaction or the file does not have.
NoValue == [ver |-> 0, del |-> FALSE]
Absent  == [ver |-> 0, del |-> FALSE, dirty |-> FALSE, id |-> "none"]

Found(k) == mem[k].ver # 0
Nothing  == [k \in Keys |-> NoValue]

\* counted: an item was flushed and not put back since the last commit.
Idle == [pc |-> "idle", pass |-> "main", phase |-> 1, counted |-> FALSE]
At(pc) == flusher.pc = pc
GoTo(pc) == flusher' = [flusher EXCEPT !.pc = pc]

MaxOf(a, b) == IF a < b THEN b ELSE a

\* A vbucket that was just created, active, with the snapshot of its state stored.
Init ==
  /\ mem = [k \in Keys |-> Absent]
  /\ latest = [k \in Keys |-> 0]
  /\ unqueued = [k \in Keys |-> "no"]
  /\ incoming = {} /\ backfillItems = {} /\ writing = {} /\ rejectQueue = {}
  /\ submitted = Nothing
  /\ disk = Nothing
  /\ owed = {}
  /\ ids = [open |-> 2, pre |-> 0, persisted |-> 0, stored |-> 0]
  /\ waiter = 0 /\ answered = 0
  /\ flusher = Idle
  /\ lapse = {}
-----------------------------------------------------------------------------
(***************************************************************************)
(* Front-end threads: one call per key at a time.                          *)
(***************************************************************************)

Lapse(kind) ==
  /\ lapse' = lapse \cup {kind}
  /\ Cardinality(lapse') <= MaxLapses

Queued(k) == k \in incoming \cup backfillItems \cup writing \cup rejectQueue

Mutate(k, del) ==
  /\ unqueued[k] = "no"
  /\ latest[k] < MaxVersion
  /\ latest' = [latest EXCEPT ![k] = @ + 1]
  /\ mem' = [mem EXCEPT ![k] = [ver |-> latest[k] + 1, del |-> del, dirty |-> TRUE,
                                id |-> @.id]]

Set(k) ==
  /\ Mutate(k, FALSE)
  /\ unqueued' = [unqueued EXCEPT ![k] = "checkpoint"]
  /\ UNCHANGED <<queues, submitted, disk, owed, ids, reports, flusher, lapse>>

\* A backfill's deletion goes to the backfill queue, dirty or not.
QueueDeletion(k) ==
  \E queue \in {"checkpoint", IF Backfills THEN "backfill" ELSE "checkpoint"} :
    unqueued' = [unqueued EXCEPT ![k] = queue]

\* A value that has expired is deleted as well (and the client told that there was none),
\* and so is, with its meta data, one that is deleted already.
Delete(k) ==
  /\ Found(k)
  /\ Mutate(k, TRUE)
  /\ QueueDeletion(k)
  /\ UNCHANGED <<queues, submitted, disk, owed, ids, reports, flusher, lapse>>

\* A replica queues a deletion that it is sent also if it does not have the key.
DeleteMissing(k) ==
  /\ unqueued[k] = "no"
  /\ latest[k] < MaxVersion
  /\ Found(k) => mem[k].del
  /\ QueueDeletion(k)
  /\ UNCHANGED <<mem, latest, queues, submitted, disk, owed, ids, reports, flusher, lapse>>

\* An item that is dirty already is not queued again.
BackfillQueue(k) == IF mem[k].dirty THEN "no" ELSE "backfill"

\* The item may be dirty because it is submitted and not yet saved.
BackfillItem(k) ==
  /\ Backfills
  /\ Mutate(k, FALSE)
  /\ unqueued' = [unqueued EXCEPT ![k] = BackfillQueue(k)]
  /\ IF mem[k].dirty /\ ~Queued(k) THEN Lapse("backfill") ELSE UNCHANGED lapse
  /\ UNCHANGED <<queues, submitted, disk, owed, ids, reports, flusher>>

QueueDirty(k) ==
  /\ unqueued[k] # "no"
  /\ unqueued' = [unqueued EXCEPT ![k] = "no"]
  /\ IF unqueued[k] = "backfill"
     THEN backfillItems' = backfillItems \cup {k} /\ UNCHANGED <<incoming, owed>>
     ELSE /\ incoming' = incoming \cup {k}
          /\ owed' = IF disk[k].ver >= latest[k] THEN owed
                      ELSE owed \cup {[key |-> k, ver |-> latest[k], chk |-> ids.open]}
          /\ UNCHANGED backfillItems
  /\ UNCHANGED <<mem, latest, writing, rejectQueue, submitted, disk, ids, reports,
                 flusher, lapse>>

\* The open checkpoint is closed and a new one opened.  The persistence cursor
\* comes along, and the closed one's id becomes pre, if it has nothing ahead.
NewCheckpoint ==
  /\ ids.open < MaxCheckpointId
  /\ \/ ids' = [ids EXCEPT !.open = @ + 1]
     \/ incoming = {} /\ ids' = [ids EXCEPT !.open = @ + 1, !.pre = ids.open]
  /\ UNCHANGED <<mem, latest, unqueued, queues, submitted, disk, owed, reports,
                 flusher, lapse>>

\* The id that the client waits for is compared with the persisted id's low bits.
IsReported(c) == c <= ids.persisted % NarrowModulus

\* CMD_CHECKPOINT_PERSISTENCE
CheckpointPersistence ==
  /\ waiter = 0
  /\ \E c \in WaitedFor :
       IF IsReported(c)
       THEN answered' = MaxOf(answered, c) /\ UNCHANGED waiter
       ELSE waiter' = c /\ UNCHANGED answered
  /\ UNCHANGED <<mem, latest, unqueued, queues, submitted, disk, owed, ids, flusher,
                 lapse>>
-----------------------------------------------------------------------------
(***************************************************************************)
(* The flusher.  doFlush is begin (beginFlush, if nothing is left of the   *)
(* last one), then passes over the outgoing queue: one for vbuckets with   *)
(* waiting clients, if there are any and it is the first phase, and one    *)
(* for all; each ends with a commit.                                       *)
(***************************************************************************)

\* Mutant: backfill items alone do not make the flusher begin.
QueueEmptyButBackfill == writing = {} /\ incoming = {}

DiskQueueEmpty == writing = {} /\ incoming = {} /\ backfillItems = {}

\* setPersistenceCheckpointId
WithPersisted == [ids EXCEPT !.persisted = IF ids.pre > 0 THEN ids.pre ELSE @]

\* The client that waits is answered if its checkpoint is not above c, and may run
\* into its timeout otherwise.
AnswerUpTo(c) ==
  \/ /\ waiter # 0 /\ waiter <= c
     /\ waiter' = 0
     /\ answered' = MaxOf(answered, waiter)
  \/ /\ waiter > c
     /\ waiter' \in {waiter, 0}
     /\ UNCHANGED answered
  \/ waiter = 0 /\ UNCHANGED reports

\* beginFlush finds nothing to write,
BeginEmpty ==
  /\ At("idle")
  /\ DiskQueueEmpty
  /\ GoTo("empty")
  /\ UNCHANGED <<mem, latest, unqueued, queues, submitted, disk, owed, ids, reports,
                 lapse>>

\* and then reports what is persisted.
ReportWhenEmpty ==
  /\ At("empty")
  /\ ids' = WithPersisted
  /\ AnswerUpTo(ids.pre)
  /\ GoTo("idle")
  /\ UNCHANGED <<mem, latest, unqueued, queues, submitted, disk, owed, lapse>>

\* getBackfillItems, getAllItemsForPersistence and pushToOutgoingQueue.
TakeAll ==
  /\ writing' = writing \cup incoming \cup backfillItems
  /\ incoming' = {}
  /\ backfillItems' = {}
  /\ ids' = [ids EXCEPT !.pre = ids.open - 1]
  /\ UNCHANGED rejectQueue

\* Meta items ahead of the cursor make the queue non-empty, too.
Begin ==
  /\ At("idle")
  /\ TakeAll
  /\ flusher' = [Idle EXCEPT !.pc = "begin"]
  /\ UNCHANGED <<mem, latest, unqueued, submitted, disk, owed, reports, lapse>>

BeginPass ==
  /\ At("begin")
  /\ flusher' = [flusher EXCEPT
                   !.pc = "pass",
                   !.pass = IF flusher.phase = 1 /\ waiter # 0 THEN "high" ELSE "main"]
  /\ UNCHANGED <<mem, latest, unqueued, queues, submitted, disk, owed, ids, reports,
                 lapse>>

\* flushVBQueue with an empty queue only looks at timeouts.
PassNothing ==
  /\ At("pass")
  /\ writing = {}
  /\ waiter' \in {waiter, 0}
  /\ GoTo(IF flusher.pass = "high" THEN "more" ELSE "commit")
  /\ UNCHANGED <<mem, latest, unqueued, queues, submitted, disk, owed, ids, answered,
                 lapse>>

PassSome ==
  /\ At("pass")
  /\ writing # {}
  /\ GoTo("flush")
  /\ UNCHANGED <<mem, latest, unqueued, queues, submitted, disk, owed, ids, reports,
                 lapse>>

\* flushOneDelOrSet: a key is put back if a value of it was submitted and is not yet
\* saved, or if the value in the hash table is too young (and the queued item is not
\* older than queue_age_cap).
Rejected(k) == mem[k].dirty /\ (mem[k].id = "pending" \/ MinDataAge)

\* Submitted is what the hash table has by now; a deleted value also when it is put
\* back.  A key that the hash table does not have was deleted.
Submission(k) ==
  IF ~Found(k) THEN [ver |-> latest[k], del |-> TRUE]
  ELSE [ver |-> mem[k].ver, del |-> mem[k].del]

Reject(k) ==
  /\ Rejected(k)
  /\ rejectQueue' = rejectQueue \cup {k}
  /\ mem' = [mem EXCEPT ![k].id = IF @ = "pending" THEN "none" ELSE @]
  /\ submitted' = IF mem[k].del THEN [submitted EXCEPT ![k] = Submission(k)] ELSE submitted

Submit(k) ==
  /\ ~(mem[k].dirty /\ mem[k].id = "pending")
  /\ submitted' = IF mem[k].dirty \/ mem[k].del \/ ~Found(k)
                  THEN [submitted EXCEPT ![k] = Submission(k)] ELSE submitted
  /\ mem' = IF mem[k].dirty /\ ~mem[k].del /\ mem[k].id = "none"
            THEN [mem EXCEPT ![k].id = "pending"] ELSE mem
  /\ UNCHANGED rejectQueue

\* addUncommittedItem
Count == flusher' = [flusher EXCEPT !.counted = TRUE]

FlushOne(k) ==
  /\ At("flush")
  /\ k \in writing
  /\ writing' = writing \ {k}
  /\ UNCHANGED <<latest, unqueued, incoming, backfillItems, disk, owed, ids, reports>>

RejectOne(k) == FlushOne(k) /\ Reject(k) /\ UNCHANGED <<flusher, lapse>>
SubmitOne(k) == FlushOne(k) /\ Submit(k) /\ Count /\ UNCHANGED lapse

\* A value that expires soon is not saved; the file may still hold an older one.
SkipExpired(k) ==
  /\ Expiries
  /\ FlushOne(k)
  /\ mem[k].dirty /\ ~mem[k].del
  /\ mem' = [mem EXCEPT ![k].dirty = FALSE, ![k].id = "none"]
  /\ Count
  /\ Lapse("expired")
  /\ UNCHANGED <<rejectQueue, submitted>>

\* Mutant: what was put back is not queued again.
RequeueNothing == {}

\* flushVBQueue puts the rejected keys back into the outgoing queue.
Requeued == rejectQueue

\* Mutant: the checkpoint id is advanced although keys were put back.
PersistedAnyway == WithPersisted

PersistedAfterPass == IF rejectQueue = {} THEN WithPersisted ELSE ids

\* The end of flushVBQueue.
FinishPass ==
  /\ At("flush")
  /\ writing = {}
  /\ ids' = PersistedAfterPass
  /\ writing' = Requeued
  /\ rejectQueue' = {}
  /\ AnswerUpTo(ids'.persisted)
  /\ GoTo(IF flusher.pass = "high" THEN "more" ELSE "commit")
  /\ UNCHANGED <<mem, latest, unqueued, incoming, backfillItems, submitted, disk, owed,
                 lapse>>

\* flushHighPriorityVBQueue takes new items once the queue is empty.
TakeMore ==
  /\ At("more")
  /\ IF writing = {} THEN TakeAll ELSE UNCHANGED <<queues, ids>>
  /\ GoTo("commit")
  /\ UNCHANGED <<mem, latest, unqueued, submitted, disk, owed, reports, lapse>>

\* commit2couchstore saves all that was submitted, or nothing,
Commit ==
  /\ At("commit")
  /\ flusher.counted
  /\ \/ /\ disk' = [k \in Keys |-> IF submitted[k] = NoValue THEN disk[k] ELSE submitted[k]]
        /\ owed' = {o \in owed : o.ver > disk'[o.key].ver}
        /\ GoTo("saved")
        /\ UNCHANGED lapse
     \/ /\ SavesFail
        /\ submitted # Nothing
        /\ GoTo("failed")
        /\ Lapse("failed save")
        /\ UNCHANGED <<disk, owed>>
  /\ UNCHANGED <<mem, latest, unqueued, queues, submitted, ids, reports>>

\* The flusher goes on to the main pass, or, if it was that, to the next round or call.
AfterCommit ==
  flusher' = IF flusher.pass = "high"
             THEN [flusher EXCEPT !.pc = "pass", !.pass = "main", !.counted = FALSE]
             ELSE IF writing = {} THEN Idle
             ELSE [flusher EXCEPT !.pc = "begin", !.phase = 2, !.counted = FALSE]

\* and nothing is saved if all that was flushed was put back, submitted or not.
CommitNothing ==
  /\ At("commit")
  /\ ~flusher.counted
  /\ AfterCommit
  /\ UNCHANGED <<mem, latest, unqueued, queues, submitted, disk, owed, ids, reports,
                 lapse>>

\* Mutant: the value is clean although it changed meanwhile.
CleanAnyway(k) == FALSE

StillDirty(k) == mem[k].dirty /\ mem[k].ver # submitted[k].ver

\* PersistenceCallback, for a set and a deletion that were saved,
AfterSet(k) == IF Found(k) THEN [mem[k] EXCEPT !.id = "known", !.dirty = StillDirty(k)]
               ELSE Absent
AfterDelete(k) == IF Found(k) /\ ~mem[k].del THEN [mem[k] EXCEPT !.id = "none"]
                  ELSE Absent

Callback(k) ==
  /\ At("saved")
  /\ submitted[k] # NoValue
  /\ mem' = [mem EXCEPT ![k] = IF submitted[k].del THEN AfterDelete(k) ELSE AfterSet(k)]
  /\ submitted' = [submitted EXCEPT ![k] = NoValue]
  /\ UNCHANGED <<latest, unqueued, queues, disk, owed, ids, reports, flusher, lapse>>

\* and when they were not: the value is dirty again, and the key is put into a
\* reject queue that is gone since flushVBQueue returned.
FailedCallback(k) ==
  /\ At("failed")
  /\ submitted[k] # NoValue
  /\ mem' = IF Found(k)
            THEN [mem EXCEPT ![k].dirty = TRUE,
                             ![k].id = IF @ = "pending" THEN "none" ELSE @]
            ELSE mem
  /\ submitted' = [submitted EXCEPT ![k] = NoValue]
  /\ UNCHANGED <<latest, unqueued, queues, disk, owed, ids, reports, flusher, lapse>>

\* The commit returns when all callbacks were called.
FinishCommit ==
  /\ At("saved") \/ At("failed")
  /\ submitted = Nothing
  /\ AfterCommit
  /\ UNCHANGED <<mem, latest, unqueued, queues, submitted, disk, owed, ids, reports,
                 lapse>>

\* The snapshot task runs on the flusher's thread, between two calls of doFlush.
SnapshotVBuckets ==
  /\ At("idle") \/ At("begin")
  /\ ids' = [ids EXCEPT !.stored = ids.persisted]
  /\ UNCHANGED <<mem, latest, unqueued, queues, submitted, disk, owed, reports, flusher,
                 lapse>>
-----------------------------------------------------------------------------
(***************************************************************************)
(* The process ends at any point, and warmup loads what is on disk.        *)
(***************************************************************************)

\* createLKVPCB: the checkpoint after the last persisted one is open.
RestoredOpenId == ids.stored + 1

Restart ==
  /\ mem' = [k \in Keys |->
               IF disk[k].ver = 0 \/ disk[k].del THEN Absent
               ELSE [Absent EXCEPT !.ver = disk[k].ver, !.id = "known"]]
  /\ latest' = [k \in Keys |-> disk[k].ver]
  /\ owed' = {}
  /\ unqueued' = [k \in Keys |-> "no"]
  /\ incoming' = {} /\ backfillItems' = {} /\ writing' = {} /\ rejectQueue' = {}
  /\ submitted' = Nothing
  /\ ids' = [ids EXCEPT !.open = RestoredOpenId, !.pre = 0,
                        !.persisted = RestoredOpenId - 1]
  /\ waiter' = 0 /\ answered' = 0
  /\ flusher' = Idle
  /\ UNCHANGED <<disk, lapse>>

FlusherStep ==
  \/ BeginEmpty \/ ReportWhenEmpty \/ Begin
  \/ BeginPass \/ PassNothing \/ PassSome
  \/ \E k \in Keys : \/ RejectOne(k) \/ SubmitOne(k) \/ SkipExpired(k)
                   \/ Callback(k) \/ FailedCallback(k)
  \/ FinishPass \/ TakeMore \/ Commit \/ CommitNothing \/ FinishCommit

Next ==
  \/ \E k \in Keys : \/ Set(k) \/ Delete(k) \/ DeleteMissing(k) \/ BackfillItem(k)
                   \/ QueueDirty(k)
  \/ NewCheckpoint
  \/ CheckpointPersistence
  \/ FlusherStep
  \/ SnapshotVBuckets
  \/ Restart

Spec == Init /\ [][Next]_vars
-----------------------------------------------------------------------------
(***************************************************************************)
(* Properties.                                                             *)
(***************************************************************************)

Value == [ver : 0..MaxVersion, del : BOOLEAN]

\* Types; no checkpoint id but pre, persisted and stored is ever 0.
TypeOK ==
  /\ mem \in [Keys -> [ver : 0..MaxVersion, del : BOOLEAN, dirty : BOOLEAN,
                       id : {"none", "pending", "known"}]]
  /\ latest \in [Keys -> 0..MaxVersion]
  /\ unqueued \in [Keys -> {"no", "checkpoint", "backfill"}]
  /\ \A q \in {incoming, backfillItems, writing, rejectQueue} : q \subseteq Keys
  /\ submitted \in [Keys -> Value] /\ disk \in [Keys -> Value]
  /\ owed \subseteq [key : Keys, ver : 1..MaxVersion, chk : 1..MaxCheckpointId]
  /\ ids \in [open : 1..MaxCheckpointId, pre : 0..MaxCheckpointId,
              persisted : 0..MaxCheckpointId, stored : 0..MaxCheckpointId]
  /\ waiter \in WaitedFor \cup {0} /\ answered \in WaitedFor \cup {0}
  /\ flusher \in [pc : {"idle", "empty", "begin", "pass", "flush", "more", "commit",
                        "saved", "failed"},
                  pass : {"high", "main"}, phase : 1..2, counted : BOOLEAN]
  /\ lapse \subseteq {"backfill", "failed save", "expired"}

\* After a restart the key would not be what it is in the hash table.
Unsaved(k) ==
  IF Found(k) THEN disk[k] # [ver |-> mem[k].ver, del |-> mem[k].del]
              ELSE disk[k].ver # 0 /\ ~disk[k].del

\* The flusher will see the key, or has submitted its value.
OnItsWay(k) ==
  \/ unqueued[k] # "no"
  \/ Queued(k)
  \/ submitted[k] = Submission(k)

\* A value that is not on disk is on its way there: dirty means queued, although
\* keys are taken off the queues long before their values are saved.
NothingForgotten == \A k \in Keys : Unsaved(k) => OnItsWay(k)

\* A backfill item for a submitted key, a failed save and a value that expires are
\* the only ways in which a value gets forgotten, whatever is rejected, requeued, deleted or changed while
\* a transaction is open.
ForgottenByLapseOnly == lapse = {} => NothingForgotten

\* A clean value that did not expire is the value on disk: it may be ejected from memory.
CleanIsSaved ==
  "expired" \notin lapse => \A k \in Keys : Found(k) /\ ~mem[k].dirty => ~Unsaved(k)

\* What was queued in checkpoints up to c is on disk,
Durable(c) == \A o \in owed : o.chk > c

\* or will be with the open transaction.
Covered(c) == \A o \in owed : o.chk > c \/ submitted[o.key].ver >= o.ver

\* Neither the id that is kept as the last persisted one nor the answer to a client is
\* ahead of the open transaction, although both come before its commit.
ReportsCovered == lapse = {} => Covered(ids.persisted) /\ Covered(answered)

\* What a restart at this moment would report as persisted is on disk, whatever is
\* still queued or submitted.
StoredIdDurable == lapse = {} => Durable(ids.stored)

\* A client that was told that its checkpoint is persisted finds it on disk, also if
\* the process ends at this moment.
AnsweredIsDurable == Durable(answered)

\* The threads go on; a value is too young for a while only.
Fairness ==
  /\ WF_vars(FlusherStep)
  /\ \A k \in Keys : WF_vars(QueueDirty(k)) /\ SF_vars(SubmitOne(k))

FairSpec == Spec /\ Fairness

\* A value reaches the disk, however often it is put back on its way.
WritesReachDisk ==
  \A k \in Keys : Unsaved(k) ~> (~Unsaved(k) \/ lapse # {})
=============================================================================
