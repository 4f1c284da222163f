----------------------------- MODULE VBucketMap -----------------------------
(***************************************************************************)
(* The life of a vbucket in ep-engine: connections create it, change its   *)
(* state, reset and delete it in memory, at once; the thread of the        *)
(* read-write dispatcher brings the database files up to date, later, with *)
(* four kinds of tasks: two that save the vbuckets' states (snapshots), one *)
(* for the deletion of each vbucket, and the flusher.  Flags that the tasks *)
(* share with the connections (bucketCreation, bucketDeletion, those of    *)
(* the snapshots) are to keep them in step.                                *)
(*                                                                         *)
(* A vbucket has one document, whose value is the number of its write, and *)
(* a checkpoint id that is 1 once its first checkpoint was closed.         *)
(* VBucketFlush has what this module leaves out of the flusher: rejects,   *)
(* dirty values, failed saves of values, clients that wait for checkpoints. *)
(***************************************************************************)
EXTENDS Integers, FiniteSets

CONSTANTS
  VBs,          \* vbucket ids
  Conns,        \* connections that send vbucket commands, one at a time each
  States,       \* vbucket states; "dead" is one
  None,         \* no vbucket, or no connection
  SavesFail,    \* the state of a vbucket may fail to be saved
  DeletesFail,  \* CouchDB may fail to delete a file
  MaxWrites,    \* bound on the writes to a vbucket
  MaxCalls,     \* bound on the commands, in all
  MaxRestarts,  \* bound on the restarts
  MaxLapses     \* bound on the kinds of lapses of a vbucket

ASSUME StatesAssumption == "dead" \in States /\ "none" \notin States
ASSUME NoneAssumption   == None \notin VBs \cup Conns
ASSUME FlagsAssumption  == {SavesFail, DeletesFail} \subseteq BOOLEAN
ASSUME LimitsAssumption == /\ {MaxWrites, MaxCalls, MaxRestarts, MaxLapses} \subseteq Nat
                           /\ MaxWrites > 0
\* The names of the tasks that are not a vbucket's, and of no task.
ASSUME TasksAssumption  == VBs \cap {"high", "flush", "low", "none"} = {}

VARIABLES
  map,      \* vbuckets in memory: state, value, is it ahead of the cursor, checkpoint
  pid,      \* persistenceCheckpointIds
  creation, \* vbuckets whose bucketCreation flag is set
  deletion, \* vbuckets whose bucketDeletion flag is set
  order,    \* what the deletion task of a vbucket is to do, and for whom
  writing,  \* vbuckets with an item in the outgoing queue
  cached,   \* cachedVBStates
  file,     \* the database files
  ready,    \* the dispatcher's readyQueue
  future,   \* the dispatcher's futureQueue
  thread,   \* what the dispatcher's thread is at
  snapshotVBState, \* a checkpoint id changed since a snapshot was scheduled
  conn,     \* what each connection is at
  specific, \* connections whose engine specific is set
  used,     \* what is bounded: writes of each vbucket, commands, restarts
  told,     \* history: deleted vbuckets whose client was told so, until created again
  lapse     \* history: what happened to a vbucket that the flags do not cover

memory == <<map, pid>>
flags  == <<creation, deletion>>
disk   == <<cached, file>>
queues == <<ready, future>>
ghosts == <<used, told, lapse>>
vars   == <<memory, flags, order, writing, disk, queues, thread, snapshotVBState,
            conn, specific, ghosts>>
-----------------------------------------------------------------------------
NoVB    == [state |-> "none", value |-> 0, dirty |-> FALSE, pre |-> 0]
NoFile  == [state |-> "none", value |-> 0, id |-> 0]
NoState == [state |-> "none", id |-> 0]
NoOrder == [recreate |-> FALSE, cookie |-> None]

Mapped(v) == map[v].state # "none"
Exists(v) == file[v].state # "none"

\* The tasks: a vbucket's deletion, the two snapshots and the flusher; 1 is most urgent.
Tasks == VBs \cup {"high", "flush", "low"}
Priority(t) == IF t = "high" THEN 2 ELSE IF t = "flush" THEN 5 ELSE IF t = "low" THEN 9
               ELSE 1

IdleConn   == [pc |-> "idle", vb |-> None, to |-> "none", order |-> NoOrder]
Nothing    == [v \in VBs |-> 0]
IdleThread == [pc |-> "idle", task |-> "none", vb |-> None, todo |-> {},
               seen |-> [v \in VBs |-> NoState], val |-> 0, pre |-> 0, old |-> FALSE,
               due |-> FALSE, sub |-> Nothing]

At(pc) == thread.pc = pc

\* getPersistenceCursorPreChkId of the vbucket that the flusher has in hand.
CurrentPre(v) == IF thread.old THEN thread.pre ELSE map[v].pre

\* A connection holds vbsetMutex (the other sections under it are single steps).
Locked == \E c \in Conns : conn[c].pc = "added"

\* Something happened to the vbuckets in vbs.
Lapse(vbs, kind) ==
  /\ lapse' = [v \in VBs |-> IF v \in vbs THEN lapse[v] \cup {kind} ELSE lapse[v]]
  /\ \A v \in VBs : Cardinality(lapse'[v]) <= MaxLapses

\* Warmup makes a dead vbucket of each file (createLKVPCB, initVBucket), and a snapshot
\* is scheduled.
InMemory(f) == IF f = NoFile THEN NoVB
               ELSE [state |-> "dead", value |-> f.value, dirty |-> FALSE, pre |-> f.id]

\* A file that an earlier run left behind.
LeftFile == [state |-> "dead", value |-> 1, id |-> 1]

Init ==
  /\ file \in [VBs -> {NoFile, LeftFile}]
  /\ map = [v \in VBs |-> InMemory(file[v])]
  /\ pid = [v \in VBs |-> file[v].id]
  /\ cached = [v \in VBs |-> [state |-> file[v].state, id |-> file[v].id]]
  /\ creation = {} /\ deletion = {} /\ order = [v \in VBs |-> NoOrder]
  /\ writing = {}
  /\ ready = {} /\ future = {"high", "flush"}
  /\ thread = IdleThread
  /\ snapshotVBState = FALSE
  /\ conn = [c \in Conns |-> IdleConn] /\ specific = {}
  /\ used = [writes |-> [v \in VBs |-> file[v].value], calls |-> 0, restarts |-> 0]
  /\ told = {} /\ lapse = [v \in VBs |-> {}]
-----------------------------------------------------------------------------
(***************************************************************************)
(* Connections.                                                            *)
(***************************************************************************)

\* A client, or a TAP producer, changes the document.
Write(v) ==
  /\ Mapped(v) /\ map[v].state # "dead"
  /\ used.writes[v] < MaxWrites
  /\ used' = [used EXCEPT !.writes[v] = @ + 1]
  /\ map' = [map EXCEPT ![v].value = used'.writes[v], ![v].dirty = TRUE]
  /\ UNCHANGED <<pid, flags, order, writing, disk, queues, thread, snapshotVBState,
                 conn, specific, told, lapse>>

\* The persistence cursor leaves a closed checkpoint.
NewCheckpoint(v) ==
  /\ Mapped(v) /\ ~map[v].dirty /\ map[v].pre = 0
  /\ map' = [map EXCEPT ![v].pre = 1]
  /\ UNCHANGED <<pid, flags, order, writing, disk, queues, thread, snapshotVBState,
                 conn, specific, ghosts>>

Call(c) ==
  /\ conn[c].pc = "idle"
  /\ used.calls < MaxCalls
  /\ used' = [used EXCEPT !.calls = @ + 1]

\* setVBucketState: the state changes, or the vbucket is added to the map,
SetState(c, v, to) ==
  /\ ~Locked
  /\ IF Mapped(v)
     THEN /\ map' = [map EXCEPT ![v].state = to]
          /\ conn' = [conn EXCEPT ![c] =
                        IF map[v].state = to THEN IdleConn
                        ELSE [IdleConn EXCEPT !.pc = "changed"]]
          /\ UNCHANGED told
     ELSE /\ map' = [map EXCEPT ![v] = [NoVB EXCEPT !.state = to]]
          /\ conn' = [conn EXCEPT ![c] = [IdleConn EXCEPT !.pc = "added", !.vb = v]]
          /\ told' = told \ {v}
  /\ UNCHANGED <<pid, flags, order, writing, disk, queues, thread, snapshotVBState,
                 specific, lapse>>

SetVBucketState(c, v, to) == Call(c) /\ SetState(c, v, to)

\* Mutant: a new vbucket's creation flag is not set.
FlagNothing(c) == UNCHANGED creation

FlagCreation(c) == creation' = creation \cup {conn[c].vb}

\* Mutant: the id of an earlier vbucket stays.
KeepPid(c) == UNCHANGED pid

ResetPid(c) == pid' = [pid EXCEPT ![conn[c].vb] = 0]

\* The flusher is about to set the checkpoint id of an earlier vbucket.
StaleId(v) == At("id") /\ thread.vb = v /\ thread.pre > map[v].pre

\* and then gets its flag, still under the mutex, which the flusher does not take.
InitVBucket(c) ==
  /\ conn[c].pc = "added"
  /\ ResetPid(c)
  /\ FlagCreation(c)
  /\ conn' = [conn EXCEPT ![c] = [IdleConn EXCEPT !.pc = "created"]]
  /\ IF StaleId(conn[c].vb) THEN Lapse({conn[c].vb}, "replaced") ELSE UNCHANGED lapse
  /\ UNCHANGED <<map, deletion, order, writing, disk, queues, thread, snapshotVBState,
                 specific, used, told>>

\* Mutant: a snapshot that is under way counts as scheduled.
ScheduleUnlessRunning(p) ==
  /\ snapshotVBState' = FALSE
  /\ future' = IF p \in ready \/ thread.task = p THEN future ELSE future \cup {p}

\* scheduleVBSnapshot: the flag of the snapshot is set as long as its task is queued.
ScheduleVBSnapshot(p) ==
  /\ snapshotVBState' = FALSE
  /\ future' = IF p \in ready THEN future ELSE future \cup {p}

\* The end of setVBucketState and deleteVBucket.
ScheduleSnapshot(c) ==
  /\ conn[c].pc \in {"changed", "created", "deleted"}
  /\ ScheduleVBSnapshot(IF conn[c].pc = "changed" THEN "low" ELSE "high")
  /\ conn' = [conn EXCEPT ![c] = IF conn[c].order.cookie = None THEN IdleConn
                                 ELSE [conn[c] EXCEPT !.pc = "waiting"]]
  /\ UNCHANGED <<memory, flags, order, writing, disk, ready, thread, specific, ghosts>>

\* The vbucket leaves the map.  The flusher that has its item goes on with the old one.
Remove(c, v, o, to) ==
  /\ map' = [map EXCEPT ![v] = NoVB]
  /\ conn' = [conn EXCEPT ![c] = [pc |-> "removed", vb |-> v, to |-> to, order |-> o]]
  /\ IF At("item") /\ thread.vb = v
     THEN /\ thread' = [thread EXCEPT !.old = TRUE, !.pre = CurrentPre(v)]
          /\ Lapse({v}, "replaced")
     ELSE UNCHANGED <<thread, lapse>>
  /\ UNCHANGED <<pid, flags, order, writing, disk, queues, snapshotVBState>>

\* CMD_DEL_VBUCKET, synchronous or not: only a dead vbucket is deleted.  The engine
\* specific of the connection, set by any synchronous call, tells a repeated call,
DelVBucket(c, v, sync) ==
  /\ Call(c)
  /\ ~Locked
  /\ ~(sync /\ c \in specific)
  /\ specific' = IF sync THEN specific \cup {c} ELSE specific
  /\ UNCHANGED told
  /\ IF map[v].state = "dead"
     THEN Remove(c, v, [recreate |-> FALSE, cookie |-> IF sync THEN c ELSE None], "none")
     ELSE UNCHANGED <<memory, flags, order, writing, disk, queues, thread,
                      snapshotVBState, conn, lapse>>

\* which reports success, be it the same call that waited or another.
DelVBucketAgain(c, v) ==
  /\ Call(c)
  /\ c \in specific
  /\ specific' = specific \ {c}
  /\ told' = told \cup {v}
  /\ Lapse({v}, "not tried")
  /\ UNCHANGED <<memory, flags, order, writing, disk, queues, thread, snapshotVBState,
                 conn>>

Resume(c) ==
  /\ conn[c].pc = "waiting" /\ conn[c].vb = None
  /\ conn' = [conn EXCEPT ![c] = IdleConn]
  /\ specific' = specific \ {c}
  /\ UNCHANGED <<memory, flags, order, writing, disk, queues, thread, snapshotVBState,
                 ghosts>>

\* resetVBucket, for TAP_OPAQUE_INITIAL_VBUCKET_STREAM: the vbucket is deleted, if it
\* has items, and set to its state again.
ResetVBucket(c, v) ==
  /\ Call(c)
  /\ ~Locked
  /\ Mapped(v) /\ map[v].value # 0
  /\ Remove(c, v, [recreate |-> TRUE, cookie |-> None], map[v].state)
  /\ UNCHANGED <<specific, told>>

\* scheduleVBDeletion does nothing if a deletion of the vbucket is under way.
ScheduleVBDeletion(c) ==
  LET v == conn[c].vb
      o == conn[c].order IN
  /\ conn[c].pc = "removed"
  /\ conn' = [conn EXCEPT ![c].pc = IF o.recreate THEN "reset" ELSE "deleted"]
  /\ IF v \in deletion
     THEN /\ IF o.recreate THEN UNCHANGED lapse ELSE Lapse({v}, "joined")
          /\ UNCHANGED <<deletion, order, future>>
     ELSE /\ deletion' = deletion \cup {v}
          /\ order' = [order EXCEPT ![v] = o]
          /\ future' = future \cup {v}
          /\ IF Mapped(v) THEN Lapse({v}, "late") ELSE UNCHANGED lapse
  /\ told' = IF o.recreate THEN told \ {v} ELSE told
  /\ UNCHANGED <<memory, creation, writing, disk, ready, thread, snapshotVBState,
                 specific, used>>

ResetState(c) ==
  /\ conn[c].pc = "reset"
  /\ SetState(c, conn[c].vb, conn[c].to)
  /\ UNCHANGED used
-----------------------------------------------------------------------------
(***************************************************************************)
(* The thread of the dispatcher.                                           *)
(***************************************************************************)

\* moveReadyTasks, when the ready queue is empty.  Only the flusher snoozes.
MoveReadyTasks(due) ==
  /\ At("idle")
  /\ ready = {} /\ due # {}
  /\ ready' = due
  /\ future' = future \ due
  /\ UNCHANGED <<memory, flags, order, writing, disk, thread, snapshotVBState, conn,
                 specific, ghosts>>

Start(t) == IF t \in VBs THEN "delete" ELSE IF t = "flush" THEN "flush" ELSE "snapshot"

\* The callback of a snapshot clears the snapshot's flag first.
Run(t) ==
  /\ At("idle")
  /\ t \in ready
  /\ \A other \in ready : Priority(t) <= Priority(other)
  /\ ready' = ready \ {t}
  /\ thread' = [IdleThread EXCEPT !.pc = Start(t), !.task = t]
  /\ UNCHANGED <<memory, flags, order, writing, disk, future, snapshotVBState, conn,
                 specific, ghosts>>

Done(more) == thread' = IdleThread /\ future' = future \cup more

\* snapshotVBuckets: the creation flags are cleared,
ClearCreation ==
  /\ At("snapshot")
  /\ thread' = [thread EXCEPT !.pc = "visit"]
  /\ IF thread.task = "high"
     THEN creation' = {} /\ Lapse(creation \cap deletion, "hurried")
     ELSE UNCHANGED <<creation, lapse>>
  /\ UNCHANGED <<memory, deletion, order, writing, disk, queues, snapshotVBState, conn,
                 specific, used, told>>

\* the vbuckets visited (one after the other: no property is about two of them),
Visit ==
  /\ At("visit")
  /\ thread' = [thread EXCEPT
                  !.pc = "save",
                  !.todo = {v \in VBs : Mapped(v)},
                  !.seen = [v \in VBs |-> [state |-> map[v].state, id |-> pid[v]]]]
  /\ UNCHANGED <<memory, flags, order, writing, disk, queues, snapshotVBState, conn,
                 specific, ghosts>>

Unchanged(v) == cached[v] = thread.seen[v]

Saved(v) == [file[v] EXCEPT !.state = thread.seen[v].state, !.id = thread.seen[v].id]

\* and the states saved that are not the cached ones; a file is created if need be,
SaveState(v) ==
  /\ At("save") /\ v \in thread.todo
  /\ thread' = [thread EXCEPT !.todo = @ \ {v}]
  /\ IF Unchanged(v) THEN UNCHANGED disk
     ELSE /\ cached' = [cached EXCEPT ![v] = thread.seen[v]]
          /\ file' = [file EXCEPT ![v] = Saved(v)]
  /\ UNCHANGED <<memory, flags, order, writing, queues, snapshotVBState, conn, specific,
                 ghosts>>

\* A file without a state, which is as good as dead and has the id 0.
Created(v) == IF Exists(v) THEN file[v] ELSE [NoFile EXCEPT !.state = "dead"]

\* until one fails: the file is not there or not opened, it is but without the state, or
\* the state was saved.  The snapshot is scheduled again, but the creation flags of the
\* new vbuckets that it did not come to are cleared already.
SaveStateFails(v) ==
  /\ SavesFail
  /\ At("save") /\ v \in thread.todo /\ ~Unchanged(v)
  /\ cached' = [cached EXCEPT ![v] = thread.seen[v]]
  /\ \E left \in {file[v], Created(v), Saved(v)} : file' = [file EXCEPT ![v] = left]
  /\ ScheduleVBSnapshot(thread.task)
  /\ thread' = IdleThread
  /\ Lapse({v} \cup {w \in thread.todo : ~Exists(w) /\ w \notin creation}, "failed")
  /\ UNCHANGED <<memory, flags, order, writing, ready, conn, specific, used, told>>

SnapshotEnds ==
  /\ At("save") /\ thread.todo = {}
  /\ Done({})
  /\ UNCHANGED <<memory, flags, order, writing, disk, ready, snapshotVBState, conn,
                 specific, ghosts>>

CleanQueue(v) == writing \ {v}

\* completeVBucketDeletion takes the mutex for a moment, and goes on in any case, since
\* the deletion flag is set;
BeginDeletion(v) ==
  /\ At("delete") /\ thread.task = v
  /\ ~Locked
  /\ writing' = CleanQueue(v)
  /\ thread' = [thread EXCEPT !.pc = "unlink"]
  /\ UNCHANGED <<memory, flags, order, disk, queues, snapshotVBState, conn, specific,
                 ghosts>>

\* What CouchKVStore::delVBucket leaves in cachedVBStates,
CachedAfter(v) ==
  IF order[v].recreate
  THEN [NoState EXCEPT !.state = IF cached[v] = NoState THEN "dead" ELSE cached[v].state]
  ELSE NoState

\* Mutant: the items stay in the file.
RecreatedWithItems(v, left) ==
  IF order[v].recreate THEN [file[v] EXCEPT !.state = CachedAfter(v).state, !.id = 0]
  ELSE left

\* and, with the file deleted or not, on disk.
Recreated(v, left) ==
  IF order[v].recreate THEN [left EXCEPT !.state = CachedAfter(v).state, !.id = 0] ELSE left

DeleteFile(v) ==
  /\ At("unlink") /\ thread.task = v
  /\ cached' = [cached EXCEPT ![v] = CachedAfter(v)]
  /\ file' = [file EXCEPT ![v] = Recreated(v, NoFile)]
  /\ thread' = [thread EXCEPT !.pc = "unlinked"]
  /\ UNCHANGED <<memory, flags, order, writing, queues, snapshotVBState, conn, specific,
                 ghosts>>

\* Mutant: the deletion is complete although the file was not deleted.
EndAnyway(v) ==
  /\ DeletesFail
  /\ At("unlink") /\ thread.task = v
  /\ cached' = [cached EXCEPT ![v] = CachedAfter(v)]
  /\ file' = [file EXCEPT ![v] = Recreated(v, file[v])]
  /\ thread' = [thread EXCEPT !.pc = "unlinked"]
  /\ UNCHANGED <<memory, flags, order, writing, queues, snapshotVBState, conn, specific,
                 ghosts>>

\* The task is run again if the file cannot be deleted.
DeleteFileFails(v) ==
  /\ DeletesFail
  /\ At("unlink") /\ thread.task = v
  /\ cached' = [cached EXCEPT ![v] = CachedAfter(v)]
  /\ file' = [file EXCEPT ![v] = Recreated(v, file[v])]
  /\ Done({v})
  /\ UNCHANGED <<memory, flags, order, writing, ready, snapshotVBState, conn, specific,
                 ghosts>>

\* Mutant: the client waits on if the vbucket was created again.
NotifiedUnlessMapped(v) ==
  IF Mapped(v) THEN conn ELSE [conn EXCEPT ![order[v].cookie].vb = None]

Notified(v) == [conn EXCEPT ![order[v].cookie].vb = None]

\* Who waits for the deletion is told.
EndDeletion(v) ==
  LET c == order[v].cookie IN
  /\ At("unlinked") /\ thread.task = v
  /\ deletion' = deletion \ {v}
  /\ order' = [order EXCEPT ![v] = NoOrder]
  /\ Done({})
  /\ IF c = None THEN UNCHANGED <<conn, told>>
     ELSE /\ conn' = Notified(v)
          /\ told' = IF Mapped(v) THEN told ELSE told \cup {v}
  /\ UNCHANGED <<memory, creation, writing, disk, ready, snapshotVBState, specific, used,
                 lapse>>
-----------------------------------------------------------------------------
(***************************************************************************)
(* The flusher.                                                            *)
(***************************************************************************)

\* What a dead vbucket has to be written does not count.
DiskQueueEmpty ==
  writing = {} /\ \A v \in VBs : Mapped(v) /\ map[v].state # "dead" => ~map[v].dirty

\* beginFlush with nothing to write goes through the vbuckets,
FlushNothing ==
  /\ At("flush")
  /\ DiskQueueEmpty
  /\ thread' = [thread EXCEPT !.pc = "ids", !.todo = VBs]
  /\ UNCHANGED <<memory, flags, order, writing, disk, queues, snapshotVBState, conn,
                 specific, ghosts>>

\* gets the checkpoint id of each that is not dead,
ReadId(v) ==
  /\ At("ids") /\ v \in thread.todo
  /\ thread' = IF map[v].state \notin {"none", "dead"} /\ map[v].pre > 0
               THEN [thread EXCEPT !.todo = @ \ {v}, !.pc = "id", !.vb = v,
                                   !.pre = map[v].pre]
               ELSE [thread EXCEPT !.todo = @ \ {v}]
  /\ UNCHANGED <<memory, flags, order, writing, disk, queues, snapshotVBState, conn,
                 specific, ghosts>>

\* and sets it, by the number of the vbucket: no lock is held in between,
SetId(v) ==
  /\ At("id") /\ thread.vb = v
  /\ pid' = [pid EXCEPT ![v] = thread.pre]
  /\ thread' = [thread EXCEPT !.pc = "ids", !.vb = None, !.pre = 0,
                              !.due = @ \/ pid[v] # thread.pre]
  /\ UNCHANGED <<map, flags, order, writing, disk, queues, snapshotVBState, conn,
                 specific, ghosts>>

\* before it has the new ids saved.
EndIds ==
  /\ At("ids") /\ thread.todo = {}
  /\ thread' = IdleThread
  /\ IF thread.due \/ snapshotVBState
     THEN /\ snapshotVBState' = FALSE
          /\ future' = future \cup {"flush"} \cup ({"high"} \ ready)
     ELSE future' = future \cup {"flush"} /\ UNCHANGED snapshotVBState
  /\ UNCHANGED <<memory, flags, order, writing, disk, ready, conn, specific, ghosts>>

\* Items of a new vbucket are not taken before its file is created.
TakeFrom == {v \in VBs : map[v].dirty /\ v \notin creation}

\* BeginFlush takes items if none are left of the last flush.
BeginFlush ==
  LET taken == IF writing = {} THEN TakeFrom ELSE {} IN
  /\ At("flush")
  /\ ~DiskQueueEmpty
  /\ map' = [v \in VBs |-> IF v \in taken THEN [map[v] EXCEPT !.dirty = FALSE] ELSE map[v]]
  /\ writing' = writing \cup taken
  /\ thread' = [thread EXCEPT !.pc = "pass", !.todo = writing']
  /\ Lapse({v \in taken : \E c \in Conns : conn[c].pc = "added" /\ conn[c].vb = v}, "early")
  /\ UNCHANGED <<pid, flags, order, disk, queues, snapshotVBState, conn, specific, used,
                 told>>

\* flushVBQueue: the queue of a vbucket whose file is to be created is left alone, the
\* items of one that is gone are dropped,
FlushVBQueue(v) ==
  /\ At("pass") /\ v \in thread.todo
  /\ IF v \in creation
     THEN thread' = [thread EXCEPT !.todo = @ \ {v}] /\ UNCHANGED writing
     ELSE /\ writing' = writing \ {v}
          /\ thread' = IF Mapped(v)
                       THEN [thread EXCEPT !.todo = @ \ {v}, !.pc = "item", !.vb = v,
                                           !.val = map[v].value]
                       ELSE [thread EXCEPT !.todo = @ \ {v}]
  /\ UNCHANGED <<memory, flags, order, disk, queues, snapshotVBState, conn, specific,
                 ghosts>>

Submits(v)  == v \notin deletion \cup creation
Rejected(v) == v \notin deletion /\ v \in creation

\* and the item of any other was read (flushOneDelOrSet).  Then it is dropped, rejected
\* or submitted; the checkpoint id is, in the end, that of the vbucket in hand.
FlushOneDelOrSet(v) ==
  LET chkid == CurrentPre(v) IN
  /\ At("item") /\ thread.vb = v
  /\ thread' = [thread EXCEPT !.pc = "pass", !.vb = None, !.val = 0, !.pre = 0,
                              !.old = FALSE,
                              !.sub[v] = IF Submits(v) THEN thread.val ELSE @]
  /\ writing' = IF Rejected(v) THEN writing \cup {v} ELSE writing
  /\ IF ~Rejected(v) /\ chkid > 0 /\ chkid # pid[v]
     THEN pid' = [pid EXCEPT ![v] = chkid] /\ snapshotVBState' = TRUE
     ELSE UNCHANGED <<pid, snapshotVBState>>
  /\ UNCHANGED <<map, flags, order, disk, queues, conn, specific, ghosts>>

\* commit2couchstore creates no files.
Commit ==
  /\ At("pass") /\ thread.todo = {}
  /\ file' = [v \in VBs |-> IF thread.sub[v] # 0 /\ Exists(v)
                            THEN [file[v] EXCEPT !.value = thread.sub[v]] ELSE file[v]]
  /\ thread' = [IdleThread EXCEPT !.pc = "committed"]
  /\ UNCHANGED <<memory, flags, order, writing, cached, queues, snapshotVBState, conn,
                 specific, ghosts>>

SnapshotDue == writing = {} /\ snapshotVBState

\* completeFlush, if nothing is left to be written.
CompleteFlush ==
  /\ At("committed")
  /\ thread' = IdleThread
  /\ IF SnapshotDue
     THEN /\ snapshotVBState' = FALSE
          /\ future' = future \cup {"flush"} \cup ({"high"} \ ready)
     ELSE future' = future \cup {"flush"} /\ UNCHANGED snapshotVBState
  /\ UNCHANGED <<memory, flags, order, writing, disk, ready, conn, specific, ghosts>>
-----------------------------------------------------------------------------
(***************************************************************************)
(* The process ends at any point, and starts again.                        *)
(***************************************************************************)
Restart ==
  /\ used.restarts < MaxRestarts
  /\ used' = [used EXCEPT !.restarts = @ + 1]
  /\ map' = [v \in VBs |-> InMemory(file[v])]
  /\ pid' = [v \in VBs |-> file[v].id]
  /\ cached' = [v \in VBs |-> [state |-> file[v].state, id |-> file[v].id]]
  /\ creation' = {} /\ deletion' = {} /\ order' = [v \in VBs |-> NoOrder]
  /\ writing' = {}
  /\ ready' = {} /\ future' = {"high", "flush"}
  /\ thread' = IdleThread
  /\ snapshotVBState' = FALSE
  /\ conn' = [c \in Conns |-> IdleConn] /\ specific' = {}
  /\ lapse' = [v \in VBs |-> {}]
  /\ told' = {v \in told : lapse[v] = {}}
  /\ UNCHANGED file

ThreadStep ==
  \/ \E due \in {future, future \ {"flush"}} : MoveReadyTasks(due)
  \/ \E t \in Tasks : Run(t)
  \/ ClearCreation \/ Visit \/ SnapshotEnds
  \/ FlushNothing \/ EndIds \/ BeginFlush \/ Commit \/ CompleteFlush
  \/ \E v \in VBs : \/ SaveState(v) \/ SaveStateFails(v)
                    \/ BeginDeletion(v) \/ DeleteFile(v) \/ DeleteFileFails(v)
                    \/ EndDeletion(v)
                    \/ ReadId(v) \/ SetId(v)
                    \/ FlushVBQueue(v) \/ FlushOneDelOrSet(v)

ConnStep(c) ==
  InitVBucket(c) \/ ScheduleSnapshot(c) \/ ScheduleVBDeletion(c) \/ ResetState(c) \/ Resume(c)

Next ==
  \/ ThreadStep
  \/ \E v \in VBs : Write(v) \/ NewCheckpoint(v)
  \/ \E c \in Conns :
       \/ ConnStep(c)
       \/ \E v \in VBs : \/ \E to \in States : SetVBucketState(c, v, to)
                         \/ \E sync \in BOOLEAN : DelVBucket(c, v, sync)
                         \/ DelVBucketAgain(c, v)
                         \/ ResetVBucket(c, v)
  \/ Restart

Spec == Init /\ [][Next]_vars
-----------------------------------------------------------------------------
(***************************************************************************)
(* Properties.                                                             *)
(***************************************************************************)

\* Types; a queued deletion has its flag set.
TypeOK ==
  /\ map \in [VBs -> [state : States \cup {"none"}, value : 0..MaxWrites,
                      dirty : BOOLEAN, pre : 0..1]]
  /\ pid \in [VBs -> 0..1]
  /\ creation \subseteq VBs /\ deletion \subseteq VBs /\ writing \subseteq VBs
  /\ order \in [VBs -> [recreate : BOOLEAN, cookie : Conns \cup {None}]]
  /\ cached \in [VBs -> [state : States \cup {"none"}, id : 0..1]]
  /\ file \in [VBs -> [state : States \cup {"none"}, value : 0..MaxWrites, id : 0..1]]
  /\ ready \subseteq Tasks /\ future \subseteq Tasks
  /\ snapshotVBState \in BOOLEAN
  /\ specific \subseteq Conns /\ told \subseteq VBs
  /\ (ready \cup future) \cap VBs \subseteq deletion

Faultless(v) == lapse[v] = {}

\* No command is half way and no task is due that would write a state.
Quiet ==
  /\ \A c \in Conns : conn[c].pc \in {"idle", "waiting"}
  /\ thread.pc = "idle"
  /\ (ready \cup future) \subseteq {"flush"}
  /\ ~snapshotVBState

\* Once all scheduled tasks were run, each vbucket in memory has a file with its state
\* and its last persisted checkpoint id, and there is no other file: no change is lost
\* on its way through the flags, however calls and tasks overlap.
SettledOnDisk ==
  Quiet => \A v \in VBs : Faultless(v) =>
    /\ file[v].state = map[v].state
    /\ Mapped(v) => file[v].id = pid[v]

\* A document that the file does not have is queued, or is in the flusher's hands.
NothingDropped ==
  \A v \in VBs : Faultless(v) /\ map[v].value # 0 =>
    \/ file[v].value = map[v].value
    \/ map[v].dirty \/ v \in writing
    \/ At("item") /\ thread.vb = v
    \/ thread.sub[v] = map[v].value

\* The file of a vbucket that is empty in memory is empty, or is going to be deleted: the
\* items of an earlier vbucket with the same id never come back.
NoOldItems ==
  Quiet => \A v \in VBs : Faultless(v) /\ map[v].value = 0 => file[v].value = 0

\* The flusher submits nothing to a file that is not there ("Wait until the vbucket
\* database is created by the vbucket state snapshot task").
SubmittedHasFile == \A v \in VBs : Faultless(v) /\ thread.sub[v] # 0 => Exists(v)

\* The id that is kept as the last persisted checkpoint is one that this vbucket had,
\* not an earlier vbucket with the same id.
PersistedIdIsOwn ==
  \A v \in VBs : Faultless(v) /\ Mapped(v) /\ ~(\E c \in Conns : conn[c].pc = "added")
    => pid[v] <= map[v].pre

\* A deletion is reported to the waiting client when the file is gone, and it does not
\* come back, restarts included, until the vbucket is created again.
ToldDeletionDone == \A v \in told : Faultless(v) => ~Exists(v)

\* A synchronous deletion that was reported as completed has deleted the file.
SyncDeletionDone == \A v \in told : ~Exists(v)

\* The threads go on, and CouchDB does not always fail.
Fairness ==
  /\ WF_vars(ThreadStep)
  /\ \A v \in VBs : SF_vars(DeleteFile(v))
  /\ \A c \in Conns : WF_vars(ConnStep(c))

FairSpec == Spec /\ Fairness

\* (An item of a dead vbucket is written only if one of another vbucket is, too.)
Agrees(v) ==
  /\ file[v].state = map[v].state
  /\ map[v].state # "dead" => file[v].value = map[v].value

\* When no more commands come, the states of the vbuckets and the items of those not dead
\* are on disk in the end, and no client still waits for a deletion.
Settles ==
  <>[](\/ \E v \in VBs : lapse[v] # {}
       \/ /\ \A v \in VBs : Agrees(v)
          /\ \A c \in Conns : conn[c].pc = "idle")
=============================================================================
