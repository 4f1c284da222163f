--------------------------- MODULE VBucketMap_proofs ---------------------------
(***************************************************************************)
(* For every set of vbuckets, connections and states: no change of a       *)
(* vbucket is lost on its way through the flags that connections and tasks *)
(* share, no document is dropped, an earlier vbucket's items and checkpoint *)
(* id do not come back, and a deletion that was reported is done.          *)
(*                                                                         *)
(* What is proved of a vbucket holds until one of the lapses that the flags *)
(* do not cover happens to it.  Of the properties, each rests on what the  *)
(* flags mean in between: where the deletion flag is set, and what of the  *)
(* vbucket is in which queue.  They are proved together, as IInv.          *)
(***************************************************************************)
EXTENDS VBucketMap, TLAPS
-----------------------------------------------------------------------------
(***************************************************************************)
(* The inductive invariant: the thread, the connections and the flags.     *)
(***************************************************************************)

VBState == States \cup {"none"}
Values  == 0..MaxWrites
VBRec   == [state : VBState, value : Values, dirty : BOOLEAN, pre : 0..1]
FileRec == [state : VBState, value : Values, id : 0..1]
SavedRec == [state : VBState, id : 0..1]
Orders  == [recreate : BOOLEAN, cookie : Conns \cup {None}]

MapOK    == map \in [VBs -> VBRec] /\ pid \in [VBs -> 0..1]
DiskOK   == cached \in [VBs -> SavedRec] /\ file \in [VBs -> FileRec]
OrderOK  == order \in [VBs -> Orders]
QueuesOK == ready \subseteq Tasks /\ future \subseteq Tasks
SetsOK   ==
  /\ creation \subseteq VBs /\ deletion \subseteq VBs /\ writing \subseteq VBs
  /\ snapshotVBState \in BOOLEAN
  /\ specific \subseteq Conns /\ told \subseteq VBs

Deleting     == {"delete", "unlink", "unlinked"}
Snapshotting == {"snapshot", "visit", "save"}
Renewing     == {"ids", "id"}
Flushing     == {"flush", "pass", "item", "committed"} \cup Renewing
ThreadPC     == {"idle"} \cup Deleting \cup Snapshotting \cup Flushing
Task         == Tasks \cup {"none"}
MaybeVB      == VBs \cup {None}
ThreadRec ==
  [pc : ThreadPC, task : Task, vb : MaybeVB, todo : SUBSET VBs, seen : [VBs -> SavedRec],
   val : Values, pre : 0..1, old : BOOLEAN, due : BOOLEAN, sub : [VBs -> Values]]
ThreadOK == thread \in ThreadRec

ConnPC  == {"idle", "changed", "added", "created", "removed", "reset", "deleted", "waiting"}
ConnRec == [pc : ConnPC, vb : MaybeVB, to : VBState, order : Orders]
ConnOK  == conn \in [Conns -> ConnRec]

UsedRec == [writes : [VBs -> Values], calls : Nat, restarts : Nat]
UsedOK  == used \in UsedRec

Types ==
  MapOK /\ DiskOK /\ OrderOK /\ QueuesOK /\ SetsOK /\ ThreadOK /\ ConnOK /\ UsedOK

ThreadShape ==
  /\ thread.pc \notin Deleting => thread.task \notin VBs
  /\ thread.pc \in Snapshotting => thread.task \in {"high", "low"}
  /\ thread.pc \notin {"pass", "item"} => thread.sub = Nothing
  /\ thread.pc \notin Renewing => ~thread.due
  /\ thread.pc # "item" => ~thread.old

\* A command knows its vbucket; only a deletion is waited for, and only by its own client.
ConnShape ==
  \A c \in Conns :
    /\ conn[c].order.cookie \in {None, c}
    /\ conn[c].order.recreate => conn[c].order.cookie = None
    /\ conn[c].pc \in {"added", "removed", "reset"} => conn[c].vb \in VBs
    /\ conn[c].pc = "reset" => conn[c].to \in States
    /\ conn[c].pc = "removed" /\ conn[c].order.recreate => conn[c].to \in States

OrderShape ==
  \A v \in VBs :
    /\ order[v].recreate => order[v].cookie = None
    /\ order[v].cookie # None =>
         /\ conn[order[v].cookie].pc \in {"deleted", "waiting"}
         /\ conn[order[v].cookie].vb = v
         /\ conn[order[v].cookie].order.cookie # None

\* The deletion flag is set as long as the task of the deletion is somewhere, once.
Queued(t) == t \in ready \/ t \in future
DeletionFlags ==
  \A v \in VBs :
    /\ (v \in deletion) <=> (Queued(v) \/ thread.task = v)
    /\ thread.task = v => ~Queued(v)
    /\ ~(v \in ready /\ v \in future)

\* Creation flags are set as long as a snapshot is to come that clears them.
CreationFlags ==
  creation # {} => \/ \E c \in Conns : conn[c].pc = "created"
                   \/ Queued("high")
                   \/ At("snapshot") /\ thread.task = "high"

RecordShape ==
  \A v \in VBs :
    /\ ~Mapped(v) => map[v] = NoVB
    /\ map[v].dirty => map[v].value # 0
    /\ ~Exists(v) => file[v] = NoFile
    /\ cached[v].state = "none" => cached[v] = NoState

Saving(v) == At("save") /\ v \in thread.todo
SaveShape == \A v \in VBs : Saving(v) => thread.seen[v].state # "none"

\* The queue is cleaned before the file is unlinked.
CleanShape == \A v \in VBs : At("unlink") /\ thread.task = v => v \notin writing

\* The flusher goes through vbuckets that have an item.
PassShape == thread.pc \in {"pass", "item"} => thread.todo \subseteq writing

Shapes ==
  /\ ThreadShape /\ ConnShape /\ OrderShape /\ DeletionFlags /\ CreationFlags
  /\ RecordShape /\ SaveShape /\ CleanShape /\ PassShape
-----------------------------------------------------------------------------
(***************************************************************************)
(* What holds of a vbucket without lapses.                                 *)
(***************************************************************************)

Added(v)     == \E c \in Conns : conn[c].pc = "added" /\ conn[c].vb = v
Removing(v)  == \E c \in Conns : conn[c].pc = "removed" /\ conn[c].vb = v
Restoring(v) == \E c \in Conns : conn[c].pc \in {"removed", "reset"} /\ conn[c].vb = v
InHand(v)    == At("item") /\ thread.vb = v
Unlinked(v)  == At("unlinked") /\ thread.task = v

\* A vbucket in memory whose deletion is under way is a new one, and its creation is
\* flagged: nothing of it was written.
AgainFlagged(v) == v \in deletion /\ Mapped(v) => v \in creation \/ Added(v)
AgainUnsaved(v) == v \in deletion /\ Mapped(v) => map[v].value = 0 \/ map[v].dirty

\* What the flusher holds is of this vbucket, and not older than what is queued.
HandIsCurrent(v) ==
  InHand(v) =>
    /\ Mapped(v) /\ ~thread.old
    /\ thread.val = map[v].value \/ map[v].dirty
SubIsCurrent(v) ==
  thread.sub[v] # 0 /\ map[v].value # 0 => thread.sub[v] = map[v].value \/ map[v].dirty

\* What is on disk of a vbucket that is not in memory is going to be deleted, or else
\* the connection that removed the vbucket is about to set it again.
LeftIsRestored(v) ==
  ~Mapped(v) /\ v \notin deletion /\ (Exists(v) \/ Saving(v)) => Restoring(v)
RecreateIsRestored(v) ==
  ~Mapped(v) /\ v \in deletion /\ order[v].recreate => Restoring(v)

CacheIsFile(v) ==
  v \notin deletion \/ Unlinked(v) => cached[v] = [state |-> file[v].state, id |-> file[v].id]
UnlinkedIsEmpty(v) ==
  Unlinked(v) => file[v].value = 0 /\ (~order[v].recreate => ~Exists(v))

\* Until a state is saved, a snapshot is to come that will save it.
SnapshotToCome ==
  \/ \E c \in Conns : conn[c].pc \in {"changed", "created", "deleted"}
  \/ Queued("high") \/ Queued("low") \/ snapshotVBState \/ thread.due
  \/ At("snapshot") \/ At("visit")
Due(v)  == SnapshotToCome \/ Added(v) \/ (~Mapped(v) /\ Restoring(v))
Same(v) == file[v].state = map[v].state /\ (Mapped(v) => file[v].id = pid[v])
Seen(v) == thread.seen[v] = [state |-> map[v].state, id |-> pid[v]]
Settled(v) ==
  Due(v) \/ v \in deletion \/ (IF Saving(v) THEN Mapped(v) /\ Seen(v) ELSE Same(v))

OldIsDeleted(v) ==
  map[v].value = 0 /\ (file[v].value # 0 \/ thread.sub[v] # 0) => v \in deletion \/ Removing(v)

\* A new vbucket has its file when both its flags are clear, and what is written has one.
NewHasFile(v) ==
  Mapped(v) /\ v \notin creation /\ v \notin deletion /\ ~Added(v) =>
    Exists(v) \/ At("visit") \/ Saving(v)
WrittenHasFile(v) == v \in writing \/ InHand(v) \/ thread.sub[v] # 0 => Exists(v)

\* The id that is kept, and the one that the flusher is about to set, are this vbucket's.
IdIsOwn(v) == Mapped(v) /\ ~Added(v) => pid[v] <= map[v].pre
HeldIdIsOwn(v) ==
  At("id") /\ thread.vb = v /\ Mapped(v) /\ ~Added(v) => thread.pre <= map[v].pre

Kept(v) ==
  map[v].value # 0 =>
    \/ file[v].value = map[v].value
    \/ map[v].dirty \/ v \in writing
    \/ InHand(v)
    \/ thread.sub[v] = map[v].value

ToldIsGone(v) ==
  v \in told =>
    ~Exists(v) /\ ~Mapped(v) /\ ~Saving(v) /\ (v \in deletion => ~order[v].recreate)

Sound(v) ==
  /\ AgainFlagged(v) /\ AgainUnsaved(v) /\ HandIsCurrent(v) /\ SubIsCurrent(v)
  /\ LeftIsRestored(v) /\ RecreateIsRestored(v) /\ CacheIsFile(v) /\ UnlinkedIsEmpty(v)
  /\ Settled(v) /\ OldIsDeleted(v) /\ NewHasFile(v) /\ WrittenHasFile(v) /\ IdIsOwn(v)
  /\ Kept(v) /\ ToldIsGone(v) /\ HeldIdIsOwn(v)

EachSound == \A v \in VBs : Faultless(v) => Sound(v)

IInv == Types /\ Shapes /\ EachSound
-----------------------------------------------------------------------------
(***************************************************************************)
(* Facts about the constants.                                              *)
(***************************************************************************)
\* What the assumptions on the constants say, one by one.
LEMMA Limits == MaxWrites \in Nat /\ MaxWrites > 0
  BY LimitsAssumption

\* The names of threads, queues and states differ.
LEMMA Names ==
  /\ "high" \notin VBs /\ "flush" \notin VBs /\ "low" \notin VBs /\ "none" \notin VBs
  /\ None \notin VBs /\ None \notin Conns
  /\ "none" \notin States /\ "dead" \in States /\ States \subseteq VBState
  BY TasksAssumption, NoneAssumption, StatesAssumption DEF VBState

\* The places of the dispatcher's thread.
LEMMA ThreadPCs ==
  /\ "idle" \in ThreadPC
  /\ "snapshot" \in ThreadPC /\ "visit" \in ThreadPC /\ "save" \in ThreadPC
  /\ "delete" \in ThreadPC /\ "unlink" \in ThreadPC /\ "unlinked" \in ThreadPC
  /\ "flush" \in ThreadPC /\ "pass" \in ThreadPC /\ "item" \in ThreadPC
  /\ "committed" \in ThreadPC /\ "ids" \in ThreadPC /\ "id" \in ThreadPC
  BY DEF ThreadPC, Deleting, Snapshotting, Flushing, Renewing

\* Between two tasks the thread has nothing in hand.
LEMMA Idle ==
  /\ IdleThread \in ThreadRec
  /\ IdleThread.pc = "idle" /\ IdleThread.task = "none" /\ IdleThread.vb = None
  /\ IdleThread.todo = {} /\ IdleThread.val = 0 /\ IdleThread.pre = 0
  /\ ~IdleThread.old /\ ~IdleThread.due
  /\ IdleThread.sub = Nothing /\ \A v \in VBs : Nothing[v] = 0
<1>1. 0 \in Values /\ 0 \in 0..1 /\ "none" \in Task /\ None \in MaybeVB
  BY Limits DEF Values, Task, MaybeVB
<1>2. NoState \in SavedRec
  BY DEF NoState, SavedRec, VBState
<1>3. Nothing \in [VBs -> Values] /\ [v \in VBs |-> NoState] \in [VBs -> SavedRec]
  BY <1>1, <1>2 DEF Nothing
<1> QED
  BY <1>1, <1>3, ThreadPCs DEF IdleThread, ThreadRec, Nothing
-----------------------------------------------------------------------------
(***************************************************************************)
(* The clients and the flusher.                                            *)
(***************************************************************************)
\* A new value is dirty.
LEMMA WriteKeeps ==
  ASSUME IInv, NEW v \in VBs, Write(v)
  PROVE  IInv'
<1>1. MapOK /\ DiskOK /\ OrderOK /\ QueuesOK /\ SetsOK /\ ThreadOK /\ ConnOK /\
      UsedOK /\ ThreadShape /\ ConnShape /\ OrderShape /\ DeletionFlags /\
      CreationFlags /\ RecordShape /\ SaveShape /\ CleanShape /\ PassShape
  BY DEF IInv, Types, Shapes
<1>2. UNCHANGED <<pid, creation, deletion, order, writing, cached, file, ready, future,
                  thread, snapshotVBState, conn, specific, told, lapse>>
  BY DEF Write, Mapped, memory, flags, disk, queues, ghosts
<1>3. PICK n : /\ n = [used.writes EXCEPT ![v] = @ + 1]
               /\ used.writes[v] < MaxWrites
               /\ used' = [used EXCEPT !.writes = n]
  BY Zenon DEF Write
<1>4. n \in [VBs -> Values]
  BY <1>1, <1>3, Limits DEF UsedOK, UsedRec, Values
<1>5. PICK m \in Values : m # 0 /\ m = used'.writes[v]
  BY <1>1, <1>3, Limits DEF UsedOK, UsedRec, Values
<1>6. map' = [map EXCEPT ![v].value = m, ![v].dirty = TRUE]
  BY Zenon, <1>5 DEF Write
<1>7. Types'
  <2>1. MapOK'
    BY <1>1, <1>2, <1>6 DEF MapOK, VBRec, UsedOK, UsedRec
  <2>2. UsedOK'
    BY <1>1, <1>2, <1>3, <1>4 DEF UsedOK, UsedRec
  <2> QED
    BY <1>1, <1>2, <2>1, <2>2
     DEF Types, DiskOK, OrderOK, QueuesOK, SetsOK, ThreadOK, ConnOK
<1>8. Shapes'
  <2>1. RecordShape'
    BY <1>1, <1>2, <1>5, <1>6 DEF RecordShape, Mapped, Exists, MapOK, VBRec, Write
  <2> QED
    BY <1>1, <1>2, <2>1
     DEF Shapes, ThreadShape, ConnShape, OrderShape, DeletionFlags, CreationFlags,
         SaveShape, CleanShape, PassShape, At, Deleting, Flushing, Renewing, Queued,
         Saving,
         Snapshotting
<1>9. ASSUME NEW w \in VBs, Faultless(w)'
      PROVE  Sound(w)'
  <2>1. Faultless(w) /\ Sound(w)
    BY <1>2, <1>9 DEF IInv, Faultless, EachSound
  <2>2. AgainFlagged(w)'
    BY <1>1, <1>2, <2>1 DEF AgainFlagged, Sound, Mapped, Added, MapOK, VBRec, Write
  <2>3. AgainUnsaved(w)'
    BY <1>1, <1>2, <2>1 DEF AgainUnsaved, Sound, Mapped, MapOK, VBRec, Write
  <2>4. HandIsCurrent(w)'
    BY <1>1, <1>2, <2>1
     DEF HandIsCurrent, Sound, InHand, At, Mapped, MapOK, VBRec, Write
  <2>5. SubIsCurrent(w)'
    BY <1>1, <1>2, <2>1 DEF SubIsCurrent, Sound, MapOK, VBRec, Write, Mapped
  <2>6. LeftIsRestored(w)'
    BY <1>1, <1>2, <2>1
     DEF LeftIsRestored, Sound, Mapped, Exists, Saving, At, Restoring, MapOK, VBRec,
         Write
  <2>7. RecreateIsRestored(w)'
    BY <1>1, <1>2, <2>1
     DEF RecreateIsRestored, Sound, Mapped, Restoring, MapOK, VBRec, Write
  <2>8. Settled(w)'
    BY <1>1, <1>2, <2>1
     DEF Settled, Sound, Due, SnapshotToCome, ThreadShape, Renewing, Added, Restoring,
         Mapped, Queued, At,
         Same, Saving, Seen, MapOK, VBRec, Write
  <2>9. OldIsDeleted(w)'
    BY <1>1, <1>2, <2>1, <1>5, <1>6
     DEF OldIsDeleted, Sound, Removing, MapOK, VBRec, Write, Mapped, UsedOK
  <2>10. NewHasFile(w)'
    BY <1>1, <1>2, <2>1
     DEF NewHasFile, Sound, Mapped, Added, Exists, At, Saving, MapOK, VBRec, Write
  <2>11. IdIsOwn(w)'
    BY <1>1, <1>2, <2>1 DEF IdIsOwn, Sound, Mapped, Added, MapOK, VBRec, Write
  <2>12. Kept(w)'
    BY <1>1, <1>2, <2>1
     DEF Kept, Sound, InHand, At, ThreadShape, MapOK, VBRec, Write, Mapped
  <2>13. ToldIsGone(w)'
    BY <1>1, <1>2, <2>1
     DEF ToldIsGone, Sound, Exists, Mapped, Saving, At, MapOK, VBRec, Write
  <2>14. HeldIdIsOwn(w)'
    BY <1>1, <1>2, <2>1
     DEF HeldIdIsOwn, Sound, Mapped, Added, Exists, At, Saving, MapOK, VBRec, Write
  <2> QED
    BY <1>2, <2>1, <2>2, <2>3, <2>4, <2>5, <2>6, <2>7, <2>8, <2>9, <2>10, <2>11, <2>12,
       <2>13, <2>14
     DEF Sound, CacheIsFile, UnlinkedIsEmpty, WrittenHasFile, At, Exists, InHand,
         Unlinked
<1> QED
  BY <1>7, <1>8, <1>9 DEF IInv, EachSound

\* The checkpoint id grows ahead of the persisted one.
LEMMA NewCheckpointKeeps ==
  ASSUME IInv, NEW v \in VBs, NewCheckpoint(v)
  PROVE  IInv'
<1>1. MapOK /\ DiskOK /\ OrderOK /\ QueuesOK /\ SetsOK /\ ThreadOK /\ ConnOK /\
      UsedOK /\ ThreadShape /\ ConnShape /\ OrderShape /\ DeletionFlags /\
      CreationFlags /\ RecordShape /\ SaveShape /\ CleanShape /\ PassShape
  BY DEF IInv, Types, Shapes
<1>2. UNCHANGED <<pid, creation, deletion, order, writing, cached, file, ready, future,
                  thread, snapshotVBState, conn, specific, used, told, lapse>>
  BY DEF NewCheckpoint, Mapped, memory, flags, disk, queues, ghosts
<1>3. /\ map'[v].pre = 1 /\ map'[v].state = map[v].state
      /\ \A w \in VBs \ {v} : map'[w] = map[w]
  BY <1>1 DEF MapOK, VBRec, NewCheckpoint
<1>4. Types'
  <2>1. MapOK'
    BY <1>1, <1>2 DEF MapOK, VBRec, NewCheckpoint, Mapped
  <2> QED
    BY <1>1, <1>2, <2>1
     DEF Types, DiskOK, OrderOK, QueuesOK, SetsOK, ThreadOK, ConnOK, UsedOK
<1>5. Shapes'
  <2>1. RecordShape'
    BY <1>1, <1>2 DEF RecordShape, Mapped, Exists, MapOK, VBRec, NewCheckpoint
  <2> QED
    BY <1>1, <1>2, <2>1
     DEF Shapes, ThreadShape, ConnShape, OrderShape, DeletionFlags, CreationFlags,
         SaveShape, CleanShape, PassShape, At, Deleting, Flushing, Renewing, Queued,
         Saving,
         Snapshotting
<1>6. ASSUME NEW w \in VBs, Faultless(w)'
      PROVE  Sound(w)'
  <2>1. Faultless(w) /\ Sound(w)
    BY <1>2, <1>6 DEF IInv, Faultless, EachSound
  <2>2. AgainFlagged(w)'
    BY <1>1, <1>2, <2>1
     DEF AgainFlagged, Sound, Mapped, Added, MapOK, VBRec, NewCheckpoint
  <2>3. AgainUnsaved(w)'
    BY <1>1, <1>2, <2>1 DEF AgainUnsaved, Sound, Mapped, MapOK, VBRec, NewCheckpoint
  <2>4. HandIsCurrent(w)'
    BY <1>1, <1>2, <2>1, <1>3
     DEF HandIsCurrent, Sound, InHand, At, Mapped, MapOK, VBRec, NewCheckpoint,
         ThreadOK, ThreadRec
  <2>5. SubIsCurrent(w)'
    BY <1>1, <1>2, <2>1 DEF SubIsCurrent, Sound, MapOK, VBRec, NewCheckpoint, Mapped
  <2>6. LeftIsRestored(w)'
    BY <1>1, <1>2, <2>1
     DEF LeftIsRestored, Sound, Mapped, Exists, Saving, At, Restoring, MapOK, VBRec,
         NewCheckpoint
  <2>7. RecreateIsRestored(w)'
    BY <1>1, <1>2, <2>1
     DEF RecreateIsRestored, Sound, Mapped, Restoring, MapOK, VBRec, NewCheckpoint
  <2>8. Settled(w)'
    BY <1>1, <1>2, <2>1
     DEF Settled, Sound, Due, SnapshotToCome, ThreadShape, Renewing, Added, Restoring,
         Mapped, Queued, At,
         Same, Saving, Seen, MapOK, VBRec, NewCheckpoint
  <2>9. OldIsDeleted(w)'
    BY <1>1, <1>2, <2>1
     DEF OldIsDeleted, Sound, Removing, MapOK, VBRec, NewCheckpoint, Mapped
  <2>10. NewHasFile(w)'
    BY <1>1, <1>2, <2>1
     DEF NewHasFile, Sound, Mapped, Added, Exists, At, Saving, MapOK, VBRec,
         NewCheckpoint
  <2>11. IdIsOwn(w)'
    <3>1. pid[w] \in 0..1
      BY <1>1 DEF MapOK
    <3>2. IdIsOwn(w) /\ pid'[w] = pid[w] /\ (Added(w)' <=> Added(w))
      BY <1>2, <2>1 DEF Sound, Added
    <3>3. CASE w = v
      BY <1>3, <3>1, <3>2, <3>3 DEF IdIsOwn
    <3>4. CASE w # v
      BY <1>3, <3>2, <3>4 DEF IdIsOwn, Mapped
    <3> QED
      BY <3>3, <3>4
  <2>12. Kept(w)'
    BY <1>1, <1>2, <2>1
     DEF Kept, Sound, InHand, At, ThreadShape, MapOK, VBRec, NewCheckpoint, Mapped
  <2>13. ToldIsGone(w)'
    BY <1>1, <1>2, <2>1
     DEF ToldIsGone, Sound, Exists, Mapped, Saving, At, MapOK, VBRec, NewCheckpoint
  <2>14. HeldIdIsOwn(w)'
    <3>1. thread.pre \in 0..1
      BY <1>1 DEF ThreadOK, ThreadRec
    <3>2. /\ HeldIdIsOwn(w) /\ (Added(w)' <=> Added(w)) /\ (Mapped(w)' <=> Mapped(w))
          /\ thread' = thread /\ (map'[w].pre = 1 \/ map'[w].pre = map[w].pre)
      BY <1>2, <1>3, <2>1 DEF Sound, Added, Mapped
    <3> QED
      BY <3>1, <3>2 DEF HeldIdIsOwn, At
  <2> QED
    BY <1>2, <2>1, <2>2, <2>3, <2>4, <2>5, <2>6, <2>7, <2>8, <2>9, <2>10, <2>11, <2>12,
       <2>13, <2>14
     DEF Sound, CacheIsFile, UnlinkedIsEmpty, WrittenHasFile, At, Exists, InHand,
         Unlinked
<1> QED
  BY <1>4, <1>5, <1>6 DEF IInv, EachSound

\* An item that a deletion makes the flusher drop is of no value, or queued again.
LEMMA FlushOneKeeps ==
  ASSUME IInv, NEW v \in VBs, FlushOneDelOrSet(v)
  PROVE  IInv'
<1>1. MapOK /\ DiskOK /\ OrderOK /\ QueuesOK /\ SetsOK /\ ThreadOK /\ ConnOK /\
      UsedOK /\ ThreadShape /\ ConnShape /\ OrderShape /\ DeletionFlags /\
      CreationFlags /\ RecordShape /\ SaveShape /\ CleanShape /\ PassShape
  BY DEF IInv, Types, Shapes
<1>2. UNCHANGED <<map, creation, deletion, order, cached, file, ready, future, conn,
                  specific, used, told, lapse>>
  BY
   DEF FlushOneDelOrSet, CurrentPre, At, Submits, Rejected, memory, flags, disk, queues,
       ghosts
<1>3. Types'
  <2>1. MapOK'
    BY <1>1, <1>2
     DEF MapOK, VBRec, CurrentPre, SetsOK, ThreadOK, ThreadRec, FlushOneDelOrSet, At,
         Submits,
         Rejected
  <2>2. SetsOK'
    BY <1>1, <1>2
     DEF SetsOK, MapOK, VBRec, ThreadOK, ThreadRec, FlushOneDelOrSet, At, Submits,
         Rejected
  <2>3. ThreadOK'
    <3>1. thread'.sub \in [VBs -> Values]
      BY <1>1 DEF ThreadOK, ThreadRec, FlushOneDelOrSet
    <3>2. thread' = [thread EXCEPT !.pc = "pass", !.vb = None, !.val = 0, !.pre = 0,
                                   !.old = FALSE, !.sub = thread'.sub]
      BY <1>1 DEF ThreadOK, ThreadRec, FlushOneDelOrSet
    <3>3. 0 \in Values /\ 0 \in 0..1 /\ "pass" \in ThreadPC /\ None \in MaybeVB
      BY Limits DEF ThreadPC, Flushing, Renewing, Values, MaybeVB
    <3> QED
      BY <1>1, <3>1, <3>2, <3>3 DEF ThreadOK, ThreadRec
  <2> QED
    BY <1>1, <1>2, <2>1, <2>2, <2>3 DEF Types, DiskOK, OrderOK, QueuesOK, ConnOK, UsedOK
<1>4. Shapes'
  <2>1. ThreadShape'
    BY <1>1, <1>2
     DEF ThreadShape, Deleting, Snapshotting, Flushing, Renewing, ThreadOK, ThreadRec,
         FlushOneDelOrSet, At, Submits, Rejected
  <2>2. DeletionFlags'
    BY <1>1, <1>2
     DEF DeletionFlags, Queued, ThreadShape, Deleting, ThreadOK, ThreadRec,
         FlushOneDelOrSet, At, Submits, Rejected
  <2>3. CreationFlags'
    BY <1>1, <1>2
     DEF CreationFlags, Queued, At, ThreadOK, ThreadRec, FlushOneDelOrSet, Submits,
         Rejected
  <2>4. SaveShape'
    BY <1>1, <1>2
     DEF SaveShape, Saving, At, ThreadOK, ThreadRec, FlushOneDelOrSet, Submits, Rejected
  <2>5. CleanShape'
    BY <1>1, <1>2
     DEF CleanShape, At, SetsOK, ThreadOK, ThreadRec, FlushOneDelOrSet, Submits,
         Rejected
  <2>6. PassShape'
    BY <1>1, <1>2
     DEF PassShape, SetsOK, ThreadOK, ThreadRec, FlushOneDelOrSet, At, Submits, Rejected
  <2> QED
    BY <1>1, <1>2, <2>1, <2>2, <2>3, <2>4, <2>5, <2>6
     DEF Shapes, ConnShape, OrderShape, RecordShape, Exists, Mapped
<1>5. ASSUME NEW w \in VBs, Faultless(w)'
      PROVE  Sound(w)'
  <2>1. Faultless(w) /\ Sound(w)
    BY <1>2, <1>5 DEF IInv, Faultless, EachSound
  <2>2. HandIsCurrent(w)'
    BY <1>1, <1>2, <2>1
     DEF HandIsCurrent, Sound, InHand, At, Mapped, ThreadOK, ThreadRec,
         FlushOneDelOrSet, Submits, Rejected
  <2>3. SubIsCurrent(w)'
    BY <1>1, <1>2, <2>1
     DEF SubIsCurrent, Sound, ThreadOK, ThreadRec, FlushOneDelOrSet, At, Submits,
         Rejected, HandIsCurrent, InHand
  <2>4. LeftIsRestored(w)'
    BY <1>1, <1>2, <2>1
     DEF LeftIsRestored, Sound, Mapped, Exists, Saving, At, Restoring, ThreadOK,
         ThreadRec, FlushOneDelOrSet, Submits, Rejected
  <2>5. CacheIsFile(w)'
    BY <1>1, <1>2, <2>1
     DEF CacheIsFile, Sound, Unlinked, At, ThreadOK, ThreadRec, FlushOneDelOrSet,
         Submits, Rejected
  <2>6. UnlinkedIsEmpty(w)'
    BY <1>1, <1>2, <2>1
     DEF UnlinkedIsEmpty, Sound, Unlinked, At, Exists, ThreadOK, ThreadRec,
         FlushOneDelOrSet, Submits, Rejected
  <2>7. Settled(w)'
    BY <1>1, <1>2, <2>1
     DEF Settled, Sound, Due, SnapshotToCome, ThreadShape, Renewing, Added, Restoring,
         Mapped, Queued, At,
         Same, Saving, Seen, MapOK, VBRec, SetsOK, ThreadOK, ThreadRec,
         FlushOneDelOrSet, Submits, Rejected
  <2>8. OldIsDeleted(w)'
    BY <1>1, <1>2, <2>1
     DEF OldIsDeleted, Sound, Removing, ThreadOK, ThreadRec, FlushOneDelOrSet, At,
         Submits, Rejected, HandIsCurrent, InHand, RecordShape
  <2>9. NewHasFile(w)'
    BY <1>1, <1>2, <2>1
     DEF NewHasFile, Sound, Mapped, Added, Exists, At, Saving, ThreadOK, ThreadRec,
         FlushOneDelOrSet, Submits, Rejected
  <2>10. WrittenHasFile(w)'
    BY <1>1, <1>2, <2>1
     DEF WrittenHasFile, Sound, InHand, At, Exists, SetsOK, ThreadOK, ThreadRec,
         FlushOneDelOrSet, Submits, Rejected
  <2>11. IdIsOwn(w)'
    BY <1>1, <1>2, <2>1
     DEF IdIsOwn, CurrentPre, Sound, Mapped, Added, MapOK, VBRec, FlushOneDelOrSet, At,
         Submits,
         Rejected, HandIsCurrent, InHand
  <2>12. Kept(w)'
    BY <1>1, <1>2, <2>1
     DEF Kept, Sound, InHand, At, ThreadShape, SetsOK, ThreadOK, ThreadRec,
         FlushOneDelOrSet, Submits, Rejected, HandIsCurrent, AgainUnsaved, AgainFlagged
  <2>13. ToldIsGone(w)'
    BY <1>1, <1>2, <2>1
     DEF ToldIsGone, Sound, Exists, Mapped, Saving, At, ThreadOK, ThreadRec,
         FlushOneDelOrSet, Submits, Rejected
  <2>14. HeldIdIsOwn(w)'
    BY <1>1, <1>2, <2>1
     DEF HeldIdIsOwn, Sound, Mapped, Added, Exists, At, Saving, ThreadOK, ThreadRec,
         FlushOneDelOrSet, Submits, Rejected
  <2> QED
    BY <1>2, <2>1, <2>2, <2>3, <2>4, <2>5, <2>6, <2>7, <2>8, <2>9, <2>10, <2>11, <2>12,
       <2>13, <2>14
     DEF Sound, AgainFlagged, AgainUnsaved, RecreateIsRestored, Added, Mapped, Restoring
<1> QED
  BY <1>3, <1>4, <1>5 DEF IInv, EachSound
-----------------------------------------------------------------------------
(***************************************************************************)
(* The dispatcher, the snapshots, and the flusher from its queue to the commit.*)
(***************************************************************************)
\* The dispatcher: tasks move from queue to queue, and one is run.
LEMMA MoveReadyKeeps ==
  ASSUME IInv, NEW due \in {future, future \ {"flush"}}, MoveReadyTasks(due)
  PROVE  IInv'
<1>1. MapOK /\ DiskOK /\ OrderOK /\ QueuesOK /\ SetsOK /\ ThreadOK /\ ConnOK /\
      UsedOK /\ ThreadShape /\ ConnShape /\ OrderShape /\ DeletionFlags /\
      CreationFlags /\ RecordShape /\ SaveShape /\ CleanShape /\ PassShape
  BY DEF IInv, Types, Shapes
<1>2. UNCHANGED <<map, pid, creation, deletion, order, writing, cached, file, thread,
                  snapshotVBState, conn, specific, used, told, lapse>>
  BY DEF MoveReadyTasks, At, memory, flags, disk, queues, ghosts
<1>3. Types'
  <2>1. QueuesOK'
    BY <1>1, <1>2 DEF QueuesOK, Tasks, MoveReadyTasks, At
  <2> QED
    BY <1>1, <1>2, <2>1
     DEF Types, MapOK, DiskOK, OrderOK, SetsOK, ThreadOK, ConnOK, UsedOK
<1>4. Shapes'
  <2>1. DeletionFlags'
    BY <1>1, <1>2
     DEF DeletionFlags, Queued, ThreadShape, Deleting, QueuesOK, MoveReadyTasks, At
  <2>2. CreationFlags'
    BY <1>1, <1>2 DEF CreationFlags, Queued, At, QueuesOK, MoveReadyTasks
  <2> QED
    BY <1>1, <1>2, <2>1, <2>2
     DEF Shapes, ThreadShape, ConnShape, OrderShape, RecordShape, SaveShape, CleanShape,
         PassShape, At, Deleting, Exists, Flushing, Renewing, Mapped, Saving, Snapshotting
<1>5. ASSUME NEW w \in VBs, Faultless(w)'
      PROVE  Sound(w)'
  <2>1. Faultless(w) /\ Sound(w)
    BY <1>2, <1>5 DEF IInv, Faultless, EachSound
  <2>2. Settled(w)'
    BY <1>1, <1>2, <2>1
     DEF Settled, Sound, Due, SnapshotToCome, ThreadShape, Renewing, Added, Restoring,
         Mapped, Queued, At,
         Same, Saving, Seen, QueuesOK, MoveReadyTasks
  <2> QED
    BY <1>2, <2>1, <2>2
     DEF Sound, AgainFlagged, AgainUnsaved, HandIsCurrent, SubIsCurrent, LeftIsRestored,
         RecreateIsRestored, CacheIsFile, UnlinkedIsEmpty, OldIsDeleted, NewHasFile,
         WrittenHasFile, IdIsOwn, HeldIdIsOwn, Kept, ToldIsGone, Added, At, Exists,
         InHand, Mapped,
         Removing, Restoring, Saving, ThreadShape, Unlinked
<1> QED
  BY <1>3, <1>4, <1>5 DEF IInv, EachSound

\* A deletion that is run is in no queue any more.
LEMMA RunKeeps ==
  ASSUME IInv, NEW t \in Tasks, Run(t)
  PROVE  IInv'
<1>1. MapOK /\ DiskOK /\ OrderOK /\ QueuesOK /\ SetsOK /\ ThreadOK /\ ConnOK /\
      UsedOK /\ ThreadShape /\ ConnShape /\ OrderShape /\ DeletionFlags /\
      CreationFlags /\ RecordShape /\ SaveShape /\ CleanShape /\ PassShape
  BY DEF IInv, Types, Shapes
<1>2. UNCHANGED <<map, pid, creation, deletion, order, writing, cached, file, future,
                  snapshotVBState, conn, specific, used, told, lapse>>
  BY DEF Run, At, memory, flags, disk, queues, ghosts
<1>3. /\ thread' = [IdleThread EXCEPT !.pc = Start(t), !.task = t]
      /\ thread.pc = "idle" /\ t \in ready /\ ready' = ready \ {t}
  BY DEF Run, At
<1>4. /\ thread'.pc = Start(t) /\ thread'.task = t /\ thread'.sub = Nothing
      /\ Start(t) \in {"delete", "flush", "snapshot"}
      /\ (t \in VBs) <=> (Start(t) = "delete")
      /\ t \in {"high", "low"} <=> Start(t) = "snapshot"
  <2>1. Start(t) \in {"delete", "flush", "snapshot"}
    BY DEF Start
  <2>2. (t \in VBs) <=> (Start(t) = "delete")
    BY DEF Start
  <2>3. t \in {"high", "low"} <=> Start(t) = "snapshot"
    BY Names DEF Start, Tasks
  <2> QED
    BY <1>3, <2>1, <2>2, <2>3, Idle DEF ThreadRec
<1>5. Types'
  <2>1. QueuesOK'
    BY <1>1, <1>2, <1>3, <1>4, Names, Idle DEF QueuesOK, Tasks, ThreadOK, ThreadRec
  <2>2. ThreadOK'
    <3>1. t \in Task /\ Start(t) \in ThreadPC
      BY <1>4, ThreadPCs DEF Task
    <3> QED
      BY <1>3, <3>1, Idle DEF ThreadOK, ThreadRec
  <2> QED
    BY <1>1, <1>2, <2>1, <2>2 DEF Types, MapOK, DiskOK, OrderOK, SetsOK, ConnOK, UsedOK
<1>6. Shapes'
  <2>1. ThreadShape'
    BY <1>1, <1>2, <1>3, <1>4, Names, Idle
     DEF ThreadShape, Deleting, Snapshotting, Flushing, Renewing, ThreadOK, ThreadRec
  <2>2. DeletionFlags'
    BY <1>1, <1>2, <1>3, <1>4, Names, Idle
     DEF DeletionFlags, Queued, ThreadShape, Deleting, QueuesOK, ThreadOK, ThreadRec
  <2>3. CreationFlags'
    BY <1>1, <1>2, <1>3, <1>4, Names, Idle
     DEF CreationFlags, Queued, At, QueuesOK, ThreadOK, ThreadRec
  <2>4. SaveShape'
    BY <1>1, <1>2, <1>3, <1>4, Names, Idle
     DEF SaveShape, Saving, At, ThreadOK, ThreadRec
  <2>5. CleanShape'
    BY <1>1, <1>2, <1>3, <1>4, Names, Idle DEF CleanShape, At, ThreadOK, ThreadRec
  <2>6. PassShape'
    BY <1>1, <1>2, <1>3, <1>4, Names, Idle DEF PassShape, ThreadOK, ThreadRec
  <2> QED
    BY <1>1, <1>2, <2>1, <2>2, <2>3, <2>4, <2>5, <2>6
     DEF Shapes, ConnShape, OrderShape, RecordShape, Exists, Mapped
<1>7. ASSUME NEW w \in VBs, Faultless(w)'
      PROVE  Sound(w)'
  <2>1. Faultless(w) /\ Sound(w)
    BY <1>2, <1>7 DEF IInv, Faultless, EachSound
  <2>2. HandIsCurrent(w)'
    BY <1>1, <1>2, <2>1, <1>3, <1>4, Names, Idle
     DEF HandIsCurrent, Sound, InHand, At, Mapped, ThreadOK, ThreadRec
  <2>3. SubIsCurrent(w)'
    BY <1>1, <1>2, <2>1, <1>3, <1>4, Names, Idle
     DEF SubIsCurrent, Sound, ThreadOK, ThreadRec
  <2>4. LeftIsRestored(w)'
    BY <1>1, <1>2, <2>1, <1>3, <1>4, Names, Idle
     DEF LeftIsRestored, Sound, Mapped, Exists, Saving, At, Restoring, ThreadOK,
         ThreadRec
  <2>5. CacheIsFile(w)'
    BY <1>1, <1>2, <2>1, <1>3, <1>4, Names, Idle
     DEF CacheIsFile, Sound, Unlinked, At, ThreadOK, ThreadRec
  <2>6. UnlinkedIsEmpty(w)'
    BY <1>1, <1>2, <2>1, <1>3, <1>4, Names, Idle
     DEF UnlinkedIsEmpty, Sound, Unlinked, At, Exists, ThreadOK, ThreadRec
  <2>7. Settled(w)'
    BY <1>1, <1>2, <2>1, <1>3, <1>4, Names, Idle
     DEF Settled, Sound, Due, SnapshotToCome, ThreadShape, Renewing, Added, Restoring,
         Mapped, Queued, At,
         Same, Saving, Seen, QueuesOK, ThreadOK, ThreadRec
  <2>8. OldIsDeleted(w)'
    BY <1>1, <1>2, <2>1, <1>3, <1>4, Names, Idle
     DEF OldIsDeleted, Sound, Removing, ThreadOK, ThreadRec
  <2>9. NewHasFile(w)'
    BY <1>1, <1>2, <2>1, <1>3, <1>4, Names, Idle
     DEF NewHasFile, Sound, Mapped, Added, Exists, At, Saving, ThreadOK, ThreadRec
  <2>10. WrittenHasFile(w)'
    BY <1>1, <1>2, <2>1, <1>3, <1>4, Names, Idle
     DEF WrittenHasFile, Sound, InHand, At, Exists, ThreadOK, ThreadRec
  <2>11. Kept(w)'
    BY <1>1, <1>2, <2>1, <1>3, <1>4, Names, Idle
     DEF Kept, Sound, InHand, At, ThreadShape, ThreadOK, ThreadRec
  <2>12. ToldIsGone(w)'
    BY <1>1, <1>2, <2>1, <1>3, <1>4, Names, Idle
     DEF ToldIsGone, Sound, Exists, Mapped, Saving, At, ThreadOK, ThreadRec
  <2>13. HeldIdIsOwn(w)'
    BY <1>1, <1>2, <2>1, <1>3, <1>4, Names, Idle
     DEF HeldIdIsOwn, Sound, Mapped, Added, Exists, At, Saving, ThreadOK, ThreadRec
  <2> QED
    BY <1>2, <2>1, <2>2, <2>3, <2>4, <2>5, <2>6, <2>7, <2>8, <2>9, <2>10, <2>11, <2>12,
    <2>13
     DEF Sound, AgainFlagged, AgainUnsaved, RecreateIsRestored, IdIsOwn, Added, Mapped,
         Restoring
<1> QED
  BY <1>5, <1>6, <1>7 DEF IInv, EachSound

\* A flag that is cleared while the vbucket is deleted is a lapse; else the visit is next.
LEMMA ClearCreationKeeps ==
  ASSUME IInv, ClearCreation
  PROVE  IInv'
<1>1. MapOK /\ DiskOK /\ OrderOK /\ QueuesOK /\ SetsOK /\ ThreadOK /\ ConnOK /\
      UsedOK /\ ThreadShape /\ ConnShape /\ OrderShape /\ DeletionFlags /\
      CreationFlags /\ RecordShape /\ SaveShape /\ CleanShape /\ PassShape
  BY DEF IInv, Types, Shapes
<1>2. UNCHANGED <<map, pid, deletion, order, writing, cached, file, ready, future,
                  snapshotVBState, conn, specific, used, told>>
  BY DEF ClearCreation, At, Lapse, memory, flags, disk, queues, ghosts
<1>3. Types'
  <2>1. SetsOK'
    BY <1>1, <1>2 DEF SetsOK, ThreadOK, ThreadRec, ClearCreation, At, Lapse
  <2>2. ThreadOK'
    BY <1>1, <1>2, ThreadPCs DEF ThreadOK, ThreadRec, SetsOK, ClearCreation, At, Lapse
  <2> QED
    BY <1>1, <1>2, <2>1, <2>2
     DEF Types, MapOK, DiskOK, OrderOK, QueuesOK, ConnOK, UsedOK
<1>4. Shapes'
  <2>1. ThreadShape'
    BY <1>1, <1>2
     DEF ThreadShape, Deleting, Snapshotting, Flushing, Renewing, ThreadOK, ThreadRec,
         ClearCreation, At, Lapse
  <2>2. DeletionFlags'
    BY <1>1, <1>2
     DEF DeletionFlags, Queued, ThreadShape, Deleting, ThreadOK, ThreadRec,
         ClearCreation, At, Lapse
  <2>3. CreationFlags'
    BY <1>1, <1>2
     DEF CreationFlags, Queued, At, SetsOK, ThreadOK, ThreadRec, ClearCreation, Lapse
  <2>4. SaveShape'
    BY <1>1, <1>2 DEF SaveShape, Saving, At, ThreadOK, ThreadRec, ClearCreation, Lapse
  <2>5. CleanShape'
    BY <1>1, <1>2 DEF CleanShape, At, ThreadOK, ThreadRec, ClearCreation, Lapse
  <2>6. PassShape'
    BY <1>1, <1>2 DEF PassShape, ThreadOK, ThreadRec, ClearCreation, At, Lapse
  <2> QED
    BY <1>1, <1>2, <2>1, <2>2, <2>3, <2>4, <2>5, <2>6
     DEF Shapes, ConnShape, OrderShape, RecordShape, Exists, Mapped
<1>5. ASSUME NEW w \in VBs, Faultless(w)'
      PROVE  Sound(w)'
  <2>1. Faultless(w) /\ Sound(w)
    BY <1>1, <1>2, <1>5
     DEF IInv, Faultless, EachSound, ClearCreation, At, Lapse, UsedOK, UsedRec
  <2>2. AgainFlagged(w)'
    BY <1>1, <1>2, <2>1, <1>5
     DEF AgainFlagged, Sound, Mapped, Added, SetsOK, ClearCreation, At, Lapse, Faultless
  <2>3. HandIsCurrent(w)'
    BY <1>1, <1>2, <2>1
     DEF HandIsCurrent, Sound, InHand, At, Mapped, ThreadOK, ThreadRec, ClearCreation,
         Lapse
  <2>4. SubIsCurrent(w)'
    BY <1>1, <1>2, <2>1
     DEF SubIsCurrent, Sound, ThreadOK, ThreadRec, ClearCreation, At, Lapse
  <2>5. LeftIsRestored(w)'
    BY <1>1, <1>2, <2>1
     DEF LeftIsRestored, Sound, Mapped, Exists, Saving, At, Restoring, ThreadOK,
         ThreadRec, ClearCreation, Lapse
  <2>6. CacheIsFile(w)'
    BY <1>1, <1>2, <2>1
     DEF CacheIsFile, Sound, Unlinked, At, ThreadOK, ThreadRec, ClearCreation, Lapse
  <2>7. UnlinkedIsEmpty(w)'
    BY <1>1, <1>2, <2>1
     DEF UnlinkedIsEmpty, Sound, Unlinked, At, Exists, ThreadOK, ThreadRec,
         ClearCreation, Lapse
  <2>8. Settled(w)'
    BY <1>1, <1>2, <2>1
     DEF Settled, Sound, Due, SnapshotToCome, ThreadShape, Renewing, Added, Restoring,
         Mapped, Queued, At,
         Same, Saving, Seen, ThreadOK, ThreadRec, ClearCreation, Lapse
  <2>9. OldIsDeleted(w)'
    BY <1>1, <1>2, <2>1
     DEF OldIsDeleted, Sound, Removing, ThreadOK, ThreadRec, ClearCreation, At, Lapse
  <2>10. NewHasFile(w)'
    BY <1>1, <1>2, <2>1
     DEF NewHasFile, Sound, Mapped, Added, Exists, At, Saving, SetsOK, ThreadOK,
         ThreadRec, ClearCreation, Lapse
  <2>11. WrittenHasFile(w)'
    BY <1>1, <1>2, <2>1
     DEF WrittenHasFile, Sound, InHand, At, Exists, ThreadOK, ThreadRec, ClearCreation,
         Lapse
  <2>12. Kept(w)'
    BY <1>1, <1>2, <2>1
     DEF Kept, Sound, InHand, At, ThreadShape, ThreadOK, ThreadRec, ClearCreation, Lapse
  <2>13. ToldIsGone(w)'
    BY <1>1, <1>2, <2>1
     DEF ToldIsGone, Sound, Exists, Mapped, Saving, At, ThreadOK, ThreadRec,
         ClearCreation, Lapse
  <2>14. HeldIdIsOwn(w)'
    BY <1>1, <1>2, <2>1
     DEF HeldIdIsOwn, Sound, Mapped, Added, Exists, At, Saving, SetsOK, ThreadOK,
         ThreadRec, ClearCreation, Lapse
  <2> QED
    BY <1>2, <2>1, <2>2, <2>3, <2>4, <2>5, <2>6, <2>7, <2>8, <2>9, <2>10, <2>11, <2>12,
       <2>13, <2>14
     DEF Sound, AgainUnsaved, RecreateIsRestored, IdIsOwn, Added, Mapped, Restoring
<1> QED
  BY <1>3, <1>4, <1>5 DEF IInv, EachSound

\* What is seen of a vbucket is what it is, and is saved next.
LEMMA VisitKeeps ==
  ASSUME IInv, Visit
  PROVE  IInv'
<1>1. MapOK /\ DiskOK /\ OrderOK /\ QueuesOK /\ SetsOK /\ ThreadOK /\ ConnOK /\
      UsedOK /\ ThreadShape /\ ConnShape /\ OrderShape /\ DeletionFlags /\
      CreationFlags /\ RecordShape /\ SaveShape /\ CleanShape /\ PassShape
  BY DEF IInv, Types, Shapes
<1>2. UNCHANGED <<map, pid, creation, deletion, order, writing, cached, file, ready,
                  future, snapshotVBState, conn, specific, used, told, lapse>>
  BY DEF Visit, At, memory, flags, disk, queues, ghosts
<1>3. /\ thread.pc = "visit" /\ thread'.pc = "save" /\ thread'.task = thread.task
      /\ thread'.todo = {v \in VBs : Mapped(v)} /\ thread'.sub = thread.sub
      /\ thread'.due = thread.due /\ thread'.old = thread.old
      /\ thread'.seen = [v \in VBs |-> [state |-> map[v].state, id |-> pid[v]]]
  BY <1>1 DEF Visit, At, ThreadOK, ThreadRec
<1>4. \A v \in VBs : thread'.seen[v] = [state |-> map[v].state, id |-> pid[v]]
  BY <1>3
<1>5. Types'
  <2>1. ThreadOK'
    <3>1. [v \in VBs |-> [state |-> map[v].state, id |-> pid[v]]] \in [VBs -> SavedRec]
      BY <1>1 DEF MapOK, VBRec, SavedRec
    <3>2. {v \in VBs : Mapped(v)} \in SUBSET VBs
      OBVIOUS
    <3> QED
      BY <1>1, <3>1, <3>2, ThreadPCs DEF ThreadOK, ThreadRec, Visit
  <2> QED
    BY <1>1, <1>2, <2>1
     DEF Types, MapOK, DiskOK, OrderOK, QueuesOK, SetsOK, ConnOK, UsedOK
<1>6. Shapes'
  <2>1. ThreadShape'
    BY <1>1, <1>2, <1>3, <1>4, Idle
     DEF ThreadShape, Deleting, Snapshotting, Flushing, Renewing, ThreadOK, ThreadRec
  <2>2. DeletionFlags'
    BY <1>1, <1>2, <1>3, <1>4, Idle
     DEF DeletionFlags, Queued, ThreadShape, Deleting, ThreadOK, ThreadRec
  <2>3. CreationFlags'
    BY <1>1, <1>2, <1>3, <1>4, Idle DEF CreationFlags, Queued, At, ThreadOK, ThreadRec
  <2>4. SaveShape'
    BY <1>1, <1>2, <1>3, <1>4, Idle
     DEF SaveShape, Saving, At, ThreadOK, ThreadRec, Mapped
  <2>5. CleanShape'
    BY <1>1, <1>2, <1>3, <1>4, Idle DEF CleanShape, At, ThreadOK, ThreadRec
  <2>6. PassShape'
    BY <1>1, <1>2, <1>3, <1>4, Idle DEF PassShape, ThreadOK, ThreadRec
  <2> QED
    BY <1>1, <1>2, <2>1, <2>2, <2>3, <2>4, <2>5, <2>6
     DEF Shapes, ConnShape, OrderShape, RecordShape, Exists, Mapped
<1>7. ASSUME NEW w \in VBs, Faultless(w)'
      PROVE  Sound(w)'
  <2>1. Faultless(w) /\ Sound(w)
    BY <1>2, <1>7 DEF IInv, Faultless, EachSound
  <2>2. HandIsCurrent(w)'
    BY <1>1, <1>2, <2>1, <1>3, <1>4, Idle
     DEF HandIsCurrent, Sound, InHand, At, Mapped, ThreadOK, ThreadRec
  <2>3. SubIsCurrent(w)'
    BY <1>1, <1>2, <2>1, <1>3, <1>4, Idle DEF SubIsCurrent, Sound, ThreadOK, ThreadRec
  <2>4. LeftIsRestored(w)'
    BY <1>1, <1>2, <2>1, <1>3, <1>4, Idle
     DEF LeftIsRestored, Sound, Mapped, Exists, Saving, At, Restoring, ThreadOK,
         ThreadRec
  <2>5. CacheIsFile(w)'
    BY <1>1, <1>2, <2>1, <1>3, <1>4, Idle
     DEF CacheIsFile, Sound, Unlinked, At, ThreadOK, ThreadRec
  <2>6. UnlinkedIsEmpty(w)'
    BY <1>1, <1>2, <2>1, <1>3, <1>4, Idle
     DEF UnlinkedIsEmpty, Sound, Unlinked, At, Exists, ThreadOK, ThreadRec
  <2>7. Settled(w)'
    <3>1. CASE Mapped(w)
      <4>1. Saving(w)' /\ Mapped(w)' /\ Seen(w)'
        BY <1>2, <1>3, <1>4, <3>1 DEF Saving, At, Mapped, Seen
      <4> QED
        BY <4>1 DEF Settled
    <3>2. CASE ~Mapped(w) /\ (Exists(w) => w \in deletion \/ Restoring(w))
      <4>1. ~Saving(w)' /\ ~Mapped(w)'
        BY <1>2, <1>3, <3>2 DEF Saving, Mapped
      <4>2. ~Exists(w) => Same(w)'
        BY <1>2, <3>2 DEF Same, Mapped, Exists
      <4>3. Restoring(w) => Restoring(w)'
        BY <1>2 DEF Restoring
      <4> QED
        BY <1>2, <3>2, <4>1, <4>2, <4>3 DEF Settled, Due
    <3> QED
      BY <2>1, <3>1, <3>2 DEF Sound, LeftIsRestored
  <2>8. OldIsDeleted(w)'
    BY <1>1, <1>2, <2>1, <1>3, <1>4, Idle
     DEF OldIsDeleted, Sound, Removing, ThreadOK, ThreadRec
  <2>9. NewHasFile(w)'
    BY <1>1, <1>2, <2>1, <1>3, <1>4, Idle
     DEF NewHasFile, Sound, Mapped, Added, Exists, At, Saving, ThreadOK, ThreadRec
  <2>10. WrittenHasFile(w)'
    BY <1>1, <1>2, <2>1, <1>3, <1>4, Idle
     DEF WrittenHasFile, Sound, InHand, At, Exists, ThreadOK, ThreadRec
  <2>11. Kept(w)'
    BY <1>1, <1>2, <2>1, <1>3, <1>4, Idle
     DEF Kept, Sound, InHand, At, ThreadShape, ThreadOK, ThreadRec
  <2>12. ToldIsGone(w)'
    BY <1>1, <1>2, <2>1, <1>3, <1>4, Idle
     DEF ToldIsGone, Sound, Exists, Mapped, Saving, At, ThreadOK, ThreadRec
  <2>13. HeldIdIsOwn(w)'
    BY <1>1, <1>2, <2>1, <1>3, <1>4, Idle
     DEF HeldIdIsOwn, Sound, Mapped, Added, Exists, At, Saving, ThreadOK, ThreadRec
  <2> QED
    BY <1>2, <2>1, <2>2, <2>3, <2>4, <2>5, <2>6, <2>7, <2>8, <2>9, <2>10, <2>11, <2>12,
    <2>13
     DEF Sound, AgainFlagged, AgainUnsaved, RecreateIsRestored, IdIsOwn, Added, Mapped,
         Restoring
<1> QED
  BY <1>5, <1>6, <1>7 DEF IInv, EachSound

\* Nothing was left to save.
LEMMA SnapshotEndsKeeps ==
  ASSUME IInv, SnapshotEnds
  PROVE  IInv'
<1>1. MapOK /\ DiskOK /\ OrderOK /\ QueuesOK /\ SetsOK /\ ThreadOK /\ ConnOK /\
      UsedOK /\ ThreadShape /\ ConnShape /\ OrderShape /\ DeletionFlags /\
      CreationFlags /\ RecordShape /\ SaveShape /\ CleanShape /\ PassShape
  BY DEF IInv, Types, Shapes
<1>2. UNCHANGED <<map, pid, creation, deletion, order, writing, cached, file, ready,
                  future, snapshotVBState, conn, specific, used, told, lapse>>
  BY DEF SnapshotEnds, At, Done, memory, flags, disk, queues, ghosts
<1>3. thread' = IdleThread /\ thread.pc = "save" /\ thread.todo = {}
  BY DEF SnapshotEnds, Done, At
<1>4. Types'
  <2>1. ThreadOK'
    BY <1>1, <1>2, <1>3, Idle, Names DEF ThreadOK, ThreadRec
  <2> QED
    BY <1>1, <1>2, <2>1
     DEF Types, MapOK, DiskOK, OrderOK, QueuesOK, SetsOK, ConnOK, UsedOK
<1>5. Shapes'
  <2>1. ThreadShape'
    BY <1>1, <1>2, <1>3, Idle, Names
     DEF ThreadShape, Deleting, Snapshotting, Flushing, Renewing, ThreadOK, ThreadRec
  <2>2. DeletionFlags'
    BY <1>1, <1>2, <1>3, Idle, Names
     DEF DeletionFlags, Queued, ThreadShape, Deleting, ThreadOK, ThreadRec
  <2>3. CreationFlags'
    BY <1>1, <1>2, <1>3, Idle, Names DEF CreationFlags, Queued, At, ThreadOK, ThreadRec
  <2>4. SaveShape'
    BY <1>1, <1>2, <1>3, Idle, Names DEF SaveShape, Saving, At, ThreadOK, ThreadRec
  <2>5. CleanShape'
    BY <1>1, <1>2, <1>3, Idle, Names DEF CleanShape, At, ThreadOK, ThreadRec
  <2>6. PassShape'
    BY <1>1, <1>2, <1>3, Idle, Names DEF PassShape, ThreadOK, ThreadRec
  <2> QED
    BY <1>1, <1>2, <2>1, <2>2, <2>3, <2>4, <2>5, <2>6
     DEF Shapes, ConnShape, OrderShape, RecordShape, Exists, Mapped
<1>6. ASSUME NEW w \in VBs, Faultless(w)'
      PROVE  Sound(w)'
  <2>1. Faultless(w) /\ Sound(w)
    BY <1>2, <1>6 DEF IInv, Faultless, EachSound
  <2>2. HandIsCurrent(w)'
    BY <1>1, <1>2, <2>1, <1>3, Idle, Names
     DEF HandIsCurrent, Sound, InHand, At, Mapped, ThreadOK, ThreadRec
  <2>3. SubIsCurrent(w)'
    BY <1>1, <1>2, <2>1, <1>3, Idle, Names DEF SubIsCurrent, Sound, ThreadOK, ThreadRec
  <2>4. LeftIsRestored(w)'
    BY <1>1, <1>2, <2>1, <1>3, Idle, Names
     DEF LeftIsRestored, Sound, Mapped, Exists, Saving, At, Restoring, ThreadOK,
         ThreadRec
  <2>5. CacheIsFile(w)'
    BY <1>1, <1>2, <2>1, <1>3, Idle, Names
     DEF CacheIsFile, Sound, Unlinked, At, ThreadOK, ThreadRec
  <2>6. UnlinkedIsEmpty(w)'
    BY <1>1, <1>2, <2>1, <1>3, Idle, Names
     DEF UnlinkedIsEmpty, Sound, Unlinked, At, Exists, ThreadOK, ThreadRec
  <2>7. Settled(w)'
    BY <1>1, <1>2, <2>1, <1>3, Idle, Names
     DEF Settled, Sound, Due, SnapshotToCome, ThreadShape, Renewing, Added, Restoring,
         Mapped, Queued, At,
         Same, Saving, Seen, ThreadOK, ThreadRec
  <2>8. OldIsDeleted(w)'
    BY <1>1, <1>2, <2>1, <1>3, Idle, Names
     DEF OldIsDeleted, Sound, Removing, ThreadOK, ThreadRec
  <2>9. NewHasFile(w)'
    BY <1>1, <1>2, <2>1, <1>3, Idle, Names
     DEF NewHasFile, Sound, Mapped, Added, Exists, At, Saving, ThreadOK, ThreadRec
  <2>10. WrittenHasFile(w)'
    BY <1>1, <1>2, <2>1, <1>3, Idle, Names
     DEF WrittenHasFile, Sound, InHand, At, Exists, ThreadOK, ThreadRec
  <2>11. Kept(w)'
    BY <1>1, <1>2, <2>1, <1>3, Idle, Names
     DEF Kept, Sound, InHand, At, ThreadShape, ThreadOK, ThreadRec
  <2>12. ToldIsGone(w)'
    BY <1>1, <1>2, <2>1, <1>3, Idle, Names
     DEF ToldIsGone, Sound, Exists, Mapped, Saving, At, ThreadOK, ThreadRec
  <2>13. HeldIdIsOwn(w)'
    BY <1>1, <1>2, <2>1, <1>3, Idle, Names
     DEF HeldIdIsOwn, Sound, Mapped, Added, Exists, At, Saving, ThreadOK, ThreadRec
  <2> QED
    BY <1>2, <2>1, <2>2, <2>3, <2>4, <2>5, <2>6, <2>7, <2>8, <2>9, <2>10, <2>11, <2>12,
    <2>13
     DEF Sound, AgainFlagged, AgainUnsaved, RecreateIsRestored, IdIsOwn, Added, Mapped,
         Restoring
<1> QED
  BY <1>4, <1>5, <1>6 DEF IInv, EachSound

\* The flusher schedules a snapshot if a checkpoint id has changed.
LEMMA CompleteFlushKeeps ==
  ASSUME IInv, CompleteFlush
  PROVE  IInv'
<1>1. MapOK /\ DiskOK /\ OrderOK /\ QueuesOK /\ SetsOK /\ ThreadOK /\ ConnOK /\
      UsedOK /\ ThreadShape /\ ConnShape /\ OrderShape /\ DeletionFlags /\
      CreationFlags /\ RecordShape /\ SaveShape /\ CleanShape /\ PassShape
  BY DEF IInv, Types, Shapes
<1>2. UNCHANGED <<map, pid, creation, deletion, order, writing, cached, file, ready,
                  conn, specific, used, told, lapse>>
  BY DEF CompleteFlush, At, memory, flags, disk, queues, ghosts
<1>3. /\ thread' = IdleThread /\ thread.pc = "committed" /\ future \subseteq future'
      /\ future' \subseteq future \cup {"flush", "high"}
      /\ \/ snapshotVBState' = snapshotVBState
         \/ snapshotVBState' = FALSE /\ ("high" \in ready \/ "high" \in future')
  BY DEF CompleteFlush, At
<1>4. Types'
  <2>1. QueuesOK'
    BY <1>1, <1>2, <1>3 DEF QueuesOK, Tasks
  <2>2. SetsOK'
    BY <1>1, <1>2, <1>3 DEF SetsOK
  <2>3. ThreadOK'
    BY <1>1, <1>2, <1>3, Idle, Names DEF ThreadOK, ThreadRec, QueuesOK, SetsOK
  <2> QED
    BY <1>1, <1>2, <2>1, <2>2, <2>3 DEF Types, MapOK, DiskOK, OrderOK, ConnOK, UsedOK
<1>5. Shapes'
  <2>1. ThreadShape'
    BY <1>1, <1>2, <1>3, Idle, Names
     DEF ThreadShape, Deleting, Snapshotting, Flushing, Renewing, ThreadOK, ThreadRec
  <2>2. DeletionFlags'
    BY <1>1, <1>2, <1>3, Idle, Names
     DEF DeletionFlags, Queued, ThreadShape, Deleting, QueuesOK, ThreadOK, ThreadRec
  <2>3. CreationFlags'
    BY <1>1, <1>2, <1>3, Idle, Names
     DEF CreationFlags, Queued, At, QueuesOK, ThreadOK, ThreadRec
  <2>4. SaveShape'
    BY <1>1, <1>2, <1>3, Idle, Names DEF SaveShape, Saving, At, ThreadOK, ThreadRec
  <2>5. CleanShape'
    BY <1>1, <1>2, <1>3, Idle, Names DEF CleanShape, At, ThreadOK, ThreadRec
  <2>6. PassShape'
    BY <1>1, <1>2, <1>3, Idle, Names DEF PassShape, ThreadOK, ThreadRec
  <2> QED
    BY <1>1, <1>2, <2>1, <2>2, <2>3, <2>4, <2>5, <2>6
     DEF Shapes, ConnShape, OrderShape, RecordShape, Exists, Mapped
<1>6. ASSUME NEW w \in VBs, Faultless(w)'
      PROVE  Sound(w)'
  <2>1. Faultless(w) /\ Sound(w)
    BY <1>2, <1>6 DEF IInv, Faultless, EachSound
  <2>2. HandIsCurrent(w)'
    BY <1>1, <1>2, <2>1, <1>3, Idle, Names
     DEF HandIsCurrent, Sound, InHand, At, Mapped, ThreadOK, ThreadRec
  <2>3. SubIsCurrent(w)'
    BY <1>1, <1>2, <2>1, <1>3, Idle, Names DEF SubIsCurrent, Sound, ThreadOK, ThreadRec
  <2>4. LeftIsRestored(w)'
    BY <1>1, <1>2, <2>1, <1>3, Idle, Names
     DEF LeftIsRestored, Sound, Mapped, Exists, Saving, At, Restoring, ThreadOK,
         ThreadRec
  <2>5. CacheIsFile(w)'
    BY <1>1, <1>2, <2>1, <1>3, Idle, Names
     DEF CacheIsFile, Sound, Unlinked, At, ThreadOK, ThreadRec
  <2>6. UnlinkedIsEmpty(w)'
    BY <1>1, <1>2, <2>1, <1>3, Idle, Names
     DEF UnlinkedIsEmpty, Sound, Unlinked, At, Exists, ThreadOK, ThreadRec
  <2>7. Settled(w)'
    BY <1>1, <1>2, <2>1, <1>3, Idle, Names
     DEF Settled, Sound, Due, SnapshotToCome, ThreadShape, Renewing, Added, Restoring,
         Mapped, Queued, At,
         Same, Saving, Seen, QueuesOK, SetsOK, ThreadOK, ThreadRec
  <2>8. OldIsDeleted(w)'
    BY <1>1, <1>2, <2>1, <1>3, Idle, Names
     DEF OldIsDeleted, Sound, Removing, ThreadOK, ThreadRec
  <2>9. NewHasFile(w)'
    BY <1>1, <1>2, <2>1, <1>3, Idle, Names
     DEF NewHasFile, Sound, Mapped, Added, Exists, At, Saving, ThreadOK, ThreadRec
  <2>10. WrittenHasFile(w)'
    BY <1>1, <1>2, <2>1, <1>3, Idle, Names
     DEF WrittenHasFile, Sound, InHand, At, Exists, ThreadOK, ThreadRec
  <2>11. Kept(w)'
    BY <1>1, <1>2, <2>1, <1>3, Idle, Names
     DEF Kept, Sound, InHand, At, ThreadShape, ThreadOK, ThreadRec
  <2>12. ToldIsGone(w)'
    BY <1>1, <1>2, <2>1, <1>3, Idle, Names
     DEF ToldIsGone, Sound, Exists, Mapped, Saving, At, ThreadOK, ThreadRec
  <2>13. HeldIdIsOwn(w)'
    BY <1>1, <1>2, <2>1, <1>3, Idle, Names
     DEF HeldIdIsOwn, Sound, Mapped, Added, Exists, At, Saving, ThreadOK, ThreadRec
  <2> QED
    BY <1>2, <2>1, <2>2, <2>3, <2>4, <2>5, <2>6, <2>7, <2>8, <2>9, <2>10, <2>11, <2>12,
    <2>13
     DEF Sound, AgainFlagged, AgainUnsaved, RecreateIsRestored, IdIsOwn, Added, Mapped,
         Restoring
<1> QED
  BY <1>4, <1>5, <1>6 DEF IInv, EachSound

\* What was submitted is not older than what the file has.
LEMMA CommitKeeps ==
  ASSUME IInv, Commit
  PROVE  IInv'
<1>1. MapOK /\ DiskOK /\ OrderOK /\ QueuesOK /\ SetsOK /\ ThreadOK /\ ConnOK /\
      UsedOK /\ ThreadShape /\ ConnShape /\ OrderShape /\ DeletionFlags /\
      CreationFlags /\ RecordShape /\ SaveShape /\ CleanShape /\ PassShape
  BY DEF IInv, Types, Shapes
<1>2. UNCHANGED <<map, pid, creation, deletion, order, writing, cached, ready, future,
                  snapshotVBState, conn, specific, used, told, lapse>>
  BY DEF Commit, At, memory, flags, disk, queues, ghosts
<1>3. /\ thread.pc = "pass" /\ thread.todo = {} /\ thread' = [IdleThread EXCEPT !.pc = "committed"]
      /\ file' = [v \in VBs |-> IF thread.sub[v] # 0 /\ Exists(v)
                                THEN [file[v] EXCEPT !.value = thread.sub[v]] ELSE file[v]]
  BY DEF Commit, At
<1>4. /\ thread'.pc = "committed" /\ thread'.task = "none" /\ thread'.vb = None
      /\ thread'.todo = {} /\ thread'.sub = Nothing
      /\ \A v \in VBs : /\ file'[v].state = file[v].state /\ file'[v].id = file[v].id
                        /\ thread.sub[v] = 0 \/ ~Exists(v) => file'[v] = file[v]
                        /\ thread.sub[v] # 0 /\ Exists(v) => file'[v].value = thread.sub[v]
  BY <1>1, <1>3, Idle DEF ThreadRec, DiskOK, FileRec
<1>5. Types'
  <2>1. DiskOK'
    <3>1. ASSUME NEW v \in VBs
          PROVE  [file[v] EXCEPT !.value = thread.sub[v]] \in FileRec
      BY <1>1 DEF DiskOK, FileRec, ThreadOK, ThreadRec
    <3>2. file' \in [VBs -> FileRec]
      BY <1>1, <1>3, <3>1 DEF DiskOK
    <3> QED
      BY <1>1, <1>2, <3>2 DEF DiskOK
  <2>2. ThreadOK'
    BY <1>3, Idle, ThreadPCs DEF ThreadOK, ThreadRec
  <2> QED
    BY <1>1, <1>2, <2>1, <2>2
     DEF Types, MapOK, OrderOK, QueuesOK, SetsOK, ConnOK, UsedOK
<1>6. Shapes'
  <2>1. ThreadShape'
    BY <1>1, <1>2, <1>3, <1>4, Idle, Names
     DEF ThreadShape, Deleting, Snapshotting, Flushing, Renewing, ThreadOK, ThreadRec
  <2>2. DeletionFlags'
    BY <1>1, <1>2, <1>3, <1>4, Idle, Names
     DEF DeletionFlags, Queued, ThreadShape, Deleting, ThreadOK, ThreadRec
  <2>3. CreationFlags'
    BY <1>1, <1>2, <1>3, <1>4, Idle, Names
     DEF CreationFlags, Queued, At, ThreadOK, ThreadRec
  <2>4. RecordShape'
    BY <1>1, <1>2, <1>3, <1>4, Idle, Names
     DEF RecordShape, Mapped, Exists, DiskOK, FileRec, SavedRec
  <2>5. SaveShape'
    BY <1>1, <1>2, <1>3, <1>4, Idle, Names
     DEF SaveShape, Saving, At, ThreadOK, ThreadRec
  <2>6. CleanShape'
    BY <1>1, <1>2, <1>3, <1>4, Idle, Names DEF CleanShape, At, ThreadOK, ThreadRec
  <2>7. PassShape'
    BY <1>1, <1>2, <1>3, <1>4, Idle, Names DEF PassShape, ThreadOK, ThreadRec
  <2> QED
    BY <1>1, <1>2, <2>1, <2>2, <2>3, <2>4, <2>5, <2>6, <2>7
     DEF Shapes, ConnShape, OrderShape
<1>7. ASSUME NEW w \in VBs, Faultless(w)'
      PROVE  Sound(w)'
  <2>1. Faultless(w) /\ Sound(w)
    BY <1>2, <1>7 DEF IInv, Faultless, EachSound
  <2>2. HandIsCurrent(w)'
    BY <1>1, <1>2, <2>1, <1>3, <1>4, Idle, Names
     DEF HandIsCurrent, Sound, InHand, At, Mapped, ThreadOK, ThreadRec
  <2>3. SubIsCurrent(w)'
    BY <1>1, <1>2, <2>1, <1>3, <1>4, Idle, Names
     DEF SubIsCurrent, Sound, ThreadOK, ThreadRec
  <2>4. LeftIsRestored(w)'
    BY <1>1, <1>2, <2>1, <1>3, <1>4, Idle, Names
     DEF LeftIsRestored, Sound, Mapped, Exists, Saving, At, Restoring, DiskOK, FileRec,
         SavedRec, ThreadOK, ThreadRec
  <2>5. CacheIsFile(w)'
    BY <1>1, <1>2, <2>1, <1>3, <1>4, Idle, Names
     DEF CacheIsFile, Sound, Unlinked, At, DiskOK, FileRec, SavedRec, ThreadOK,
         ThreadRec
  <2>6. UnlinkedIsEmpty(w)'
    BY <1>1, <1>2, <2>1, <1>3, <1>4, Idle, Names
     DEF UnlinkedIsEmpty, Sound, Unlinked, At, Exists, DiskOK, FileRec, SavedRec,
         ThreadOK, ThreadRec
  <2>7. Settled(w)'
    BY <1>1, <1>2, <2>1, <1>3, <1>4, Idle, Names
     DEF Settled, Sound, Due, SnapshotToCome, ThreadShape, Renewing, Added, Restoring,
         Mapped, Queued, At,
         Same, Saving, Seen, DiskOK, FileRec, SavedRec, ThreadOK, ThreadRec
  <2>8. OldIsDeleted(w)'
    BY <1>1, <1>2, <2>1, <1>3, <1>4, Idle, Names
     DEF OldIsDeleted, Sound, Removing, DiskOK, FileRec, SavedRec, ThreadOK, ThreadRec
  <2>9. NewHasFile(w)'
    BY <1>1, <1>2, <2>1, <1>3, <1>4, Idle, Names
     DEF NewHasFile, Sound, Mapped, Added, Exists, At, Saving, DiskOK, FileRec,
         SavedRec, ThreadOK, ThreadRec
  <2>10. WrittenHasFile(w)'
    BY <1>1, <1>2, <2>1, <1>3, <1>4, Idle, Names
     DEF WrittenHasFile, Sound, InHand, At, Exists, DiskOK, FileRec, SavedRec, ThreadOK,
         ThreadRec
  <2>11. Kept(w)'
    BY <1>1, <1>2, <2>1, <1>3, <1>4, Idle, Names
     DEF Kept, Sound, InHand, At, ThreadShape, DiskOK, FileRec, SavedRec, ThreadOK,
         ThreadRec, WrittenHasFile, SubIsCurrent
  <2>12. ToldIsGone(w)'
    BY <1>1, <1>2, <2>1, <1>3, <1>4, Idle, Names
     DEF ToldIsGone, Sound, Exists, Mapped, Saving, At, DiskOK, FileRec, SavedRec,
         ThreadOK, ThreadRec
  <2>13. HeldIdIsOwn(w)'
    BY <1>1, <1>2, <2>1, <1>3, <1>4, Idle, Names
     DEF HeldIdIsOwn, Sound, Mapped, Added, Exists, At, Saving, DiskOK, FileRec,
         SavedRec, ThreadOK, ThreadRec
  <2> QED
    BY <1>2, <2>1, <2>2, <2>3, <2>4, <2>5, <2>6, <2>7, <2>8, <2>9, <2>10, <2>11, <2>12,
    <2>13
     DEF Sound, AgainFlagged, AgainUnsaved, RecreateIsRestored, IdIsOwn, Added, Mapped,
         Restoring
<1> QED
  BY <1>5, <1>6, <1>7 DEF IInv, EachSound
-----------------------------------------------------------------------------
(***************************************************************************)
(* What is saved and deleted.                                              *)
(***************************************************************************)
\* A state that is not the cached one is saved; the cache is true unless a deletion is on.
LEMMA SaveStateKeeps ==
  ASSUME IInv, NEW v \in VBs, SaveState(v)
  PROVE  IInv'
<1>1. MapOK /\ DiskOK /\ OrderOK /\ QueuesOK /\ SetsOK /\ ThreadOK /\ ConnOK /\
      UsedOK /\ ThreadShape /\ ConnShape /\ OrderShape /\ DeletionFlags /\
      CreationFlags /\ RecordShape /\ SaveShape /\ CleanShape /\ PassShape
  BY DEF IInv, Types, Shapes
<1>2. UNCHANGED <<map, pid, creation, deletion, order, writing, ready, future,
                  snapshotVBState, conn, specific, used, told, lapse>>
  BY DEF SaveState, At, Unchanged, Saved, memory, flags, disk, queues, ghosts
<1>3. /\ thread.pc = "save" /\ v \in thread.todo /\ thread.seen[v] \in SavedRec
      /\ thread.seen[v].state # "none" /\ thread.sub = Nothing
  BY <1>1
   DEF SaveState, At, ThreadOK, ThreadRec, SaveShape, Saving, ThreadShape, Snapshotting
<1>4. PICK s \in SavedRec : s = thread.seen[v] /\ s.state # "none"
  BY <1>3
<1>5. /\ thread'.pc = "save" /\ thread'.task = thread.task /\ thread'.vb = thread.vb
      /\ thread'.todo = thread.todo \ {v} /\ thread'.seen = thread.seen
      /\ thread'.sub = Nothing /\ thread'.due = thread.due /\ thread'.old = thread.old
  BY <1>1, <1>3 DEF SaveState, ThreadOK, ThreadRec
<1>6. \/ cached[v] = s /\ cached' = cached /\ file' = file
      \/ /\ cached' = [cached EXCEPT ![v] = s]
         /\ file' = [file EXCEPT ![v] = [file[v] EXCEPT !.state = s.state, !.id = s.id]]
  BY <1>4 DEF SaveState, Unchanged, Saved, disk
<1>7. /\ \A x \in VBs \ {v} : cached'[x] = cached[x] /\ file'[x] = file[x]
      /\ cached'[v] = s /\ file'[v].value = file[v].value
      /\ \/ cached[v] = s /\ file'[v] = file[v]
         \/ file'[v].state = s.state /\ file'[v].id = s.id
  BY <1>1, <1>6, ZenonT(40) DEF DiskOK, SavedRec, FileRec
<1>8. Types'
  <2>1. DiskOK'
    <3>1. [file[v] EXCEPT !.state = s.state, !.id = s.id] \in FileRec
      BY <1>1 DEF DiskOK, SavedRec, FileRec
    <3> QED
      BY <1>1, <1>2, <1>6, <3>1 DEF DiskOK
  <2>2. ThreadOK'
    BY <1>1 DEF SaveState, ThreadOK, ThreadRec
  <2> QED
    BY <1>1, <1>2, <2>1, <2>2
     DEF Types, MapOK, OrderOK, QueuesOK, SetsOK, ConnOK, UsedOK
<1>9. Shapes'
  <2>1. ThreadShape'
    BY <1>1, <1>2, <1>3, <1>4, <1>5, <1>7, Idle
     DEF ThreadShape, Deleting, Snapshotting, Flushing, Renewing, ThreadOK, ThreadRec
  <2>2. DeletionFlags'
    BY <1>1, <1>2, <1>3, <1>4, <1>5, <1>7, Idle
     DEF DeletionFlags, Queued, ThreadShape, Deleting, ThreadOK, ThreadRec
  <2>3. CreationFlags'
    BY <1>1, <1>2, <1>3, <1>4, <1>5, <1>7, Idle
     DEF CreationFlags, Queued, At, ThreadOK, ThreadRec
  <2>4. RecordShape'
    BY <1>1, <1>2, <1>3, <1>4, <1>5, <1>7, Idle
     DEF RecordShape, Mapped, Exists, DiskOK, FileRec, SavedRec
  <2>5. SaveShape'
    BY <1>1, <1>2, <1>3, <1>4, <1>5, <1>7, Idle
     DEF SaveShape, Saving, At, ThreadOK, ThreadRec
  <2>6. CleanShape'
    BY <1>1, <1>2, <1>3, <1>4, <1>5, <1>7, Idle DEF CleanShape, At, ThreadOK, ThreadRec
  <2>7. PassShape'
    BY <1>1, <1>2, <1>3, <1>4, <1>5, <1>7, Idle DEF PassShape, ThreadOK, ThreadRec
  <2> QED
    BY <1>1, <1>2, <2>1, <2>2, <2>3, <2>4, <2>5, <2>6, <2>7
     DEF Shapes, ConnShape, OrderShape
<1>10. ASSUME NEW w \in VBs, Faultless(w)'
      PROVE  Sound(w)'
  <2>1. Faultless(w) /\ Sound(w)
    BY <1>2, <1>10 DEF IInv, Faultless, EachSound
  <2>2. /\ w # v => (Exists(w)' <=> Exists(w))
        /\ w = v /\ v \notin deletion => file'[v].state = s.state /\ file'[v].id = s.id
        /\ Exists(w) => Exists(w)'
    BY <1>4, <1>7, <2>1 DEF Sound, CacheIsFile, Exists
  <2>3. HandIsCurrent(w)'
    BY <1>1, <1>2, <2>1, <2>2, <1>3, <1>4, <1>5, <1>7, Idle
     DEF HandIsCurrent, Sound, InHand, At, Mapped, ThreadOK, ThreadRec
  <2>4. SubIsCurrent(w)'
    BY <1>1, <1>2, <2>1, <2>2, <1>3, <1>4, <1>5, <1>7, Idle
     DEF SubIsCurrent, Sound, ThreadOK, ThreadRec
  <2>5. LeftIsRestored(w)'
    BY <1>1, <1>2, <2>1, <2>2, <1>3, <1>4, <1>5, <1>7, Idle
     DEF LeftIsRestored, Sound, Mapped, Exists, Saving, At, Restoring, DiskOK, FileRec,
         SavedRec, ThreadOK, ThreadRec
  <2>6. CacheIsFile(w)'
    BY <1>1, <1>2, <2>1, <2>2, <1>3, <1>4, <1>5, <1>7, Idle
     DEF CacheIsFile, Sound, Unlinked, At, DiskOK, FileRec, SavedRec, ThreadOK,
         ThreadRec
  <2>7. UnlinkedIsEmpty(w)'
    BY <1>1, <1>2, <2>1, <2>2, <1>3, <1>4, <1>5, <1>7, Idle
     DEF UnlinkedIsEmpty, Sound, Unlinked, At, Exists, DiskOK, FileRec, SavedRec,
         ThreadOK, ThreadRec
  <2>8. Settled(w)'
    BY <1>1, <1>2, <2>1, <2>2, <1>3, <1>4, <1>5, <1>7, Idle
     DEF Settled, Sound, Due, SnapshotToCome, ThreadShape, Renewing, Added, Restoring,
         Mapped, Queued, At,
         Same, Saving, Seen, DiskOK, FileRec, SavedRec, ThreadOK, ThreadRec
  <2>9. OldIsDeleted(w)'
    BY <1>1, <1>2, <2>1, <2>2, <1>3, <1>4, <1>5, <1>7, Idle
     DEF OldIsDeleted, Sound, Removing, DiskOK, FileRec, SavedRec, ThreadOK, ThreadRec
  <2>10. NewHasFile(w)'
    BY <1>1, <1>2, <2>1, <2>2, <1>3, <1>4, <1>5, <1>7, Idle
     DEF NewHasFile, Sound, Mapped, Added, Exists, At, Saving, DiskOK, FileRec,
         SavedRec, ThreadOK, ThreadRec
  <2>11. WrittenHasFile(w)'
    BY <1>1, <1>2, <2>1, <2>2, <1>3, <1>4, <1>5, <1>7, Idle
     DEF WrittenHasFile, Sound, InHand, At, Exists, DiskOK, FileRec, SavedRec, ThreadOK,
         ThreadRec
  <2>12. Kept(w)'
    BY <1>1, <1>2, <2>1, <2>2, <1>3, <1>4, <1>5, <1>7, Idle
     DEF Kept, Sound, InHand, At, ThreadShape, DiskOK, FileRec, SavedRec, ThreadOK,
         ThreadRec
  <2>13. ToldIsGone(w)'
    BY <1>1, <1>2, <2>1, <2>2, <1>3, <1>4, <1>5, <1>7, Idle
     DEF ToldIsGone, Sound, Exists, Mapped, Saving, At, DiskOK, FileRec, SavedRec,
         ThreadOK, ThreadRec
  <2>14. HeldIdIsOwn(w)'
    BY <1>1, <1>2, <2>1, <2>2, <1>3, <1>4, <1>5, <1>7, Idle
     DEF HeldIdIsOwn, Sound, Mapped, Added, Exists, At, Saving, DiskOK, FileRec,
         SavedRec, ThreadOK, ThreadRec
  <2> QED
    BY <1>2, <2>1, <2>3, <2>4, <2>5, <2>6, <2>7, <2>8, <2>9, <2>10, <2>11, <2>12, <2>13,
    <2>14
     DEF Sound, AgainFlagged, AgainUnsaved, RecreateIsRestored, IdIsOwn, Added, Mapped,
         Restoring
<1> QED
  BY <1>8, <1>9, <1>10 DEF IInv, EachSound

\* A failure is a lapse of the vbucket and of the new ones not come to; for the others
\* the snapshot is scheduled again.
LEMMA SaveStateFailsKeeps ==
  ASSUME IInv, NEW v \in VBs, SaveStateFails(v)
  PROVE  IInv'
<1>1. MapOK /\ DiskOK /\ OrderOK /\ QueuesOK /\ SetsOK /\ ThreadOK /\ ConnOK /\
      UsedOK /\ ThreadShape /\ ConnShape /\ OrderShape /\ DeletionFlags /\
      CreationFlags /\ RecordShape /\ SaveShape /\ CleanShape /\ PassShape
  BY DEF IInv, Types, Shapes
<1>2. UNCHANGED <<map, pid, creation, deletion, order, writing, ready, conn, specific,
                  used, told>>
  BY DEF SaveStateFails, At, Unchanged, Saved, ScheduleVBSnapshot, IdleThread, memory,
         flags, disk, queues, ghosts
<1>3. /\ thread.pc = "save" /\ v \in thread.todo /\ thread.seen[v] \in SavedRec
      /\ thread.seen[v].state # "none" /\ thread.sub = Nothing
  BY <1>1
   DEF SaveStateFails, At, ThreadOK, ThreadRec, SaveShape, Saving, ThreadShape,
       Snapshotting
<1>4. PICK s \in SavedRec : s = thread.seen[v] /\ s.state # "none"
  BY <1>3
<1>5. /\ thread' = IdleThread /\ thread.task \in {"high", "low"}
      /\ snapshotVBState' = FALSE
      /\ future \subseteq future' /\ future' \subseteq future \cup {thread.task}
      /\ thread.task \in ready \/ thread.task \in future'
  <2>1. ScheduleVBSnapshot(thread.task) /\ thread' = IdleThread
    BY DEF SaveStateFails
  <2>2. thread.task \in {"high", "low"}
    BY <1>1, <1>3 DEF ThreadShape, Snapshotting
  <2> QED
    BY <2>1, <2>2 DEF ScheduleVBSnapshot
<1>6. PICK left \in FileRec :
        /\ cached' = [cached EXCEPT ![v] = s]
        /\ file' = [file EXCEPT ![v] = left]
        /\ left = file[v] \/ left.state # "none"
  <2>1. /\ file[v] \in FileRec /\ Saved(v) \in FileRec /\ Saved(v).state # "none"
    BY <1>1, <1>4 DEF DiskOK, SavedRec, FileRec, Saved
  <2>2. Created(v) \in FileRec /\ (Created(v) = file[v] \/ Created(v).state # "none")
    BY <2>1, Names, Limits DEF Created, NoFile, FileRec, Values
  <2>3. \E left \in {file[v], Created(v), Saved(v)} : file' = [file EXCEPT ![v] = left]
    BY DEF SaveStateFails
  <2>4. cached' = [cached EXCEPT ![v] = s]
    BY <1>4 DEF SaveStateFails
  <2> QED
    BY <2>1, <2>2, <2>3, <2>4
<1>7. /\ \A x \in VBs \ {v} : cached'[x] = cached[x] /\ file'[x] = file[x]
      /\ cached'[v] = s /\ (file'[v] = file[v] \/ file'[v].state # "none")
  BY <1>1, <1>6 DEF DiskOK
<1>8. Types'
  <2>1. DiskOK'
    BY <1>1, <1>2, <1>6 DEF DiskOK
  <2>2. QueuesOK'
    BY <1>1, <1>2, <1>3, <1>4, <1>5, <1>7, Idle, Names
     DEF QueuesOK, Tasks, DiskOK, FileRec, SavedRec, SetsOK, ThreadOK, ThreadRec
  <2>3. SetsOK'
    BY <1>1, <1>2, <1>5 DEF SetsOK
  <2>4. ThreadOK'
    BY <1>1, <1>5, Idle DEF ThreadOK
  <2> QED
    BY <1>1, <1>2, <2>1, <2>2, <2>3, <2>4 DEF Types, MapOK, OrderOK, ConnOK, UsedOK
<1>9. Shapes'
  <2>1. ThreadShape'
    BY <1>1, <1>2, <1>3, <1>4, <1>5, <1>7, Idle, Names
     DEF ThreadShape, Deleting, Snapshotting, Flushing, Renewing, ThreadOK, ThreadRec
  <2>2. DeletionFlags'
    BY <1>1, <1>2, <1>3, <1>4, <1>5, <1>7, Idle, Names
     DEF DeletionFlags, Queued, ThreadShape, Deleting, QueuesOK, ThreadOK, ThreadRec
  <2>3. CreationFlags'
    BY <1>1, <1>2, <1>3, <1>4, <1>5, <1>7, Idle, Names
     DEF CreationFlags, Queued, At, QueuesOK, ThreadOK, ThreadRec
  <2>4. RecordShape'
    BY <1>1, <1>2, <1>3, <1>4, <1>5, <1>7, Idle, Names
     DEF RecordShape, Mapped, Exists, DiskOK, FileRec, SavedRec
  <2>5. SaveShape'
    BY <1>1, <1>2, <1>3, <1>4, <1>5, <1>7, Idle, Names
     DEF SaveShape, Saving, At, ThreadOK, ThreadRec
  <2>6. CleanShape'
    BY <1>1, <1>2, <1>3, <1>4, <1>5, <1>7, Idle, Names
     DEF CleanShape, At, ThreadOK, ThreadRec
  <2>7. PassShape'
    BY <1>1, <1>2, <1>3, <1>4, <1>5, <1>7, Idle, Names
     DEF PassShape, ThreadOK, ThreadRec
  <2> QED
    BY <1>1, <1>2, <2>1, <2>2, <2>3, <2>4, <2>5, <2>6, <2>7
     DEF Shapes, ConnShape, OrderShape
<1>10. ASSUME NEW w \in VBs, Faultless(w)'
      PROVE  Sound(w)'
  <2>1. Faultless(w) /\ Sound(w)
    BY <1>1, <1>2, <1>10
     DEF IInv, Faultless, EachSound, SaveStateFails, At, Unchanged, Saved,
         ScheduleVBSnapshot, IdleThread, Lapse, UsedOK, UsedRec
  <2>2. /\ w # v /\ file'[w] = file[w] /\ cached'[w] = cached[w]
        /\ w \in thread.todo /\ w \notin creation => Exists(w)
    <3>1. ASSUME w = v \/ (w \in thread.todo /\ ~Exists(w) /\ w \notin creation)
          PROVE  FALSE
      BY <1>10, <3>1 DEF SaveStateFails, Lapse, Faultless
    <3> QED
      BY <1>7, <3>1
  <2>3. Exists(w)' <=> Exists(w)
    BY <2>2 DEF Exists
  <2>4. HandIsCurrent(w)'
    BY <1>1, <1>2, <2>1, <2>2, <2>3, <1>3, <1>4, <1>5, <1>7, Idle, Names
     DEF HandIsCurrent, Sound, InHand, At, Mapped, ThreadOK, ThreadRec
  <2>5. SubIsCurrent(w)'
    BY <1>1, <1>2, <2>1, <2>2, <2>3, <1>3, <1>4, <1>5, <1>7, Idle, Names
     DEF SubIsCurrent, Sound, ThreadOK, ThreadRec
  <2>6. LeftIsRestored(w)'
    BY <1>1, <1>2, <2>1, <2>2, <2>3, <1>3, <1>4, <1>5, <1>7, Idle, Names
     DEF LeftIsRestored, Sound, Mapped, Exists, Saving, At, Restoring, DiskOK, FileRec,
         SavedRec, ThreadOK, ThreadRec
  <2>7. CacheIsFile(w)'
    BY <1>1, <1>2, <2>1, <2>2, <2>3, <1>3, <1>4, <1>5, <1>7, Idle, Names
     DEF CacheIsFile, Sound, Unlinked, At, DiskOK, FileRec, SavedRec, ThreadOK,
         ThreadRec
  <2>8. UnlinkedIsEmpty(w)'
    BY <1>1, <1>2, <2>1, <2>2, <2>3, <1>3, <1>4, <1>5, <1>7, Idle, Names
     DEF UnlinkedIsEmpty, Sound, Unlinked, At, Exists, DiskOK, FileRec, SavedRec,
         ThreadOK, ThreadRec
  <2>9. Settled(w)'
    BY <1>1, <1>2, <2>1, <2>2, <2>3, <1>3, <1>4, <1>5, <1>7, Idle, Names
     DEF Settled, Sound, Due, SnapshotToCome, ThreadShape, Renewing, Added, Restoring,
         Mapped, Queued, At,
         Same, Saving, Seen, DiskOK, FileRec, SavedRec, QueuesOK, SetsOK, ThreadOK,
         ThreadRec
  <2>10. OldIsDeleted(w)'
    BY <1>1, <1>2, <2>1, <2>2, <2>3, <1>3, <1>4, <1>5, <1>7, Idle, Names
     DEF OldIsDeleted, Sound, Removing, DiskOK, FileRec, SavedRec, ThreadOK, ThreadRec
  <2>11. NewHasFile(w)'
    BY <1>1, <1>2, <2>1, <2>2, <2>3, <1>3, <1>4, <1>5, <1>7, Idle, Names
     DEF NewHasFile, Sound, Mapped, Added, Exists, At, Saving, DiskOK, FileRec,
         SavedRec, ThreadOK, ThreadRec
  <2>12. WrittenHasFile(w)'
    BY <1>1, <1>2, <2>1, <2>2, <2>3, <1>3, <1>4, <1>5, <1>7, Idle, Names
     DEF WrittenHasFile, Sound, InHand, At, Exists, DiskOK, FileRec, SavedRec, ThreadOK,
         ThreadRec
  <2>13. Kept(w)'
    BY <1>1, <1>2, <2>1, <2>2, <2>3, <1>3, <1>4, <1>5, <1>7, Idle, Names
     DEF Kept, Sound, InHand, At, ThreadShape, DiskOK, FileRec, SavedRec, ThreadOK,
         ThreadRec
  <2>14. ToldIsGone(w)'
    BY <1>1, <1>2, <2>1, <2>2, <2>3, <1>3, <1>4, <1>5, <1>7, Idle, Names
     DEF ToldIsGone, Sound, Exists, Mapped, Saving, At, DiskOK, FileRec, SavedRec,
         ThreadOK, ThreadRec
  <2>15. HeldIdIsOwn(w)'
    BY <1>1, <1>2, <2>1, <2>2, <2>3, <1>3, <1>4, <1>5, <1>7, Idle, Names
     DEF HeldIdIsOwn, Sound, Mapped, Added, Exists, At, Saving, DiskOK, FileRec,
         SavedRec, ThreadOK, ThreadRec
  <2> QED
    BY <1>2, <2>1, <2>4, <2>5, <2>6, <2>7, <2>8, <2>9, <2>10, <2>11, <2>12, <2>13, <2>14,
    <2>15
     DEF Sound, AgainFlagged, AgainUnsaved, RecreateIsRestored, IdIsOwn, Added, Mapped,
         Restoring
<1> QED
  BY <1>8, <1>9, <1>10 DEF IInv, EachSound

\* The queue of a vbucket that is deleted holds nothing of a new vbucket.
LEMMA BeginDeletionKeeps ==
  ASSUME IInv, NEW v \in VBs, BeginDeletion(v)
  PROVE  IInv'
<1>1. MapOK /\ DiskOK /\ OrderOK /\ QueuesOK /\ SetsOK /\ ThreadOK /\ ConnOK /\
      UsedOK /\ ThreadShape /\ ConnShape /\ OrderShape /\ DeletionFlags /\
      CreationFlags /\ RecordShape /\ SaveShape /\ CleanShape /\ PassShape
  BY DEF IInv, Types, Shapes
<1>2. UNCHANGED <<map, pid, creation, deletion, order, cached, file, ready, future,
                  snapshotVBState, conn, specific, used, told, lapse>>
  BY DEF BeginDeletion, At, CleanQueue, memory, flags, disk, queues, ghosts
<1>3. Types'
  <2>1. SetsOK'
    BY <1>1, <1>2 DEF SetsOK, ThreadOK, ThreadRec, BeginDeletion, At, CleanQueue
  <2>2. ThreadOK'
    BY <1>1, <1>2, ThreadPCs
     DEF ThreadOK, ThreadRec, SetsOK, BeginDeletion, At, CleanQueue
  <2> QED
    BY <1>1, <1>2, <2>1, <2>2
     DEF Types, MapOK, DiskOK, OrderOK, QueuesOK, ConnOK, UsedOK
<1>4. Shapes'
  <2>1. ThreadShape'
    BY <1>1, <1>2
     DEF ThreadShape, Deleting, Snapshotting, Flushing, Renewing, ThreadOK, ThreadRec,
         BeginDeletion, At, CleanQueue
  <2>2. DeletionFlags'
    BY <1>1, <1>2
     DEF DeletionFlags, Queued, ThreadShape, Deleting, ThreadOK, ThreadRec,
         BeginDeletion, At, CleanQueue
  <2>3. CreationFlags'
    BY <1>1, <1>2
     DEF CreationFlags, Queued, At, ThreadOK, ThreadRec, BeginDeletion, CleanQueue
  <2>4. SaveShape'
    BY <1>1, <1>2
     DEF SaveShape, Saving, At, ThreadOK, ThreadRec, BeginDeletion, CleanQueue
  <2>5. CleanShape'
    BY <1>1, <1>2
     DEF CleanShape, At, SetsOK, ThreadOK, ThreadRec, BeginDeletion, CleanQueue
  <2>6. PassShape'
    BY <1>1, <1>2
     DEF PassShape, SetsOK, ThreadOK, ThreadRec, BeginDeletion, At, CleanQueue
  <2> QED
    BY <1>1, <1>2, <2>1, <2>2, <2>3, <2>4, <2>5, <2>6
     DEF Shapes, ConnShape, OrderShape, RecordShape, Exists, Mapped
<1>5. ASSUME NEW w \in VBs, Faultless(w)'
      PROVE  Sound(w)'
  <2>1. Faultless(w) /\ Sound(w)
    BY <1>2, <1>5 DEF IInv, Faultless, EachSound
  <2>2. HandIsCurrent(w)'
    BY <1>1, <1>2, <2>1
     DEF HandIsCurrent, Sound, InHand, At, Mapped, ThreadOK, ThreadRec, BeginDeletion,
         CleanQueue
  <2>3. SubIsCurrent(w)'
    BY <1>1, <1>2, <2>1
     DEF SubIsCurrent, Sound, ThreadOK, ThreadRec, BeginDeletion, At, CleanQueue
  <2>4. LeftIsRestored(w)'
    BY <1>1, <1>2, <2>1
     DEF LeftIsRestored, Sound, Mapped, Exists, Saving, At, Restoring, ThreadOK,
         ThreadRec, BeginDeletion, CleanQueue
  <2>5. CacheIsFile(w)'
    BY <1>1, <1>2, <2>1
     DEF CacheIsFile, Sound, Unlinked, At, ThreadOK, ThreadRec, BeginDeletion,
         CleanQueue
  <2>6. UnlinkedIsEmpty(w)'
    BY <1>1, <1>2, <2>1
     DEF UnlinkedIsEmpty, Sound, Unlinked, At, Exists, ThreadOK, ThreadRec,
         BeginDeletion, CleanQueue
  <2>7. Settled(w)'
    BY <1>1, <1>2, <2>1
     DEF Settled, Sound, Due, SnapshotToCome, ThreadShape, Renewing, Added, Restoring,
         Mapped, Queued, At,
         Same, Saving, Seen, ThreadOK, ThreadRec, BeginDeletion, CleanQueue
  <2>8. OldIsDeleted(w)'
    BY <1>1, <1>2, <2>1
     DEF OldIsDeleted, Sound, Removing, ThreadOK, ThreadRec, BeginDeletion, At,
         CleanQueue
  <2>9. NewHasFile(w)'
    BY <1>1, <1>2, <2>1
     DEF NewHasFile, Sound, Mapped, Added, Exists, At, Saving, ThreadOK, ThreadRec,
         BeginDeletion, CleanQueue
  <2>10. WrittenHasFile(w)'
    BY <1>1, <1>2, <2>1
     DEF WrittenHasFile, Sound, InHand, At, Exists, SetsOK, ThreadOK, ThreadRec,
         BeginDeletion, CleanQueue
  <2>11. Kept(w)'
    BY <1>1, <1>2, <2>1, Idle
     DEF Kept, Sound, InHand, At, ThreadShape, SetsOK, ThreadOK, ThreadRec,
         BeginDeletion, CleanQueue, AgainUnsaved, DeletionFlags, RecordShape, NoVB,
         Mapped
  <2>12. ToldIsGone(w)'
    BY <1>1, <1>2, <2>1
     DEF ToldIsGone, Sound, Exists, Mapped, Saving, At, ThreadOK, ThreadRec,
         BeginDeletion, CleanQueue
  <2>13. HeldIdIsOwn(w)'
    BY <1>1, <1>2, <2>1
     DEF HeldIdIsOwn, Sound, Mapped, Added, Exists, At, Saving, ThreadOK, ThreadRec,
         BeginDeletion, CleanQueue
  <2> QED
    BY <1>2, <2>1, <2>2, <2>3, <2>4, <2>5, <2>6, <2>7, <2>8, <2>9, <2>10, <2>11, <2>12,
    <2>13
     DEF Sound, AgainFlagged, AgainUnsaved, RecreateIsRestored, IdIsOwn, Added, Mapped,
         Restoring
<1> QED
  BY <1>3, <1>4, <1>5 DEF IInv, EachSound

\* The file is gone, or empty and with the state that is restored.
LEMMA DeleteFileKeeps ==
  ASSUME IInv, NEW v \in VBs, DeleteFile(v)
  PROVE  IInv'
<1>1. MapOK /\ DiskOK /\ OrderOK /\ QueuesOK /\ SetsOK /\ ThreadOK /\ ConnOK /\
      UsedOK /\ ThreadShape /\ ConnShape /\ OrderShape /\ DeletionFlags /\
      CreationFlags /\ RecordShape /\ SaveShape /\ CleanShape /\ PassShape
  BY DEF IInv, Types, Shapes
<1>2. UNCHANGED <<map, pid, creation, deletion, order, writing, ready, future,
                  snapshotVBState, conn, specific, used, told, lapse>>
  BY DEF DeleteFile, At, memory, flags, disk, queues, ghosts
<1>3. thread.pc = "unlink" /\ thread.task = v /\ thread.sub = Nothing
  BY <1>1 DEF DeleteFile, At, ThreadShape
<1>4. v \in deletion /\ v \notin writing /\ ~Queued(v)
  BY <1>1, <1>3 DEF DeletionFlags, CleanShape, At
<1>5. PICK s \in SavedRec : /\ s = CachedAfter(v)
                            /\ order[v].recreate => s.state # "none" /\ s.id = 0
                            /\ ~order[v].recreate => s = NoState
  <2>1. CachedAfter(v) \in SavedRec
    BY <1>1, Names DEF DiskOK, SavedRec, CachedAfter, NoState, VBState
  <2>2. order[v].recreate => CachedAfter(v).state # "none" /\ CachedAfter(v).id = 0
    BY <1>1, Names DEF RecordShape, CachedAfter, NoState
  <2>3. ~order[v].recreate => CachedAfter(v) = NoState
    BY DEF CachedAfter
  <2> QED
    BY <2>1, <2>2, <2>3
<1>6. /\ thread'.pc = "unlinked" /\ thread'.task = v /\ thread'.vb = thread.vb
      /\ thread'.todo = thread.todo /\ thread'.sub = Nothing
      /\ thread'.due = thread.due /\ thread'.old = thread.old
  BY <1>1, <1>3 DEF DeleteFile, ThreadOK, ThreadRec
<1>7. /\ cached' = [cached EXCEPT ![v] = s]
      /\ file' = [file EXCEPT ![v] = Recreated(v, NoFile)]
      /\ order[v].recreate => Recreated(v, NoFile) = [state |-> s.state, value |-> 0, id |-> 0]
      /\ ~order[v].recreate => Recreated(v, NoFile) = NoFile
  BY <1>5 DEF DeleteFile, Recreated, NoFile
<1>8. /\ \A x \in VBs \ {v} : cached'[x] = cached[x] /\ file'[x] = file[x]
      /\ cached'[v] = s /\ file'[v].value = 0
      /\ file'[v].state = s.state /\ file'[v].id = s.id
      /\ ~order[v].recreate => file'[v] = NoFile /\ s.state = "none"
  BY <1>1, <1>5, <1>7 DEF DiskOK, SavedRec, FileRec, NoFile, NoState
<1>9. Types'
  <2>1. DiskOK'
    <3>1. Recreated(v, NoFile) \in FileRec
      BY <1>5, <1>7, Limits DEF SavedRec, FileRec, NoFile, VBState, Values
    <3> QED
      BY <1>1, <1>2, <1>7, <3>1 DEF DiskOK
  <2>2. ThreadOK'
    BY <1>1, ThreadPCs DEF DeleteFile, ThreadOK, ThreadRec
  <2> QED
    BY <1>1, <1>2, <2>1, <2>2
     DEF Types, MapOK, OrderOK, QueuesOK, SetsOK, ConnOK, UsedOK
<1>10. Shapes'
  <2>1. ThreadShape'
    BY <1>1, <1>2, <1>3, <1>4, <1>5, <1>6, <1>8, Idle
     DEF ThreadShape, Deleting, Snapshotting, Flushing, Renewing, ThreadOK, ThreadRec
  <2>2. DeletionFlags'
    BY <1>1, <1>2, <1>3, <1>4, <1>5, <1>6, <1>8, Idle
     DEF DeletionFlags, Queued, ThreadShape, Deleting, ThreadOK, ThreadRec
  <2>3. CreationFlags'
    BY <1>1, <1>2, <1>3, <1>4, <1>5, <1>6, <1>8, Idle
     DEF CreationFlags, Queued, At, ThreadOK, ThreadRec
  <2>4. RecordShape'
    BY <1>1, <1>2, <1>3, <1>4, <1>5, <1>6, <1>8, Idle
     DEF RecordShape, Mapped, Exists, DiskOK, FileRec, SavedRec
  <2>5. SaveShape'
    BY <1>1, <1>2, <1>3, <1>4, <1>5, <1>6, <1>8, Idle
     DEF SaveShape, Saving, At, ThreadOK, ThreadRec
  <2>6. CleanShape'
    BY <1>1, <1>2, <1>3, <1>4, <1>5, <1>6, <1>8, Idle
     DEF CleanShape, At, ThreadOK, ThreadRec
  <2>7. PassShape'
    BY <1>1, <1>2, <1>3, <1>4, <1>5, <1>6, <1>8, Idle DEF PassShape, ThreadOK, ThreadRec
  <2> QED
    BY <1>1, <1>2, <2>1, <2>2, <2>3, <2>4, <2>5, <2>6, <2>7
     DEF Shapes, ConnShape, OrderShape
<1>11. ASSUME NEW w \in VBs, Faultless(w)'
      PROVE  Sound(w)'
  <2>1. Faultless(w) /\ Sound(w)
    BY <1>2, <1>11 DEF IInv, Faultless, EachSound
  <2>2. w # v => file'[w] = file[w] /\ cached'[w] = cached[w] /\ (Exists(w)' <=> Exists(w))
    BY <1>8 DEF Exists
  <2>3. HandIsCurrent(w)'
    BY <1>1, <1>2, <2>1, <2>2, <1>3, <1>4, <1>5, <1>6, <1>8, Idle
     DEF HandIsCurrent, Sound, InHand, At, Mapped, ThreadOK, ThreadRec
  <2>4. SubIsCurrent(w)'
    BY <1>1, <1>2, <2>1, <2>2, <1>3, <1>4, <1>5, <1>6, <1>8, Idle
     DEF SubIsCurrent, Sound, ThreadOK, ThreadRec
  <2>5. LeftIsRestored(w)'
    BY <1>1, <1>2, <2>1, <2>2, <1>3, <1>4, <1>5, <1>6, <1>8, Idle
     DEF LeftIsRestored, Sound, Mapped, Exists, Saving, At, Restoring, DiskOK, FileRec,
         SavedRec, ThreadOK, ThreadRec
  <2>6. CacheIsFile(w)'
    BY <1>1, <1>2, <2>1, <2>2, <1>3, <1>4, <1>5, <1>6, <1>8, Idle
     DEF CacheIsFile, Sound, Unlinked, At, DiskOK, FileRec, SavedRec, ThreadOK,
         ThreadRec
  <2>7. UnlinkedIsEmpty(w)'
    BY <1>1, <1>2, <2>1, <2>2, <1>3, <1>4, <1>5, <1>6, <1>8, Idle
     DEF UnlinkedIsEmpty, Sound, Unlinked, At, Exists, DiskOK, FileRec, SavedRec,
         ThreadOK, ThreadRec
  <2>8. Settled(w)'
    BY <1>1, <1>2, <2>1, <2>2, <1>3, <1>4, <1>5, <1>6, <1>8, Idle
     DEF Settled, Sound, Due, SnapshotToCome, ThreadShape, Renewing, Added, Restoring,
         Mapped, Queued, At,
         Same, Saving, Seen, DiskOK, FileRec, SavedRec, ThreadOK, ThreadRec
  <2>9. OldIsDeleted(w)'
    BY <1>1, <1>2, <2>1, <2>2, <1>3, <1>4, <1>5, <1>6, <1>8, Idle
     DEF OldIsDeleted, Sound, Removing, DiskOK, FileRec, SavedRec, ThreadOK, ThreadRec
  <2>10. NewHasFile(w)'
    BY <1>1, <1>2, <2>1, <2>2, <1>3, <1>4, <1>5, <1>6, <1>8, Idle
     DEF NewHasFile, Sound, Mapped, Added, Exists, At, Saving, DiskOK, FileRec,
         SavedRec, ThreadOK, ThreadRec
  <2>11. WrittenHasFile(w)'
    BY <1>1, <1>2, <2>1, <2>2, <1>3, <1>4, <1>5, <1>6, <1>8, Idle
     DEF WrittenHasFile, Sound, InHand, At, Exists, DiskOK, FileRec, SavedRec, ThreadOK,
         ThreadRec, ThreadShape
  <2>12. Kept(w)'
    BY <1>1, <1>2, <2>1, <2>2, <1>3, <1>4, <1>5, <1>6, <1>8, Idle
     DEF Kept, Sound, InHand, At, ThreadShape, DiskOK, FileRec, SavedRec, ThreadOK,
         ThreadRec, AgainUnsaved, RecordShape, NoVB, Mapped
  <2>13. ToldIsGone(w)'
    BY <1>1, <1>2, <2>1, <2>2, <1>3, <1>4, <1>5, <1>6, <1>8, Idle
     DEF ToldIsGone, Sound, Exists, Mapped, Saving, At, DiskOK, FileRec, SavedRec,
         ThreadOK, ThreadRec
  <2>14. HeldIdIsOwn(w)'
    BY <1>1, <1>2, <2>1, <2>2, <1>3, <1>4, <1>5, <1>6, <1>8, Idle
     DEF HeldIdIsOwn, Sound, Mapped, Added, Exists, At, Saving, DiskOK, FileRec,
         SavedRec, ThreadOK, ThreadRec
  <2> QED
    BY <1>2, <2>1, <2>3, <2>4, <2>5, <2>6, <2>7, <2>8, <2>9, <2>10, <2>11, <2>12, <2>13,
    <2>14
     DEF Sound, AgainFlagged, AgainUnsaved, RecreateIsRestored, IdIsOwn, Added, Mapped,
         Restoring
<1> QED
  BY <1>9, <1>10, <1>11 DEF IInv, EachSound

\* The deletion is tried again, and its flag stays.
LEMMA DeleteFileFailsKeeps ==
  ASSUME IInv, NEW v \in VBs, DeleteFileFails(v)
  PROVE  IInv'
<1>1. MapOK /\ DiskOK /\ OrderOK /\ QueuesOK /\ SetsOK /\ ThreadOK /\ ConnOK /\
      UsedOK /\ ThreadShape /\ ConnShape /\ OrderShape /\ DeletionFlags /\
      CreationFlags /\ RecordShape /\ SaveShape /\ CleanShape /\ PassShape
  BY DEF IInv, Types, Shapes
<1>2. UNCHANGED <<map, pid, creation, deletion, order, writing, ready, snapshotVBState,
                  conn, specific, used, told, lapse>>
  BY DEF DeleteFileFails, At, memory, flags, disk, queues, ghosts
<1>3. thread.pc = "unlink" /\ thread.task = v /\ thread.sub = Nothing
  BY <1>1 DEF DeleteFileFails, At, ThreadShape
<1>4. v \in deletion /\ v \notin writing /\ ~Queued(v)
  BY <1>1, <1>3 DEF DeletionFlags, CleanShape, At
<1>5. PICK s \in SavedRec : /\ s = CachedAfter(v)
                            /\ order[v].recreate => s.state # "none" /\ s.id = 0
                            /\ ~order[v].recreate => s = NoState
  <2>1. CachedAfter(v) \in SavedRec
    BY <1>1, Names DEF DiskOK, SavedRec, CachedAfter, NoState, VBState
  <2>2. order[v].recreate => CachedAfter(v).state # "none" /\ CachedAfter(v).id = 0
    BY <1>1, Names DEF RecordShape, CachedAfter, NoState
  <2>3. ~order[v].recreate => CachedAfter(v) = NoState
    BY DEF CachedAfter
  <2> QED
    BY <2>1, <2>2, <2>3
<1>6. thread' = IdleThread /\ future' = future \cup {v}
  BY DEF DeleteFileFails, Done
<1>7. /\ cached' = [cached EXCEPT ![v] = s]
      /\ file' = [file EXCEPT ![v] = IF order[v].recreate
                                     THEN [file[v] EXCEPT !.state = s.state, !.id = 0]
                                     ELSE file[v]]
  BY <1>5 DEF DeleteFileFails, Recreated
<1>8. /\ \A x \in VBs \ {v} : cached'[x] = cached[x] /\ file'[x] = file[x]
      /\ cached'[v] = s /\ file'[v].value = file[v].value
      /\ ~order[v].recreate => file'[v] = file[v]
      /\ order[v].recreate => file'[v].state = s.state
  BY <1>1, <1>5, <1>7 DEF DiskOK, SavedRec, FileRec
<1>9. Types'
  <2>1. DiskOK'
    <3>1. ASSUME order[v].recreate
          PROVE  [file[v] EXCEPT !.state = s.state, !.id = s.id] \in FileRec
      BY <1>1 DEF DiskOK, SavedRec, FileRec
    <3> QED
      BY <1>1, <1>2, <1>5, <1>7, <3>1 DEF DiskOK
  <2>2. QueuesOK'
    BY <1>1, <1>2, <1>3, <1>4, <1>5, <1>6, <1>8, Idle, Names
     DEF QueuesOK, Tasks, DiskOK, FileRec, SavedRec, ThreadOK, ThreadRec
  <2>3. ThreadOK'
    BY <1>6, Idle DEF ThreadOK
  <2> QED
    BY <1>1, <1>2, <2>1, <2>2, <2>3 DEF Types, MapOK, OrderOK, SetsOK, ConnOK, UsedOK
<1>10. Shapes'
  <2>1. ThreadShape'
    BY <1>1, <1>2, <1>3, <1>4, <1>5, <1>6, <1>8, Idle, Names
     DEF ThreadShape, Deleting, Snapshotting, Flushing, Renewing, ThreadOK, ThreadRec
  <2>2. DeletionFlags'
    BY <1>1, <1>2, <1>3, <1>4, <1>5, <1>6, <1>8, Idle, Names
     DEF DeletionFlags, Queued, ThreadShape, Deleting, QueuesOK, ThreadOK, ThreadRec
  <2>3. CreationFlags'
    BY <1>1, <1>2, <1>3, <1>4, <1>5, <1>6, <1>8, Idle, Names
     DEF CreationFlags, Queued, At, QueuesOK, ThreadOK, ThreadRec
  <2>4. RecordShape'
    BY <1>1, <1>2, <1>3, <1>4, <1>5, <1>6, <1>8, Idle, Names
     DEF RecordShape, Mapped, Exists, DiskOK, FileRec, SavedRec
  <2>5. SaveShape'
    BY <1>1, <1>2, <1>3, <1>4, <1>5, <1>6, <1>8, Idle, Names
     DEF SaveShape, Saving, At, ThreadOK, ThreadRec
  <2>6. CleanShape'
    BY <1>1, <1>2, <1>3, <1>4, <1>5, <1>6, <1>8, Idle, Names
     DEF CleanShape, At, ThreadOK, ThreadRec
  <2>7. PassShape'
    BY <1>1, <1>2, <1>3, <1>4, <1>5, <1>6, <1>8, Idle, Names
     DEF PassShape, ThreadOK, ThreadRec
  <2> QED
    BY <1>1, <1>2, <2>1, <2>2, <2>3, <2>4, <2>5, <2>6, <2>7
     DEF Shapes, ConnShape, OrderShape
<1>11. ASSUME NEW w \in VBs, Faultless(w)'
      PROVE  Sound(w)'
  <2>1. Faultless(w) /\ Sound(w)
    BY <1>2, <1>11 DEF IInv, Faultless, EachSound
  <2>2. /\ w # v => file'[w] = file[w] /\ cached'[w] = cached[w]
        /\ file'[w].value = file[w].value /\ (Exists(w) => Exists(w)')
        /\ ~(w = v /\ order[v].recreate) => file'[w] = file[w] /\ (Exists(w)' <=> Exists(w))
    BY <1>5, <1>8 DEF Exists
  <2>3. HandIsCurrent(w)'
    BY <1>1, <1>2, <2>1, <2>2, <1>3, <1>4, <1>5, <1>6, <1>8, Idle, Names
     DEF HandIsCurrent, Sound, InHand, At, Mapped, ThreadOK, ThreadRec
  <2>4. SubIsCurrent(w)'
    BY <1>1, <1>2, <2>1, <2>2, <1>3, <1>4, <1>5, <1>6, <1>8, Idle, Names
     DEF SubIsCurrent, Sound, ThreadOK, ThreadRec
  <2>5. LeftIsRestored(w)'
    BY <1>1, <1>2, <2>1, <2>2, <1>3, <1>4, <1>5, <1>6, <1>8, Idle, Names
     DEF LeftIsRestored, Sound, Mapped, Exists, Saving, At, Restoring, DiskOK, FileRec,
         SavedRec, ThreadOK, ThreadRec
  <2>6. CacheIsFile(w)'
    BY <1>1, <1>2, <2>1, <2>2, <1>3, <1>4, <1>5, <1>6, <1>8, Idle, Names
     DEF CacheIsFile, Sound, Unlinked, At, DiskOK, FileRec, SavedRec, ThreadOK,
         ThreadRec
  <2>7. UnlinkedIsEmpty(w)'
    BY <1>1, <1>2, <2>1, <2>2, <1>3, <1>4, <1>5, <1>6, <1>8, Idle, Names
     DEF UnlinkedIsEmpty, Sound, Unlinked, At, Exists, DiskOK, FileRec, SavedRec,
         ThreadOK, ThreadRec
  <2>8. Settled(w)'
    BY <1>1, <1>2, <2>1, <2>2, <1>3, <1>4, <1>5, <1>6, <1>8, Idle, Names
     DEF Settled, Sound, Due, SnapshotToCome, ThreadShape, Renewing, Added, Restoring,
         Mapped, Queued, At,
         Same, Saving, Seen, DiskOK, FileRec, SavedRec, QueuesOK, ThreadOK, ThreadRec
  <2>9. OldIsDeleted(w)'
    BY <1>1, <1>2, <2>1, <2>2, <1>3, <1>4, <1>5, <1>6, <1>8, Idle, Names
     DEF OldIsDeleted, Sound, Removing, DiskOK, FileRec, SavedRec, ThreadOK, ThreadRec
  <2>10. NewHasFile(w)'
    BY <1>1, <1>2, <2>1, <2>2, <1>3, <1>4, <1>5, <1>6, <1>8, Idle, Names
     DEF NewHasFile, Sound, Mapped, Added, Exists, At, Saving, DiskOK, FileRec,
         SavedRec, ThreadOK, ThreadRec
  <2>11. WrittenHasFile(w)'
    BY <1>1, <1>2, <2>1, <2>2, <1>3, <1>4, <1>5, <1>6, <1>8, Idle, Names
     DEF WrittenHasFile, Sound, InHand, At, Exists, DiskOK, FileRec, SavedRec, ThreadOK,
         ThreadRec
  <2>12. Kept(w)'
    BY <1>1, <1>2, <2>1, <2>2, <1>3, <1>4, <1>5, <1>6, <1>8, Idle, Names
     DEF Kept, Sound, InHand, At, ThreadShape, DiskOK, FileRec, SavedRec, ThreadOK,
         ThreadRec
  <2>13. ToldIsGone(w)'
    BY <1>1, <1>2, <2>1, <2>2, <1>3, <1>4, <1>5, <1>6, <1>8, Idle, Names
     DEF ToldIsGone, Sound, Exists, Mapped, Saving, At, DiskOK, FileRec, SavedRec,
         ThreadOK, ThreadRec
  <2>14. HeldIdIsOwn(w)'
    BY <1>1, <1>2, <2>1, <2>2, <1>3, <1>4, <1>5, <1>6, <1>8, Idle, Names
     DEF HeldIdIsOwn, Sound, Mapped, Added, Exists, At, Saving, DiskOK, FileRec,
         SavedRec, ThreadOK, ThreadRec
  <2> QED
    BY <1>2, <2>1, <2>3, <2>4, <2>5, <2>6, <2>7, <2>8, <2>9, <2>10, <2>11, <2>12, <2>13,
    <2>14
     DEF Sound, AgainFlagged, AgainUnsaved, RecreateIsRestored, IdIsOwn, Added, Mapped,
         Restoring
<1> QED
  BY <1>9, <1>10, <1>11 DEF IInv, EachSound
-----------------------------------------------------------------------------
(***************************************************************************)
(* What ends a deletion, and what begins a flush.                          *)
(***************************************************************************)
\* When the flag is cleared, the creation flag of a new vbucket is set, or its state is
\* about to be restored, or the file is gone; the client that waits is at this deletion.
LEMMA EndDeletionKeeps ==
  ASSUME IInv, NEW v \in VBs, EndDeletion(v)
  PROVE  IInv'
<1>1. MapOK /\ DiskOK /\ OrderOK /\ QueuesOK /\ SetsOK /\ ThreadOK /\ ConnOK /\
      UsedOK /\ ThreadShape /\ ConnShape /\ OrderShape /\ DeletionFlags /\
      CreationFlags /\ RecordShape /\ SaveShape /\ CleanShape /\ PassShape
  BY DEF IInv, Types, Shapes
<1>2. UNCHANGED <<map, pid, creation, writing, cached, file, ready, snapshotVBState,
                  specific, used, lapse>>
  BY DEF EndDeletion, At, Done, IdleThread, Notified, Mapped, memory, flags, disk,
         queues, ghosts
<1>3. /\ thread.pc = "unlinked" /\ thread.task = v /\ thread' = IdleThread
      /\ future' = future /\ deletion' = deletion \ {v}
      /\ order' = [order EXCEPT ![v] = NoOrder]
  BY DEF EndDeletion, At, Done
<1>4. v \in deletion /\ ~Queued(v) /\ thread.sub = Nothing
  BY <1>1, <1>3 DEF DeletionFlags, ThreadShape
<1>5. /\ NoOrder \in Orders /\ ~NoOrder.recreate /\ NoOrder.cookie = None
      /\ \A x \in VBs \ {v} : order'[x] = order[x]
      /\ order'[v] = NoOrder
  BY <1>1, <1>3 DEF OrderOK, NoOrder, Orders
<1>6. \A x \in Conns : /\ conn'[x] \in ConnRec
                       /\ conn'[x].pc = conn[x].pc /\ conn'[x].to = conn[x].to
                       /\ conn'[x].order = conn[x].order
                       /\ \/ conn'[x] = conn[x]
                          \/ x = order[v].cookie /\ conn[x].pc \in {"deleted", "waiting"}
  <2>1. CASE order[v].cookie = None
    BY <1>1, <2>1 DEF EndDeletion, ConnOK
  <2>2. CASE order[v].cookie # None
    <3>1. order[v].cookie \in Conns /\ conn' = [conn EXCEPT ![order[v].cookie].vb = None]
      BY <1>1, <2>2 DEF EndDeletion, OrderOK, Orders, Notified
    <3>2. conn[order[v].cookie].pc \in {"deleted", "waiting"}
      BY <1>1, <2>2 DEF OrderShape
    <3> QED
      BY <1>1, <3>1, <3>2 DEF ConnOK, ConnRec, MaybeVB
  <2> QED
    BY <2>1, <2>2
<1>7. \/ told' = told
      \/ told' = told \cup {v} /\ ~Mapped(v) /\ ~order[v].recreate
  BY <1>1 DEF EndDeletion, OrderShape
<1>8. Types'
  <2>1. OrderOK'
    BY <1>1, <1>2, <1>3, <1>4, <1>5, <1>6, <1>7, Idle, Names
     DEF OrderOK, QueuesOK, SetsOK, ThreadOK, ThreadRec, ConnOK, ConnRec
  <2>2. QueuesOK'
    BY <1>1, <1>2, <1>3, <1>4, <1>5, <1>6, <1>7, Idle, Names
     DEF QueuesOK, Tasks, OrderOK, SetsOK, ThreadOK, ThreadRec, ConnOK, ConnRec
  <2>3. SetsOK'
    BY <1>1, <1>2, <1>3, <1>4, <1>5, <1>6, <1>7, Idle, Names
     DEF SetsOK, OrderOK, QueuesOK, ThreadOK, ThreadRec, ConnOK, ConnRec
  <2>4. ThreadOK'
    BY <1>3, Idle DEF ThreadOK
  <2>5. ConnOK'
    <3>1. conn' = conn \/ conn' = [conn EXCEPT ![order[v].cookie].vb = None]
      BY DEF EndDeletion, Notified
    <3> QED
      BY <1>1, <1>6, <3>1 DEF ConnOK
  <2> QED
    BY <1>1, <1>2, <2>1, <2>2, <2>3, <2>4, <2>5 DEF Types, MapOK, DiskOK, UsedOK
<1>9. Shapes'
  <2>1. ThreadShape'
    BY <1>1, <1>2, <1>3, <1>4, <1>5, <1>6, <1>7, Idle, Names
     DEF ThreadShape, Deleting, Snapshotting, Flushing, Renewing, ThreadOK, ThreadRec
  <2>2. ConnShape'
    BY <1>1, <1>2, <1>3, <1>4, <1>5, <1>6, <1>7, Idle, Names
     DEF ConnShape, ConnOK, ConnRec
  <2>3. OrderShape'
    <3> SUFFICES ASSUME NEW x \in VBs
                 PROVE  /\ order'[x].recreate => order'[x].cookie = None
                        /\ order'[x].cookie # None =>
                             /\ conn'[order'[x].cookie].pc \in {"deleted", "waiting"}
                             /\ conn'[order'[x].cookie].vb = x
                             /\ conn'[order'[x].cookie].order.cookie # None
      BY DEF OrderShape
    <3>1. CASE x = v
      BY <1>5, <3>1
    <3>2. CASE x # v /\ order[x].cookie # None
      <4>1. PICK c \in Conns : c = order[x].cookie
        BY <1>1, <3>2 DEF OrderOK, Orders
      <4>2. conn[c].pc \in {"deleted", "waiting"} /\ conn[c].vb = x /\ c # order[v].cookie
        BY <1>1, <3>2, <4>1 DEF OrderShape
      <4> QED
        BY <1>1, <1>5, <1>6, <3>2, <4>1, <4>2 DEF OrderShape
    <3>3. CASE x # v /\ order[x].cookie = None
      BY <1>1, <1>5, <3>3 DEF OrderShape
    <3> QED
      BY <3>1, <3>2, <3>3
  <2>4. DeletionFlags'
    BY <1>1, <1>2, <1>3, <1>4, <1>5, <1>6, <1>7, Idle, Names
     DEF DeletionFlags, Queued, ThreadShape, Deleting, QueuesOK, SetsOK, ThreadOK,
         ThreadRec
  <2>5. CreationFlags'
    BY <1>1, <1>2, <1>3, <1>4, <1>5, <1>6, <1>7, Idle, Names
     DEF CreationFlags, Queued, At, QueuesOK, ThreadOK, ThreadRec, ConnOK, ConnRec
  <2>6. SaveShape'
    BY <1>1, <1>2, <1>3, <1>4, <1>5, <1>6, <1>7, Idle, Names
     DEF SaveShape, Saving, At, ThreadOK, ThreadRec
  <2>7. CleanShape'
    BY <1>1, <1>2, <1>3, <1>4, <1>5, <1>6, <1>7, Idle, Names
     DEF CleanShape, At, ThreadOK, ThreadRec
  <2>8. PassShape'
    BY <1>1, <1>2, <1>3, <1>4, <1>5, <1>6, <1>7, Idle, Names
     DEF PassShape, ThreadOK, ThreadRec
  <2> QED
    BY <1>1, <1>2, <2>1, <2>2, <2>3, <2>4, <2>5, <2>6, <2>7, <2>8
     DEF Shapes, RecordShape, Exists, Mapped
<1>10. ASSUME NEW w \in VBs, Faultless(w)'
      PROVE  Sound(w)'
  <2>1. Faultless(w) /\ Sound(w)
    BY <1>2, <1>10 DEF IInv, Faultless, EachSound
  <2>2. /\ Added(w)' <=> Added(w)
        /\ Removing(w)' <=> Removing(w)
        /\ Restoring(w)' <=> Restoring(w)
    BY <1>6 DEF Added, Removing, Restoring
  <2>3. AgainFlagged(w)'
    BY <1>1, <1>2, <2>1, <2>2, <1>3, <1>4, <1>5, <1>6, <1>7, Idle, Names
     DEF AgainFlagged, Sound, Mapped, Added, SetsOK, ConnOK, ConnRec
  <2>4. AgainUnsaved(w)'
    BY <1>1, <1>2, <2>1, <2>2, <1>3, <1>4, <1>5, <1>6, <1>7, Idle, Names
     DEF AgainUnsaved, Sound, Mapped, SetsOK
  <2>5. HandIsCurrent(w)'
    BY <1>1, <1>2, <2>1, <2>2, <1>3, <1>4, <1>5, <1>6, <1>7, Idle, Names
     DEF HandIsCurrent, Sound, InHand, At, Mapped, ThreadOK, ThreadRec
  <2>6. SubIsCurrent(w)'
    BY <1>1, <1>2, <2>1, <2>2, <1>3, <1>4, <1>5, <1>6, <1>7, Idle, Names
     DEF SubIsCurrent, Sound, ThreadOK, ThreadRec
  <2>7. LeftIsRestored(w)'
    BY <1>1, <1>2, <2>1, <2>2, <1>3, <1>4, <1>5, <1>6, <1>7, Idle, Names
     DEF LeftIsRestored, Sound, Mapped, Exists, Saving, At, Restoring, SetsOK, ThreadOK,
         ThreadRec, ConnOK, ConnRec, UnlinkedIsEmpty, RecreateIsRestored, Unlinked
  <2>8. RecreateIsRestored(w)'
    BY <1>1, <1>2, <2>1, <2>2, <1>3, <1>4, <1>5, <1>6, <1>7, Idle, Names
     DEF RecreateIsRestored, Sound, Mapped, Restoring, OrderOK, SetsOK, ConnOK, ConnRec
  <2>9. CacheIsFile(w)'
    BY <1>1, <1>2, <2>1, <2>2, <1>3, <1>4, <1>5, <1>6, <1>7, Idle, Names
     DEF CacheIsFile, Sound, Unlinked, At, SetsOK, ThreadOK, ThreadRec
  <2>10. UnlinkedIsEmpty(w)'
    BY <1>1, <1>2, <2>1, <2>2, <1>3, <1>4, <1>5, <1>6, <1>7, Idle, Names
     DEF UnlinkedIsEmpty, Sound, Unlinked, At, Exists, OrderOK, ThreadOK, ThreadRec
  <2>11. Settled(w)'
    <3>1. CASE w # v
      BY <1>1, <1>2, <2>1, <2>2, <1>3, <1>6, <3>1, Idle
       DEF Sound, Settled, Due, SnapshotToCome, ThreadShape, Renewing, Queued, At,
           Saving, Same, Seen, Mapped
    <3>2. CASE w = v /\ Mapped(w)
      <4>1. Added(w) \/ v \in creation
        BY <1>4, <2>1, <3>2 DEF Sound, AgainFlagged
      <4>2. v \in creation => SnapshotToCome'
        BY <1>1, <1>2, <1>3, <1>6 DEF CreationFlags, SnapshotToCome, Queued, At
      <4> QED
        BY <2>2, <4>1, <4>2 DEF Settled, Due
    <3>3. CASE w = v /\ ~Mapped(w) /\ order[w].recreate
      <4>1. Restoring(w) /\ ~Mapped(w)'
        BY <1>2, <1>4, <2>1, <3>3 DEF Sound, RecreateIsRestored, Mapped
      <4> QED
        BY <2>2, <4>1 DEF Settled, Due
    <3>4. CASE w = v /\ ~Mapped(w) /\ ~order[w].recreate
      <4>1. ~Exists(w)
        BY <1>3, <2>1, <3>4 DEF Sound, UnlinkedIsEmpty, Unlinked, At
      <4>2. Same(w)' /\ ~Saving(w)'
        BY <1>2, <1>3, <3>4, <4>1, Idle DEF Same, Exists, Mapped, Saving, At
      <4> QED
        BY <4>2 DEF Settled
    <3> QED
      BY <3>1, <3>2, <3>3, <3>4
  <2>12. OldIsDeleted(w)'
    BY <1>1, <1>2, <2>1, <2>2, <1>3, <1>4, <1>5, <1>6, <1>7, Idle, Names
     DEF OldIsDeleted, Sound, Removing, SetsOK, ThreadOK, ThreadRec, ConnOK, ConnRec,
         UnlinkedIsEmpty, Unlinked, At
  <2>13. NewHasFile(w)'
    BY <1>1, <1>2, <2>1, <2>2, <1>3, <1>4, <1>5, <1>6, <1>7, Idle, Names
     DEF NewHasFile, Sound, Mapped, Added, Exists, At, Saving, SetsOK, ThreadOK,
         ThreadRec, ConnOK, ConnRec, AgainFlagged
  <2>14. WrittenHasFile(w)'
    BY <1>1, <1>2, <2>1, <2>2, <1>3, <1>4, <1>5, <1>6, <1>7, Idle, Names
     DEF WrittenHasFile, Sound, InHand, At, Exists, ThreadOK, ThreadRec, ThreadShape
  <2>15. IdIsOwn(w)'
    BY <1>1, <1>2, <2>1, <2>2, <1>3, <1>4, <1>5, <1>6, <1>7, Idle, Names
     DEF IdIsOwn, Sound, Mapped, Added, ConnOK, ConnRec
  <2>16. Kept(w)'
    BY <1>1, <1>2, <2>1, <2>2, <1>3, <1>4, <1>5, <1>6, <1>7, Idle, Names
     DEF Kept, Sound, InHand, At, ThreadShape, ThreadOK, ThreadRec
  <2>17. ToldIsGone(w)'
    BY <1>1, <1>2, <2>1, <2>2, <1>3, <1>4, <1>5, <1>6, <1>7, Idle, Names
     DEF ToldIsGone, Sound, Exists, Mapped, Saving, At, OrderOK, SetsOK, ThreadOK,
         ThreadRec, UnlinkedIsEmpty, Unlinked
  <2>18. HeldIdIsOwn(w)'
    BY <1>1, <1>2, <2>1, <2>2, <1>3, <1>4, <1>5, <1>6, <1>7, Idle, Names
     DEF HeldIdIsOwn, Sound, Mapped, Added, Exists, At, Saving, SetsOK, ThreadOK,
         ThreadRec, ConnOK, ConnRec, AgainFlagged
  <2> QED
    BY <2>3, <2>4, <2>5, <2>6, <2>7, <2>8, <2>9, <2>10, <2>11, <2>12, <2>13, <2>14,
       <2>15, <2>16, <2>17, <2>18
     DEF Sound
<1> QED
  BY <1>8, <1>9, <1>10 DEF IInv, EachSound

\* The flusher has nothing to write, and nothing in hand yet.
LEMMA FlushNothingKeeps ==
  ASSUME IInv, FlushNothing
  PROVE  IInv'
<1>1. MapOK /\ DiskOK /\ OrderOK /\ QueuesOK /\ SetsOK /\ ThreadOK /\ ConnOK /\
      UsedOK /\ ThreadShape /\ ConnShape /\ OrderShape /\ DeletionFlags /\
      CreationFlags /\ RecordShape /\ SaveShape /\ CleanShape /\ PassShape
  BY DEF IInv, Types, Shapes
<1>2. UNCHANGED <<map, pid, creation, deletion, order, writing, cached, file, ready,
                  future, snapshotVBState, conn, specific, used, told, lapse>>
  BY DEF FlushNothing, At, memory, flags, disk, queues, ghosts
<1>3. /\ thread.pc = "flush" /\ thread'.pc = "ids"
      /\ thread' = [thread EXCEPT !.pc = "ids", !.todo = VBs]
      /\ thread'.task = thread.task /\ thread'.sub = thread.sub /\ thread'.due = thread.due
      /\ thread'.old = thread.old
  BY <1>1 DEF FlushNothing, At, ThreadOK, ThreadRec
<1>4. Types'
  <2>1. ThreadOK'
    BY <1>1, <1>3, ThreadPCs DEF ThreadOK, ThreadRec
  <2> QED
    BY <1>1, <1>2, <2>1
     DEF Types, MapOK, DiskOK, OrderOK, QueuesOK, SetsOK, ConnOK, UsedOK
<1>5. Shapes'
  <2>1. ThreadShape'
    BY <1>1, <1>2, <1>3, Names, Idle
     DEF ThreadShape, Deleting, Snapshotting, Flushing, Renewing, At
  <2>2. DeletionFlags'
    BY <1>1, <1>2, <1>3, Names, Idle
     DEF DeletionFlags, Queued, ThreadShape, Deleting, QueuesOK
  <2>3. CreationFlags'
    BY <1>1, <1>2, <1>3, Names, Idle DEF CreationFlags, Queued, At
  <2>4. SaveShape'
    BY <1>1, <1>2, <1>3, Names, Idle DEF SaveShape, Saving, At
  <2>5. CleanShape'
    BY <1>1, <1>2, <1>3, Names, Idle DEF CleanShape, At
  <2>6. PassShape'
    BY <1>1, <1>2, <1>3, Names, Idle DEF PassShape, ThreadShape
  <2> QED
    BY <1>1, <1>2, <2>1, <2>2, <2>3, <2>4, <2>5, <2>6
     DEF Shapes, ConnShape, OrderShape, RecordShape, Exists, Mapped
<1>6. ASSUME NEW w \in VBs, Faultless(w)'
      PROVE  Sound(w)'
  <2>1. Faultless(w) /\ Sound(w)
    BY <1>2, <1>6 DEF IInv, Faultless, EachSound
  <2>2. HandIsCurrent(w)'
    BY <1>1, <1>2, <1>3, <2>1, Names, Idle
     DEF HandIsCurrent, Sound, InHand, At, Mapped
  <2>3. SubIsCurrent(w)'
    BY <1>1, <1>2, <1>3, <2>1, Names, Idle
     DEF SubIsCurrent, Sound, ThreadShape
  <2>4. LeftIsRestored(w)'
    BY <1>1, <1>2, <1>3, <2>1, Names, Idle
     DEF LeftIsRestored, Sound, Mapped, Exists, Saving, At, Restoring
  <2>5. CacheIsFile(w)'
    BY <1>1, <1>2, <1>3, <2>1, Names, Idle
     DEF CacheIsFile, Sound, Unlinked, At
  <2>6. UnlinkedIsEmpty(w)'
    BY <1>1, <1>2, <1>3, <2>1, Names, Idle
     DEF UnlinkedIsEmpty, Sound, Unlinked, At, Exists
  <2>7. Settled(w)'
    BY <1>1, <1>2, <1>3, <2>1, Names, Idle
     DEF Settled, Sound, Due, SnapshotToCome, ThreadShape, Renewing, Added, Restoring,
         Mapped, Queued, At,
         Same, Saving, Seen
  <2>8. OldIsDeleted(w)'
    BY <1>1, <1>2, <1>3, <2>1, Names, Idle
     DEF OldIsDeleted, Sound, Removing
  <2>9. NewHasFile(w)'
    BY <1>1, <1>2, <1>3, <2>1, Names, Idle
     DEF NewHasFile, Sound, Mapped, Added, Exists, At, Saving
  <2>10. WrittenHasFile(w)'
    BY <1>1, <1>2, <1>3, <2>1, Names, Idle
     DEF WrittenHasFile, Sound, InHand, At, Exists
  <2>11. IdIsOwn(w)'
    BY <1>1, <1>2, <1>3, <2>1, Names, Idle
     DEF IdIsOwn, Sound, Mapped, Added
  <2>12. Kept(w)'
    BY <1>1, <1>2, <1>3, <2>1, Names, Idle
     DEF Kept, Sound, InHand, At
  <2>13. ToldIsGone(w)'
    BY <1>1, <1>2, <1>3, <2>1, Names, Idle
     DEF ToldIsGone, Sound, Exists, Mapped, Saving, At
  <2>14. HeldIdIsOwn(w)'
    BY <1>1, <1>2, <1>3, <2>1, Names, Idle
     DEF HeldIdIsOwn, Sound, Mapped, Added, At, MapOK, VBRec
  <2> QED
    BY <1>2, <2>1, <2>2, <2>3, <2>4, <2>5, <2>6, <2>7, <2>8, <2>9, <2>10, <2>11, <2>12,
       <2>13, <2>14
     DEF Sound, AgainFlagged, AgainUnsaved, RecreateIsRestored, Added, Mapped, Restoring
<1> QED
  BY <1>4, <1>5, <1>6 DEF IInv, EachSound

\* The id that was read is that of the vbucket in the map.
LEMMA ReadIdKeeps ==
  ASSUME IInv, NEW v \in VBs, ReadId(v)
  PROVE  IInv'
<1>1. MapOK /\ DiskOK /\ OrderOK /\ QueuesOK /\ SetsOK /\ ThreadOK /\ ConnOK /\
      UsedOK /\ ThreadShape /\ ConnShape /\ OrderShape /\ DeletionFlags /\
      CreationFlags /\ RecordShape /\ SaveShape /\ CleanShape /\ PassShape
  BY DEF IInv, Types, Shapes
<1>2. UNCHANGED <<map, pid, creation, deletion, order, writing, cached, file, ready,
                  future, snapshotVBState, conn, specific, used, told, lapse>>
  BY DEF ReadId, At, memory, flags, disk, queues, ghosts
<1>3. /\ thread.pc = "ids" /\ thread'.pc \in {"ids", "id"} /\ thread' \in ThreadRec
      /\ thread'.task = thread.task /\ thread'.sub = thread.sub /\ thread'.due = thread.due
      /\ thread'.pc = "id" => thread'.vb = v /\ thread'.pre = map[v].pre
      /\ thread'.old = thread.old
  <2>1. thread.pc = "ids" /\ thread \in ThreadRec /\ map[v].pre \in 0..1
    BY <1>1 DEF ReadId, At, ThreadOK, MapOK, VBRec
  <2>2. CASE thread' = [thread EXCEPT !.todo = @ \ {v}, !.pc = "id", !.vb = v,
                                      !.pre = map[v].pre]
    BY <2>1, <2>2, ThreadPCs DEF ThreadRec, MaybeVB
  <2>3. CASE thread' = [thread EXCEPT !.todo = @ \ {v}]
    BY <2>1, <2>3 DEF ThreadRec
  <2> QED
    BY <2>2, <2>3 DEF ReadId
<1>4. Types'
  BY <1>1, <1>2, <1>3
   DEF Types, MapOK, DiskOK, OrderOK, QueuesOK, SetsOK, ThreadOK, ConnOK, UsedOK
<1>5. Shapes'
  <2>1. ThreadShape'
    BY <1>1, <1>2, <1>3, Names, Idle
     DEF ThreadShape, Deleting, Snapshotting, Flushing, Renewing, At
  <2>2. DeletionFlags'
    BY <1>1, <1>2, <1>3, Names, Idle
     DEF DeletionFlags, Queued, ThreadShape, Deleting, QueuesOK
  <2>3. CreationFlags'
    BY <1>1, <1>2, <1>3, Names, Idle DEF CreationFlags, Queued, At
  <2>4. SaveShape'
    BY <1>1, <1>2, <1>3, Names, Idle DEF SaveShape, Saving, At
  <2>5. CleanShape'
    BY <1>1, <1>2, <1>3, Names, Idle DEF CleanShape, At
  <2>6. PassShape'
    BY <1>1, <1>2, <1>3, Names, Idle DEF PassShape, ThreadShape
  <2> QED
    BY <1>1, <1>2, <2>1, <2>2, <2>3, <2>4, <2>5, <2>6
     DEF Shapes, ConnShape, OrderShape, RecordShape, Exists, Mapped
<1>6. ASSUME NEW w \in VBs, Faultless(w)'
      PROVE  Sound(w)'
  <2>1. Faultless(w) /\ Sound(w)
    BY <1>2, <1>6 DEF IInv, Faultless, EachSound
  <2>2. HandIsCurrent(w)'
    BY <1>1, <1>2, <1>3, <2>1, Names, Idle
     DEF HandIsCurrent, Sound, InHand, At, Mapped
  <2>3. SubIsCurrent(w)'
    BY <1>1, <1>2, <1>3, <2>1, Names, Idle
     DEF SubIsCurrent, Sound, ThreadShape
  <2>4. LeftIsRestored(w)'
    BY <1>1, <1>2, <1>3, <2>1, Names, Idle
     DEF LeftIsRestored, Sound, Mapped, Exists, Saving, At, Restoring
  <2>5. CacheIsFile(w)'
    BY <1>1, <1>2, <1>3, <2>1, Names, Idle
     DEF CacheIsFile, Sound, Unlinked, At
  <2>6. UnlinkedIsEmpty(w)'
    BY <1>1, <1>2, <1>3, <2>1, Names, Idle
     DEF UnlinkedIsEmpty, Sound, Unlinked, At, Exists
  <2>7. Settled(w)'
    BY <1>1, <1>2, <1>3, <2>1, Names, Idle
     DEF Settled, Sound, Due, SnapshotToCome, ThreadShape, Renewing, Added, Restoring,
         Mapped, Queued, At,
         Same, Saving, Seen
  <2>8. OldIsDeleted(w)'
    BY <1>1, <1>2, <1>3, <2>1, Names, Idle
     DEF OldIsDeleted, Sound, Removing
  <2>9. NewHasFile(w)'
    BY <1>1, <1>2, <1>3, <2>1, Names, Idle
     DEF NewHasFile, Sound, Mapped, Added, Exists, At, Saving
  <2>10. WrittenHasFile(w)'
    BY <1>1, <1>2, <1>3, <2>1, Names, Idle
     DEF WrittenHasFile, Sound, InHand, At, Exists
  <2>11. IdIsOwn(w)'
    BY <1>1, <1>2, <1>3, <2>1, Names, Idle
     DEF IdIsOwn, Sound, Mapped, Added
  <2>12. Kept(w)'
    BY <1>1, <1>2, <1>3, <2>1, Names, Idle
     DEF Kept, Sound, InHand, At
  <2>13. ToldIsGone(w)'
    BY <1>1, <1>2, <1>3, <2>1, Names, Idle
     DEF ToldIsGone, Sound, Exists, Mapped, Saving, At
  <2>14. HeldIdIsOwn(w)'
    BY <1>1, <1>2, <1>3, <2>1, Names, Idle
     DEF HeldIdIsOwn, Sound, Mapped, Added, At, MapOK, VBRec
  <2> QED
    BY <1>2, <2>1, <2>2, <2>3, <2>4, <2>5, <2>6, <2>7, <2>8, <2>9, <2>10, <2>11, <2>12,
       <2>13, <2>14
     DEF Sound, AgainFlagged, AgainUnsaved, RecreateIsRestored, Added, Mapped, Restoring
<1> QED
  BY <1>4, <1>5, <1>6 DEF IInv, EachSound

\* The id that is set is this vbucket's, and a snapshot will be due.
LEMMA SetIdKeeps ==
  ASSUME IInv, NEW v \in VBs, SetId(v)
  PROVE  IInv'
<1>1. MapOK /\ DiskOK /\ OrderOK /\ QueuesOK /\ SetsOK /\ ThreadOK /\ ConnOK /\
      UsedOK /\ ThreadShape /\ ConnShape /\ OrderShape /\ DeletionFlags /\
      CreationFlags /\ RecordShape /\ SaveShape /\ CleanShape /\ PassShape
  BY DEF IInv, Types, Shapes
<1>2. UNCHANGED <<map, creation, deletion, order, writing, cached, file, ready,
                  future, snapshotVBState, conn, specific, used, told, lapse>>
  BY DEF SetId, At, memory, flags, disk, queues, ghosts
<1>3. /\ thread.pc = "id" /\ thread.vb = v /\ thread'.pc = "ids" /\ thread' \in ThreadRec
      /\ thread'.task = thread.task /\ thread'.sub = thread.sub /\ thread'.old = thread.old
      /\ pid'[v] = thread.pre /\ pid' \in [VBs -> 0..1]
      /\ \A w \in VBs \ {v} : pid'[w] = pid[w]
      /\ thread.due \/ pid'[v] # pid[v] => thread'.due
  <2>1. /\ thread.pc = "id" /\ thread.vb = v /\ thread \in ThreadRec
        /\ pid' = [pid EXCEPT ![v] = thread.pre] /\ pid \in [VBs -> 0..1]
    BY <1>1 DEF SetId, At, ThreadOK, MapOK
  <2>2. PICK due \in BOOLEAN :
          /\ due = (thread.due \/ pid[v] # thread.pre)
          /\ thread' = [thread EXCEPT !.pc = "ids", !.vb = None, !.pre = 0, !.due = due]
    BY <2>1 DEF SetId, ThreadRec
  <2>3. 0 \in 0..1 /\ None \in MaybeVB /\ thread.pre \in 0..1
    BY <2>1 DEF MaybeVB, ThreadRec
  <2> QED
    BY <2>1, <2>2, <2>3, ThreadPCs DEF ThreadRec
<1>4. Types'
  BY <1>1, <1>2, <1>3
   DEF Types, MapOK, DiskOK, OrderOK, QueuesOK, SetsOK, ThreadOK, ConnOK, UsedOK
<1>5. Shapes'
  <2>1. ThreadShape'
    BY <1>1, <1>2, <1>3, Names, Idle
     DEF ThreadShape, Deleting, Snapshotting, Flushing, Renewing, At
  <2>2. DeletionFlags'
    BY <1>1, <1>2, <1>3, Names, Idle
     DEF DeletionFlags, Queued, ThreadShape, Deleting, QueuesOK
  <2>3. CreationFlags'
    BY <1>1, <1>2, <1>3, Names, Idle DEF CreationFlags, Queued, At
  <2>4. SaveShape'
    BY <1>1, <1>2, <1>3, Names, Idle DEF SaveShape, Saving, At
  <2>5. CleanShape'
    BY <1>1, <1>2, <1>3, Names, Idle DEF CleanShape, At
  <2>6. PassShape'
    BY <1>1, <1>2, <1>3, Names, Idle DEF PassShape, ThreadShape
  <2> QED
    BY <1>1, <1>2, <2>1, <2>2, <2>3, <2>4, <2>5, <2>6
     DEF Shapes, ConnShape, OrderShape, RecordShape, Exists, Mapped
<1>6. ASSUME NEW w \in VBs, Faultless(w)'
      PROVE  Sound(w)'
  <2>1. Faultless(w) /\ Sound(w)
    BY <1>2, <1>6 DEF IInv, Faultless, EachSound
  <2>2. HandIsCurrent(w)'
    BY <1>1, <1>2, <1>3, <2>1, Names, Idle
     DEF HandIsCurrent, Sound, InHand, At, Mapped
  <2>3. SubIsCurrent(w)'
    BY <1>1, <1>2, <1>3, <2>1, Names, Idle
     DEF SubIsCurrent, Sound, ThreadShape
  <2>4. LeftIsRestored(w)'
    BY <1>1, <1>2, <1>3, <2>1, Names, Idle
     DEF LeftIsRestored, Sound, Mapped, Exists, Saving, At, Restoring
  <2>5. CacheIsFile(w)'
    BY <1>1, <1>2, <1>3, <2>1, Names, Idle
     DEF CacheIsFile, Sound, Unlinked, At
  <2>6. UnlinkedIsEmpty(w)'
    BY <1>1, <1>2, <1>3, <2>1, Names, Idle
     DEF UnlinkedIsEmpty, Sound, Unlinked, At, Exists
  <2>7. Settled(w)'
    BY <1>1, <1>2, <1>3, <2>1, Names, Idle
     DEF Settled, Sound, Due, SnapshotToCome, ThreadShape, Renewing, Added, Restoring,
         Mapped, Queued, At,
         Same, Saving, Seen, MapOK
  <2>8. OldIsDeleted(w)'
    BY <1>1, <1>2, <1>3, <2>1, Names, Idle
     DEF OldIsDeleted, Sound, Removing
  <2>9. NewHasFile(w)'
    BY <1>1, <1>2, <1>3, <2>1, Names, Idle
     DEF NewHasFile, Sound, Mapped, Added, Exists, At, Saving
  <2>10. WrittenHasFile(w)'
    BY <1>1, <1>2, <1>3, <2>1, Names, Idle
     DEF WrittenHasFile, Sound, InHand, At, Exists
  <2>11. IdIsOwn(w)'
    BY <1>1, <1>2, <1>3, <2>1, Names, Idle
     DEF IdIsOwn, Sound, Mapped, Added, MapOK, VBRec, HeldIdIsOwn, At
  <2>12. Kept(w)'
    BY <1>1, <1>2, <1>3, <2>1, Names, Idle
     DEF Kept, Sound, InHand, At
  <2>13. ToldIsGone(w)'
    BY <1>1, <1>2, <1>3, <2>1, Names, Idle
     DEF ToldIsGone, Sound, Exists, Mapped, Saving, At
  <2>14. HeldIdIsOwn(w)'
    BY <1>1, <1>2, <1>3, <2>1, Names, Idle
     DEF HeldIdIsOwn, Sound, Mapped, Added, At, MapOK, VBRec
  <2> QED
    BY <1>2, <2>1, <2>2, <2>3, <2>4, <2>5, <2>6, <2>7, <2>8, <2>9, <2>10, <2>11, <2>12,
       <2>13, <2>14
     DEF Sound, AgainFlagged, AgainUnsaved, RecreateIsRestored, Added, Mapped, Restoring
<1> QED
  BY <1>4, <1>5, <1>6 DEF IInv, EachSound

\* A new id makes a snapshot due.
LEMMA EndIdsKeeps ==
  ASSUME IInv, EndIds
  PROVE  IInv'
<1>1. MapOK /\ DiskOK /\ OrderOK /\ QueuesOK /\ SetsOK /\ ThreadOK /\ ConnOK /\
      UsedOK /\ ThreadShape /\ ConnShape /\ OrderShape /\ DeletionFlags /\
      CreationFlags /\ RecordShape /\ SaveShape /\ CleanShape /\ PassShape
  BY DEF IInv, Types, Shapes
<1>2. UNCHANGED <<map, pid, creation, deletion, order, writing, cached, file, ready, conn,
                  specific, used, told, lapse>>
  BY DEF EndIds, At, IdleThread, memory, flags, disk, queues, ghosts
<1>3. /\ thread.pc = "ids" /\ thread' = IdleThread
      /\ future \subseteq future' /\ future' \subseteq future \cup {"flush", "high"}
      /\ \/ snapshotVBState' = snapshotVBState /\ ~thread.due
         \/ snapshotVBState' = FALSE /\ ("high" \in ready \/ "high" \in future')
  BY DEF EndIds, At
<1>4. Types'
  <2>1. MapOK'
    BY <1>1, <1>2, <1>3, Idle, Names
     DEF MapOK, VBRec, QueuesOK, SetsOK, ThreadOK, ThreadRec
  <2>2. QueuesOK'
    BY <1>1, <1>2, <1>3, Idle, Names
     DEF QueuesOK, Tasks, MapOK, VBRec, SetsOK, ThreadOK, ThreadRec
  <2>3. SetsOK'
    BY <1>1, <1>2, <1>3 DEF SetsOK
  <2>4. ThreadOK'
    BY <1>3, Idle DEF ThreadOK
  <2> QED
    BY <1>1, <1>2, <2>1, <2>2, <2>3, <2>4 DEF Types, DiskOK, OrderOK, ConnOK, UsedOK
<1>5. Shapes'
  <2>1. ThreadShape'
    BY <1>1, <1>2, <1>3, Idle, Names
     DEF ThreadShape, Deleting, Snapshotting, Flushing, Renewing, ThreadOK, ThreadRec
  <2>2. DeletionFlags'
    BY <1>1, <1>2, <1>3, Idle, Names
     DEF DeletionFlags, Queued, ThreadShape, Deleting, QueuesOK, ThreadOK, ThreadRec
  <2>3. CreationFlags'
    BY <1>1, <1>2, <1>3, Idle, Names
     DEF CreationFlags, Queued, At, QueuesOK, ThreadOK, ThreadRec
  <2>4. SaveShape'
    BY <1>1, <1>2, <1>3, Idle, Names
     DEF SaveShape, Saving, At, ThreadOK, ThreadRec
  <2>5. CleanShape'
    BY <1>1, <1>2, <1>3, Idle, Names DEF CleanShape, At, ThreadOK, ThreadRec
  <2>6. PassShape'
    BY <1>1, <1>2, <1>3, Idle, Names DEF PassShape, ThreadOK, ThreadRec
  <2> QED
    BY <1>1, <1>2, <2>1, <2>2, <2>3, <2>4, <2>5, <2>6
     DEF Shapes, ConnShape, OrderShape, RecordShape, Exists, Mapped
<1>6. ASSUME NEW w \in VBs, Faultless(w)'
      PROVE  Sound(w)'
  <2>1. Faultless(w) /\ Sound(w)
    BY <1>2, <1>6 DEF IInv, Faultless, EachSound
  <2>2. HandIsCurrent(w)'
    BY <1>1, <1>2, <2>1, <1>3, Idle, Names
     DEF HandIsCurrent, Sound, InHand, At, Mapped, ThreadOK, ThreadRec
  <2>3. SubIsCurrent(w)'
    BY <1>1, <1>2, <2>1, <1>3, Idle, Names
     DEF SubIsCurrent, Sound, ThreadOK, ThreadRec
  <2>4. LeftIsRestored(w)'
    BY <1>1, <1>2, <2>1, <1>3, Idle, Names
     DEF LeftIsRestored, Sound, Mapped, Exists, Saving, At, Restoring, ThreadOK,
         ThreadRec
  <2>5. CacheIsFile(w)'
    BY <1>1, <1>2, <2>1, <1>3, Idle, Names
     DEF CacheIsFile, Sound, Unlinked, At, ThreadOK, ThreadRec
  <2>6. UnlinkedIsEmpty(w)'
    BY <1>1, <1>2, <2>1, <1>3, Idle, Names
     DEF UnlinkedIsEmpty, Sound, Unlinked, At, Exists, ThreadOK, ThreadRec
  <2>7. Settled(w)'
    BY <1>1, <1>2, <2>1, <1>3, Idle, Names
     DEF Settled, Sound, Due, SnapshotToCome, ThreadShape, Renewing, Added, Restoring,
         Mapped, Queued, At,
         Same, Saving, Seen, MapOK, VBRec, QueuesOK, SetsOK, ThreadOK, ThreadRec
  <2>8. OldIsDeleted(w)'
    BY <1>1, <1>2, <2>1, <1>3, Idle, Names
     DEF OldIsDeleted, Sound, Removing, ThreadOK, ThreadRec
  <2>9. NewHasFile(w)'
    BY <1>1, <1>2, <2>1, <1>3, Idle, Names
     DEF NewHasFile, Sound, Mapped, Added, Exists, At, Saving, ThreadOK, ThreadRec
  <2>10. WrittenHasFile(w)'
    BY <1>1, <1>2, <2>1, <1>3, Idle, Names
     DEF WrittenHasFile, Sound, InHand, At, Exists, ThreadOK, ThreadRec
  <2>11. IdIsOwn(w)'
    BY <1>1, <1>2, <2>1, <1>3, Idle, Names
     DEF IdIsOwn, Sound, Mapped, Added, MapOK, VBRec
  <2>12. Kept(w)'
    BY <1>1, <1>2, <2>1, <1>3, Idle, Names
     DEF Kept, Sound, InHand, At, ThreadShape, ThreadOK, ThreadRec
  <2>13. ToldIsGone(w)'
    BY <1>1, <1>2, <2>1, <1>3, Idle, Names
     DEF ToldIsGone, Sound, Exists, Mapped, Saving, At, ThreadOK, ThreadRec
  <2>14. HeldIdIsOwn(w)'
    BY <1>1, <1>2, <2>1, <1>3, Idle, Names
     DEF HeldIdIsOwn, Sound, Mapped, Added, Exists, At, Saving, ThreadOK, ThreadRec
  <2> QED
    BY <1>2, <2>1, <2>2, <2>3, <2>4, <2>5, <2>6, <2>7, <2>8, <2>9, <2>10, <2>11, <2>12,
       <2>13, <2>14
     DEF Sound, AgainFlagged, AgainUnsaved, RecreateIsRestored, Added, Mapped, Restoring
<1> QED
  BY <1>4, <1>5, <1>6 DEF IInv, EachSound

\* Items are taken of vbuckets that have a file.
LEMMA BeginFlushKeeps ==
  ASSUME IInv, BeginFlush
  PROVE  IInv'
<1>1. MapOK /\ DiskOK /\ OrderOK /\ QueuesOK /\ SetsOK /\ ThreadOK /\ ConnOK /\
      UsedOK /\ ThreadShape /\ ConnShape /\ OrderShape /\ DeletionFlags /\
      CreationFlags /\ RecordShape /\ SaveShape /\ CleanShape /\ PassShape
  BY DEF IInv, Types, Shapes
<1>2. UNCHANGED <<pid, creation, deletion, order, cached, file, ready, future,
                  snapshotVBState, conn, specific, used, told>>
  BY DEF BeginFlush, At, TakeFrom, memory, flags, disk, queues, ghosts
<1>3. PICK taken \in SUBSET VBs :
        /\ \A v \in taken : map[v].dirty /\ v \notin creation
        /\ writing' = writing \cup taken
        /\ map' = [v \in VBs |-> IF v \in taken THEN [map[v] EXCEPT !.dirty = FALSE] ELSE map[v]]
        /\ thread' = [thread EXCEPT !.pc = "pass", !.todo = writing']
        /\ Lapse({v \in taken : \E c \in Conns : conn[c].pc = "added" /\ conn[c].vb = v}, "early")
  <2> DEFINE taken == IF writing = {} THEN TakeFrom ELSE {}
  <2>1. taken \in SUBSET VBs /\ \A v \in taken : map[v].dirty /\ v \notin creation
    BY DEF TakeFrom
  <2> QED
    BY <2>1, Zenon DEF BeginFlush
<1>4. /\ thread.pc = "flush" /\ thread'.pc = "pass" /\ thread'.task = thread.task
      /\ thread'.vb = thread.vb /\ thread'.todo = writing' /\ thread'.sub = Nothing
      /\ thread.sub = Nothing /\ thread'.due = thread.due /\ thread'.old = thread.old
  BY <1>1, <1>3 DEF BeginFlush, At, ThreadOK, ThreadRec, ThreadShape
<1>5. \A v \in VBs :
        /\ map'[v].state = map[v].state /\ map'[v].value = map[v].value
        /\ map'[v].pre = map[v].pre
        /\ v \in taken => ~map'[v].dirty
        /\ v \notin taken => map'[v] = map[v]
  BY <1>1, <1>3 DEF MapOK, VBRec
<1>6. Types'
  <2>1. MapOK'
    <3>1. ASSUME NEW v \in VBs PROVE [map[v] EXCEPT !.dirty = FALSE] \in VBRec
      BY <1>1 DEF MapOK, VBRec
    <3> QED
      BY <1>1, <1>2, <1>3, <3>1 DEF MapOK
  <2>2. SetsOK'
    BY <1>1, <1>2, <1>3, <1>4, <1>5, Idle, Names
     DEF SetsOK, MapOK, VBRec, ThreadOK, ThreadRec
  <2>3. ThreadOK'
    <3>1. writing' \in SUBSET VBs
      BY <1>1, <1>3 DEF SetsOK
    <3> QED
      BY <1>1, <1>3, <3>1, ThreadPCs DEF ThreadOK, ThreadRec
  <2> QED
    BY <1>1, <1>2, <2>1, <2>2, <2>3 DEF Types, DiskOK, OrderOK, QueuesOK, ConnOK, UsedOK
<1>7. Shapes'
  <2>1. ThreadShape'
    BY <1>1, <1>2, <1>3, <1>4, <1>5, Idle, Names
     DEF ThreadShape, Deleting, Snapshotting, Flushing, Renewing, ThreadOK, ThreadRec
  <2>2. DeletionFlags'
    BY <1>1, <1>2, <1>3, <1>4, <1>5, Idle, Names
     DEF DeletionFlags, Queued, ThreadShape, Deleting, ThreadOK, ThreadRec
  <2>3. CreationFlags'
    BY <1>1, <1>2, <1>3, <1>4, <1>5, Idle, Names
     DEF CreationFlags, Queued, At, ThreadOK, ThreadRec
  <2>4. RecordShape'
    <3>1. ASSUME NEW v \in VBs
          PROVE  /\ ~Mapped(v)' => map'[v] = NoVB
                 /\ map'[v].dirty => map'[v].value # 0
      BY <1>1, <1>3, <1>5 DEF RecordShape, Mapped, NoVB
    <3> QED
      BY <1>1, <1>2, <3>1 DEF RecordShape, Exists
  <2>5. SaveShape'
    BY <1>1, <1>2, <1>3, <1>4, <1>5, Idle, Names
     DEF SaveShape, Saving, At, ThreadOK, ThreadRec
  <2>6. CleanShape'
    BY <1>1, <1>2, <1>3, <1>4, <1>5, Idle, Names
     DEF CleanShape, At, SetsOK, ThreadOK, ThreadRec
  <2>7. PassShape'
    BY <1>1, <1>2, <1>3, <1>4, <1>5, Idle, Names
     DEF PassShape, SetsOK, ThreadOK, ThreadRec
  <2> QED
    BY <1>1, <1>2, <2>1, <2>2, <2>3, <2>4, <2>5, <2>6, <2>7
     DEF Shapes, ConnShape, OrderShape
<1>8. ASSUME NEW w \in VBs, Faultless(w)'
      PROVE  Sound(w)'
  <2>1. Faultless(w) /\ Sound(w)
    BY <1>1, <1>2, <1>8
     DEF IInv, Faultless, EachSound, BeginFlush, At, TakeFrom, Lapse, UsedOK, UsedRec
  <2>2. ~(w \in taken /\ Added(w)) /\ (Mapped(w)' <=> Mapped(w))
        /\ (w \in taken => Mapped(w))
    <3>1. ~(w \in taken /\ Added(w))
      BY <1>8, <1>3 DEF Lapse, Faultless, Added
    <3> QED
      BY <1>1, <1>3, <1>5, <3>1 DEF Mapped, RecordShape, NoVB
  <2>3. AgainFlagged(w)'
    BY <1>1, <1>2, <2>1, <2>2, <1>3, <1>4, <1>5, Idle, Names
     DEF AgainFlagged, Sound, Mapped, Added, MapOK, VBRec
  <2>4. AgainUnsaved(w)'
    BY <1>1, <1>2, <2>1, <2>2, <1>3, <1>4, <1>5, Idle, Names
     DEF AgainUnsaved, Sound, Mapped, MapOK, VBRec, AgainFlagged
  <2>5. HandIsCurrent(w)'
    BY <1>1, <1>2, <2>1, <2>2, <1>3, <1>4, <1>5, Idle, Names
     DEF HandIsCurrent, Sound, InHand, At, Mapped, MapOK, VBRec, ThreadOK, ThreadRec
  <2>6. SubIsCurrent(w)'
    BY <1>1, <1>2, <2>1, <2>2, <1>3, <1>4, <1>5, Idle, Names
     DEF SubIsCurrent, Sound, MapOK, VBRec, ThreadOK, ThreadRec
  <2>7. LeftIsRestored(w)'
    BY <1>1, <1>2, <2>1, <2>2, <1>3, <1>4, <1>5, Idle, Names
     DEF LeftIsRestored, Sound, Mapped, Exists, Saving, At, Restoring, MapOK, VBRec,
         ThreadOK, ThreadRec
  <2>8. RecreateIsRestored(w)'
    BY <1>1, <1>2, <2>1, <2>2, <1>3, <1>4, <1>5, Idle, Names
     DEF RecreateIsRestored, Sound, Mapped, Restoring, MapOK, VBRec
  <2>9. CacheIsFile(w)'
    BY <1>1, <1>2, <2>1, <2>2, <1>3, <1>4, <1>5, Idle, Names
     DEF CacheIsFile, Sound, Unlinked, At, ThreadOK, ThreadRec
  <2>10. UnlinkedIsEmpty(w)'
    BY <1>1, <1>2, <2>1, <2>2, <1>3, <1>4, <1>5, Idle, Names
     DEF UnlinkedIsEmpty, Sound, Unlinked, At, Exists, ThreadOK, ThreadRec
  <2>11. Settled(w)'
    BY <1>1, <1>2, <2>1, <2>2, <1>3, <1>4, <1>5, Idle, Names
     DEF Settled, Sound, Due, SnapshotToCome, ThreadShape, Renewing, Added, Restoring,
         Mapped, Queued, At,
         Same, Saving, Seen, MapOK, VBRec, ThreadOK, ThreadRec
  <2>12. OldIsDeleted(w)'
    BY <1>1, <1>2, <2>1, <2>2, <1>3, <1>4, <1>5, Idle, Names
     DEF OldIsDeleted, Sound, Removing, MapOK, VBRec, ThreadOK, ThreadRec
  <2>13. NewHasFile(w)'
    BY <1>1, <1>2, <2>1, <2>2, <1>3, <1>4, <1>5, Idle, Names
     DEF NewHasFile, Sound, Mapped, Added, Exists, At, Saving, MapOK, VBRec, ThreadOK,
         ThreadRec
  <2>14. WrittenHasFile(w)'
    BY <1>1, <1>2, <2>1, <2>2, <1>3, <1>4, <1>5, Idle, Names
     DEF WrittenHasFile, Sound, InHand, At, Exists, SetsOK, ThreadOK, ThreadRec,
         NewHasFile, AgainFlagged, RecordShape, Mapped, Saving, NoVB
  <2>15. IdIsOwn(w)'
    BY <1>1, <1>2, <2>1, <2>2, <1>3, <1>4, <1>5, Idle, Names
     DEF IdIsOwn, Sound, Mapped, Added, MapOK, VBRec
  <2>16. Kept(w)'
    BY <1>1, <1>2, <2>1, <2>2, <1>3, <1>4, <1>5, Idle, Names
     DEF Kept, Sound, InHand, At, ThreadShape, MapOK, VBRec, SetsOK, ThreadOK, ThreadRec
  <2>17. ToldIsGone(w)'
    BY <1>1, <1>2, <2>1, <2>2, <1>3, <1>4, <1>5, Idle, Names
     DEF ToldIsGone, Sound, Exists, Mapped, Saving, At, MapOK, VBRec, ThreadOK,
         ThreadRec
  <2>18. HeldIdIsOwn(w)'
    BY <1>1, <1>2, <2>1, <2>2, <1>3, <1>4, <1>5, Idle, Names
     DEF HeldIdIsOwn, Sound, Mapped, Added, Exists, At, Saving, MapOK, VBRec, ThreadOK,
         ThreadRec
  <2> QED
    BY <2>3, <2>4, <2>5, <2>6, <2>7, <2>8, <2>9, <2>10, <2>11, <2>12, <2>13, <2>14,
       <2>15, <2>16, <2>17, <2>18
     DEF Sound
<1> QED
  BY <1>6, <1>7, <1>8 DEF IInv, EachSound

\* An item of a vbucket that is gone is dropped, and is no more a value of it.
LEMMA FlushVBQueueKeeps ==
  ASSUME IInv, NEW v \in VBs, FlushVBQueue(v)
  PROVE  IInv'
<1>1. MapOK /\ DiskOK /\ OrderOK /\ QueuesOK /\ SetsOK /\ ThreadOK /\ ConnOK /\
      UsedOK /\ ThreadShape /\ ConnShape /\ OrderShape /\ DeletionFlags /\
      CreationFlags /\ RecordShape /\ SaveShape /\ CleanShape /\ PassShape
  BY DEF IInv, Types, Shapes
<1>2. UNCHANGED <<map, pid, creation, deletion, order, cached, file, ready, future,
                  snapshotVBState, conn, specific, used, told, lapse>>
  BY DEF FlushVBQueue, At, Mapped, memory, flags, disk, queues, ghosts
<1>3. thread.pc = "pass" /\ v \in thread.todo
  BY DEF FlushVBQueue, At
<1>4. /\ thread' \in ThreadRec /\ thread'.task = thread.task /\ thread'.sub = thread.sub
      /\ thread'.todo = thread.todo \ {v} /\ thread'.due = thread.due /\ thread'.old = thread.old
      /\ \/ thread'.pc = "pass" /\ thread'.vb = thread.vb
         \/ /\ thread'.pc = "item" /\ thread'.vb = v /\ Mapped(v)
            /\ thread'.val = map[v].value
  <2>1. CASE v \notin creation /\ Mapped(v)
    <3>1. PICK n \in Values : n = map[v].value
      BY <1>1 DEF MapOK, VBRec
    <3>2. thread' = [thread EXCEPT !.todo = @ \ {v}, !.pc = "item", !.vb = v, !.val = n]
      BY <2>1, <3>1 DEF FlushVBQueue
    <3>3. v \in MaybeVB
      BY DEF MaybeVB
    <3> QED
      BY <1>1, <2>1, <3>1, <3>2, <3>3, ThreadPCs DEF ThreadOK, ThreadRec
  <2>2. CASE v \in creation \/ ~Mapped(v)
    BY <1>1, <1>3, <2>2 DEF FlushVBQueue, ThreadOK, ThreadRec
  <2> QED
    BY <2>1, <2>2
<1>5. /\ v \in writing
      /\ \/ writing' = writing \ {v} /\ (thread'.pc = "item" \/ ~Mapped(v))
         \/ writing' = writing
  BY <1>1, <1>3, <1>4 DEF FlushVBQueue, PassShape, ThreadOK, ThreadRec
<1>6. Types'
  <2>1. SetsOK'
    BY <1>1, <1>2, <1>5 DEF SetsOK
  <2>2. ThreadOK'
    BY <1>4 DEF ThreadOK
  <2> QED
    BY <1>1, <1>2, <2>1, <2>2
     DEF Types, MapOK, DiskOK, OrderOK, QueuesOK, ConnOK, UsedOK
<1>7. Shapes'
  <2>1. ThreadShape'
    BY <1>1, <1>2, <1>3, <1>4, <1>5, Names
     DEF ThreadShape, Deleting, Snapshotting, Flushing, Renewing, ThreadOK, ThreadRec
  <2>2. DeletionFlags'
    BY <1>1, <1>2, <1>3, <1>4, <1>5, Names
     DEF DeletionFlags, Queued, ThreadShape, Deleting, ThreadOK, ThreadRec
  <2>3. CreationFlags'
    BY <1>1, <1>2, <1>3, <1>4, <1>5, Names
     DEF CreationFlags, Queued, At, ThreadOK, ThreadRec
  <2>4. SaveShape'
    BY <1>1, <1>2, <1>3, <1>4, <1>5, Names
     DEF SaveShape, Saving, At, ThreadOK, ThreadRec
  <2>5. CleanShape'
    BY <1>1, <1>2, <1>3, <1>4, <1>5, Names
     DEF CleanShape, At, SetsOK, ThreadOK, ThreadRec
  <2>6. PassShape'
    BY <1>1, <1>2, <1>3, <1>4, <1>5, Names DEF PassShape, SetsOK, ThreadOK, ThreadRec
  <2> QED
    BY <1>1, <1>2, <2>1, <2>2, <2>3, <2>4, <2>5, <2>6
     DEF Shapes, ConnShape, OrderShape, RecordShape, Exists, Mapped
<1>8. ASSUME NEW w \in VBs, Faultless(w)'
      PROVE  Sound(w)'
  <2>1. Faultless(w) /\ Sound(w)
    BY <1>2, <1>8 DEF IInv, Faultless, EachSound
  <2>2. HandIsCurrent(w)'
    BY <1>1, <1>2, <2>1, <1>3, <1>4, <1>5, Names
     DEF HandIsCurrent, ThreadShape, Sound, InHand, At, Mapped, ThreadOK, ThreadRec,
         MapOK, VBRec
  <2>3. SubIsCurrent(w)'
    BY <1>1, <1>2, <2>1, <1>3, <1>4, <1>5, Names
     DEF SubIsCurrent, Sound, ThreadOK, ThreadRec
  <2>4. LeftIsRestored(w)'
    BY <1>1, <1>2, <2>1, <1>3, <1>4, <1>5, Names
     DEF LeftIsRestored, Sound, Mapped, Exists, Saving, At, Restoring, ThreadOK,
         ThreadRec
  <2>5. CacheIsFile(w)'
    BY <1>1, <1>2, <2>1, <1>3, <1>4, <1>5, Names
     DEF CacheIsFile, Sound, Unlinked, At, ThreadOK, ThreadRec
  <2>6. UnlinkedIsEmpty(w)'
    BY <1>1, <1>2, <2>1, <1>3, <1>4, <1>5, Names
     DEF UnlinkedIsEmpty, Sound, Unlinked, At, Exists, ThreadOK, ThreadRec
  <2>7. Settled(w)'
    BY <1>1, <1>2, <2>1, <1>3, <1>4, <1>5, Names
     DEF Settled, Sound, Due, SnapshotToCome, ThreadShape, Renewing, Added, Restoring,
         Mapped, Queued, At,
         Same, Saving, Seen, ThreadOK, ThreadRec
  <2>8. OldIsDeleted(w)'
    BY <1>1, <1>2, <2>1, <1>3, <1>4, <1>5, Names
     DEF OldIsDeleted, Sound, Removing, ThreadOK, ThreadRec
  <2>9. NewHasFile(w)'
    BY <1>1, <1>2, <2>1, <1>3, <1>4, <1>5, Names
     DEF NewHasFile, Sound, Mapped, Added, Exists, At, Saving, ThreadOK, ThreadRec
  <2>10. WrittenHasFile(w)'
    BY <1>1, <1>2, <2>1, <1>3, <1>4, <1>5, Names
     DEF WrittenHasFile, Sound, InHand, At, Exists, SetsOK, ThreadOK, ThreadRec
  <2>11. Kept(w)'
    BY <1>1, <1>2, <2>1, <1>3, <1>4, <1>5, Names
     DEF Kept, Sound, InHand, At, ThreadShape, SetsOK, ThreadOK, ThreadRec, RecordShape,
         NoVB, Mapped
  <2>12. ToldIsGone(w)'
    BY <1>1, <1>2, <2>1, <1>3, <1>4, <1>5, Names
     DEF ToldIsGone, Sound, Exists, Mapped, Saving, At, ThreadOK, ThreadRec
  <2>13. HeldIdIsOwn(w)'
    BY <1>1, <1>2, <2>1, <1>3, <1>4, <1>5, Names
     DEF HeldIdIsOwn, Sound, Mapped, Added, Exists, At, Saving, ThreadOK, ThreadRec
  <2> QED
    BY <1>2, <2>1, <2>2, <2>3, <2>4, <2>5, <2>6, <2>7, <2>8, <2>9, <2>10, <2>11, <2>12,
    <2>13
     DEF Sound, AgainFlagged, AgainUnsaved, RecreateIsRestored, IdIsOwn, Added, Mapped,
         Restoring
<1> QED
  BY <1>6, <1>7, <1>8 DEF IInv, EachSound
-----------------------------------------------------------------------------
(***************************************************************************)
(* The connections.                                                        *)
(***************************************************************************)
\* A connection that is at nothing.
LEMMA IdleConns ==
  /\ IdleConn \in ConnRec /\ NoOrder \in Orders
  /\ IdleConn.pc = "idle" /\ IdleConn.vb = None /\ IdleConn.order = NoOrder
  /\ ~NoOrder.recreate /\ NoOrder.cookie = None
<1>1. NoOrder \in Orders /\ ~NoOrder.recreate /\ NoOrder.cookie = None
  BY DEF NoOrder, Orders
<1>2. None \in MaybeVB /\ "none" \in VBState /\ "idle" \in ConnPC
  BY DEF MaybeVB, VBState, ConnPC
<1> QED
  BY <1>1, <1>2 DEF IdleConn, ConnRec

\* A new vbucket is empty, and added until its creation is flagged.
LEMMA SetStateKeeps ==
  ASSUME IInv, NEW c \in Conns, NEW v \in VBs, NEW to \in States, SetState(c, v, to),
         conn[c].pc = "idle" \/ (conn[c].pc = "reset" /\ conn[c].vb = v), UsedOK'
  PROVE  IInv'
<1>1. MapOK /\ DiskOK /\ OrderOK /\ QueuesOK /\ SetsOK /\ ThreadOK /\ ConnOK /\
      UsedOK /\ ThreadShape /\ ConnShape /\ OrderShape /\ DeletionFlags /\
      CreationFlags /\ RecordShape /\ SaveShape /\ CleanShape /\ PassShape
  BY DEF IInv, Types, Shapes
<1>2. UNCHANGED <<pid, creation, deletion, order, writing, cached, file, ready, future,
                  thread, snapshotVBState, specific, lapse>>
  BY DEF SetState, Mapped, memory, flags, disk, queues, ghosts
<1>3. PICK k \in ConnRec :
        /\ conn' = [conn EXCEPT ![c] = k] /\ k.order = NoOrder
        /\ conn'[c] = k /\ \A x \in Conns \ {c} : conn'[x] = conn[x]
        /\ \/ Mapped(v) /\ (k.pc = "changed" \/ (k.pc = "idle" /\ map[v].state = to))
           \/ ~Mapped(v) /\ k.pc = "added" /\ k.vb = v
  <2>1. v \in MaybeVB /\ "changed" \in ConnPC /\ "added" \in ConnPC
    BY DEF MaybeVB, ConnPC
  <2>2. /\ [IdleConn EXCEPT !.pc = "changed"] \in ConnRec
        /\ [IdleConn EXCEPT !.pc = "added", !.vb = v] \in ConnRec
    BY <2>1, IdleConns DEF ConnRec
  <2> QED
    BY <1>1, <2>2, IdleConns DEF SetState, ConnOK, ConnRec
<1>4. /\ map' = [map EXCEPT ![v] = [map[v] EXCEPT !.state = to]]
      /\ [map[v] EXCEPT !.state = to] \in VBRec
  BY <1>1, Names DEF SetState, RecordShape, MapOK, VBRec
<1>5. /\ \A x \in VBs \ {v} : map'[x] = map[x]
      /\ map'[v].state = to /\ Mapped(v)' /\ map'[v].value = map[v].value
      /\ map'[v].dirty = map[v].dirty /\ map'[v].pre = map[v].pre
      /\ ~Mapped(v) => map[v].value = 0 /\ ~map[v].dirty /\ map[v].pre = 0
      /\ told' = IF Mapped(v) THEN told ELSE told \ {v}
      /\ Mapped(v) /\ map[v].state = to => map' = map
  BY <1>1, <1>4, Names DEF SetState, RecordShape, MapOK, VBRec, NoVB, Mapped
<1>6. Types'
  <2>1. MapOK'
    BY <1>1, <1>2, <1>4 DEF MapOK
  <2>2. SetsOK'
    BY <1>1, <1>2, <1>3, <1>4, <1>5, Names
     DEF SetsOK, MapOK, VBRec, ConnOK, ConnRec, UsedOK, UsedRec
  <2>3. ConnOK'
    BY <1>1, <1>3 DEF ConnOK
  <2>4. UsedOK'
    OBVIOUS
  <2> QED
    BY <1>1, <1>2, <2>1, <2>2, <2>3, <2>4 DEF Types, DiskOK, OrderOK, QueuesOK, ThreadOK
<1>7. Shapes'
  <2>1. ConnShape'
    BY <1>1, <1>2, <1>3, <1>4, <1>5, Names, IdleConns DEF ConnShape, ConnOK, ConnRec
  <2>2. OrderShape'
    BY <1>1, <1>2, <1>3, <1>4, <1>5, Names DEF OrderShape, ConnOK, ConnRec
  <2>3. CreationFlags'
    BY <1>1, <1>2, <1>3, <1>4, <1>5, Names
     DEF CreationFlags, Queued, At, ConnOK, ConnRec
  <2>4. RecordShape'
    BY <1>1, <1>2, <1>3, <1>4, <1>5, Names
     DEF RecordShape, Mapped, Exists, MapOK, VBRec, NoVB
  <2> QED
    BY <1>1, <1>2, <2>1, <2>2, <2>3, <2>4
     DEF Shapes, ThreadShape, DeletionFlags, SaveShape, CleanShape, PassShape, At,
         Deleting, Flushing, Renewing, Queued, Saving, Snapshotting
<1>8. ASSUME NEW w \in VBs, Faultless(w)'
      PROVE  Sound(w)'
  <2>1. Faultless(w) /\ Sound(w)
    BY <1>2, <1>8 DEF IInv, Faultless, EachSound
  <2>2. /\ Added(w) => Added(w)'
        /\ w = v /\ ~Mapped(v) => Added(w)'
        /\ Removing(w)' <=> Removing(w)
        /\ Restoring(w) => w = v \/ Restoring(w)'
        /\ Added(w)' => Added(w) \/ w = v
    BY <1>3 DEF Added, Removing, Restoring
  <2>3. w # v => (Mapped(w)' <=> Mapped(w))
    BY <1>5 DEF Mapped
  <2>4. AgainFlagged(w)'
    BY <1>1, <1>2, <2>1, <2>2, <2>3, <1>3, <1>4, <1>5, Names
     DEF AgainFlagged, Sound, Mapped, Added, MapOK, VBRec, ConnOK, ConnRec
  <2>5. AgainUnsaved(w)'
    BY <1>1, <1>2, <2>1, <2>2, <2>3, <1>3, <1>4, <1>5, Names
     DEF AgainUnsaved, Sound, Mapped, MapOK, VBRec
  <2>6. HandIsCurrent(w)'
    BY <1>1, <1>2, <2>1, <2>2, <2>3, <1>3, <1>4, <1>5, Names
     DEF HandIsCurrent, Sound, InHand, At, Mapped, MapOK, VBRec
  <2>7. SubIsCurrent(w)'
    BY <1>1, <1>2, <2>1, <2>2, <2>3, <1>3, <1>4, <1>5, Names
     DEF SubIsCurrent, Sound, MapOK, VBRec
  <2>8. LeftIsRestored(w)'
    BY <1>1, <1>2, <2>1, <2>2, <2>3, <1>3, <1>4, <1>5, Names
     DEF LeftIsRestored, Sound, Mapped, Exists, Saving, At, Restoring, MapOK, VBRec,
         ConnOK, ConnRec
  <2>9. RecreateIsRestored(w)'
    BY <1>1, <1>2, <2>1, <2>2, <2>3, <1>3, <1>4, <1>5, Names
     DEF RecreateIsRestored, Sound, Mapped, Restoring, MapOK, VBRec, ConnOK, ConnRec
  <2>10. Settled(w)'
    BY <1>1, <1>2, <2>1, <2>2, <2>3, <1>3, <1>4, <1>5, Names
     DEF Settled, Sound, Due, SnapshotToCome, ThreadShape, Renewing, Added, Restoring,
         Mapped, Queued, At,
         Same, Saving, Seen, MapOK, VBRec, ConnOK, ConnRec
  <2>11. OldIsDeleted(w)'
    BY <1>1, <1>2, <2>1, <2>2, <2>3, <1>3, <1>4, <1>5, Names
     DEF OldIsDeleted, Sound, Removing, MapOK, VBRec, ConnOK, ConnRec
  <2>12. NewHasFile(w)'
    BY <1>1, <1>2, <2>1, <2>2, <2>3, <1>3, <1>4, <1>5, Names
     DEF NewHasFile, Sound, Mapped, Added, Exists, At, Saving, MapOK, VBRec, ConnOK,
         ConnRec
  <2>13. IdIsOwn(w)'
    BY <1>1, <1>2, <2>1, <2>2, <2>3, <1>3, <1>4, <1>5, Names
     DEF IdIsOwn, Sound, Mapped, Added, MapOK, VBRec, ConnOK, ConnRec
  <2>14. Kept(w)'
    BY <1>1, <1>2, <2>1, <2>2, <2>3, <1>3, <1>4, <1>5, Names
     DEF Kept, Sound, InHand, At, ThreadShape, MapOK, VBRec
  <2>15. ToldIsGone(w)'
    BY <1>1, <1>2, <2>1, <2>2, <2>3, <1>3, <1>4, <1>5, Names
     DEF ToldIsGone, Sound, Exists, Mapped, Saving, At, MapOK, VBRec, SetsOK
  <2>16. HeldIdIsOwn(w)'
    BY <1>1, <1>2, <2>1, <2>2, <2>3, <1>3, <1>4, <1>5, Names
     DEF HeldIdIsOwn, Sound, Mapped, Added, Exists, At, Saving, MapOK, VBRec, ConnOK,
         ConnRec
  <2> QED
    BY <1>2, <2>1, <2>4, <2>5, <2>6, <2>7, <2>8, <2>9, <2>10, <2>11, <2>12, <2>13, <2>14,
       <2>15, <2>16
     DEF Sound, CacheIsFile, UnlinkedIsEmpty, WrittenHasFile, At, Exists, InHand,
         Unlinked
<1> QED
  BY <1>6, <1>7, <1>8 DEF IInv, EachSound

\* The flag and the checkpoint id are those of the new vbucket.
LEMMA InitVBucketKeeps ==
  ASSUME IInv, NEW c \in Conns, InitVBucket(c)
  PROVE  IInv'
<1>1. MapOK /\ DiskOK /\ OrderOK /\ QueuesOK /\ SetsOK /\ ThreadOK /\ ConnOK /\
      UsedOK /\ ThreadShape /\ ConnShape /\ OrderShape /\ DeletionFlags /\
      CreationFlags /\ RecordShape /\ SaveShape /\ CleanShape /\ PassShape
  BY DEF IInv, Types, Shapes
<1>2. UNCHANGED <<map, deletion, order, writing, cached, file, ready, future, thread,
                  snapshotVBState, specific, used, told>>
  BY DEF InitVBucket, Lapse, memory, flags, disk, queues, ghosts
<1>3. PICK k \in ConnRec :
        /\ conn' = [conn EXCEPT ![c] = k] /\ k.order = NoOrder /\ k.pc = "created"
        /\ conn'[c] = k /\ \A x \in Conns \ {c} : conn'[x] = conn[x]
        /\ conn[c].pc = "added"
  <2>1. [IdleConn EXCEPT !.pc = "created"] \in ConnRec
    BY IdleConns DEF ConnRec, ConnPC
  <2> QED
    BY <1>1, <2>1, IdleConns DEF InitVBucket, ConnOK, ConnRec
<1>4. PICK v \in VBs : /\ v = conn[c].vb /\ pid' = [pid EXCEPT ![v] = 0]
                       /\ creation' = creation \cup {v}
  BY <1>1, <1>3 DEF InitVBucket, ResetPid, FlagCreation, ConnShape
<1>5. pid'[v] = 0 /\ \A x \in VBs \ {v} : pid'[x] = pid[x]
  BY <1>1, <1>4 DEF MapOK
<1>6. Types'
  <2>1. MapOK'
    BY <1>1, <1>2, <1>4 DEF MapOK
  <2>2. SetsOK'
    BY <1>1, <1>2, <1>4 DEF SetsOK
  <2>3. ConnOK'
    BY <1>1, <1>3 DEF ConnOK
  <2> QED
    BY <1>1, <1>2, <2>1, <2>2, <2>3
     DEF Types, DiskOK, OrderOK, QueuesOK, ThreadOK, UsedOK
<1>7. Shapes'
  <2>1. ConnShape'
    BY <1>1, <1>2, <1>3, <1>4, <1>5, Names, IdleConns DEF ConnShape, ConnOK, ConnRec
  <2>2. OrderShape'
    BY <1>1, <1>2, <1>3, <1>4, <1>5, Names DEF OrderShape, ConnOK, ConnRec
  <2>3. CreationFlags'
    BY <1>1, <1>2, <1>3, <1>4, <1>5, Names
     DEF CreationFlags, Queued, At, SetsOK, ConnOK, ConnRec
  <2> QED
    BY <1>1, <1>2, <2>1, <2>2, <2>3
     DEF Shapes, ThreadShape, DeletionFlags, RecordShape, SaveShape, CleanShape,
         PassShape, At, Deleting, Exists, Flushing, Renewing, Mapped, Queued, Saving,
         Snapshotting
<1>8. ASSUME NEW w \in VBs, Faultless(w)'
      PROVE  Sound(w)'
  <2>1. Faultless(w) /\ Sound(w)
    BY <1>8 DEF IInv, Faultless, EachSound, InitVBucket, Lapse
  <2>2. /\ Added(w) => w = v \/ Added(w)'
        /\ Added(w)' => Added(w)
        /\ Removing(w)' <=> Removing(w)
        /\ Restoring(w)' <=> Restoring(w)
        /\ SnapshotToCome'
    BY <1>3, <1>4 DEF Added, Removing, Restoring, SnapshotToCome
  <2>3. AgainFlagged(w)'
    BY <1>1, <1>2, <2>1, <2>2, <1>3, <1>4, <1>5, Names
     DEF AgainFlagged, Sound, Mapped, Added, SetsOK, ConnOK, ConnRec
  <2>4. LeftIsRestored(w)'
    BY <1>1, <1>2, <2>1, <2>2, <1>3, <1>4, <1>5, Names
     DEF LeftIsRestored, Sound, Mapped, Exists, Saving, At, Restoring, ConnOK, ConnRec
  <2>5. RecreateIsRestored(w)'
    BY <1>1, <1>2, <2>1, <2>2, <1>3, <1>4, <1>5, Names
     DEF RecreateIsRestored, Sound, Mapped, Restoring, ConnOK, ConnRec
  <2>6. Settled(w)'
    BY <1>1, <1>2, <2>1, <2>2, <1>3, <1>4, <1>5, Names
     DEF Settled, Sound, Due, SnapshotToCome, ThreadShape, Renewing, Added, Restoring,
         Mapped, Queued, At,
         Same, Saving, Seen, MapOK, VBRec, ConnOK, ConnRec
  <2>7. OldIsDeleted(w)'
    BY <1>1, <1>2, <2>1, <2>2, <1>3, <1>4, <1>5, Names
     DEF OldIsDeleted, Sound, Removing, ConnOK, ConnRec
  <2>8. NewHasFile(w)'
    BY <1>1, <1>2, <2>1, <2>2, <1>3, <1>4, <1>5, Names
     DEF NewHasFile, Sound, Mapped, Added, Exists, At, Saving, SetsOK, ConnOK, ConnRec
  <2>9. IdIsOwn(w)'
    BY <1>1, <1>2, <2>1, <2>2, <1>3, <1>4, <1>5, Names
     DEF IdIsOwn, Sound, Mapped, Added, MapOK, VBRec, ConnOK, ConnRec
  <2>10. HeldIdIsOwn(w)'
    <3>1. CASE w = v
      <4>1. ~StaleId(v)
        BY <1>4, <1>8, <3>1 DEF InitVBucket, Lapse, Faultless
      <4>2. thread.pre \in 0..1 /\ map[v].pre \in 0..1
        BY <1>1 DEF ThreadOK, ThreadRec, MapOK, VBRec
      <4> QED
        BY <1>2, <3>1, <4>1, <4>2 DEF HeldIdIsOwn, StaleId, At
    <3>2. CASE w # v
      BY <1>2, <2>1, <2>2, <3>2 DEF HeldIdIsOwn, Sound, Mapped, At
    <3> QED
      BY <3>1, <3>2
  <2> QED
    BY <1>2, <2>1, <2>3, <2>4, <2>5, <2>6, <2>7, <2>8, <2>9, <2>10
     DEF Sound, AgainUnsaved, HandIsCurrent, SubIsCurrent, CacheIsFile, UnlinkedIsEmpty,
         WrittenHasFile, Kept, ToldIsGone, At, Exists, InHand, Mapped, Saving,
         ThreadShape, Unlinked
<1> QED
  BY <1>6, <1>7, <1>8 DEF IInv, EachSound

\* The snapshot that is scheduled clears the flag of the vbucket created.
LEMMA ScheduleSnapshotKeeps ==
  ASSUME IInv, NEW c \in Conns, ScheduleSnapshot(c)
  PROVE  IInv'
<1>1. MapOK /\ DiskOK /\ OrderOK /\ QueuesOK /\ SetsOK /\ ThreadOK /\ ConnOK /\
      UsedOK /\ ThreadShape /\ ConnShape /\ OrderShape /\ DeletionFlags /\
      CreationFlags /\ RecordShape /\ SaveShape /\ CleanShape /\ PassShape
  BY DEF IInv, Types, Shapes
<1>2. UNCHANGED <<map, pid, creation, deletion, order, writing, cached, file, ready,
                  thread, specific, used, told, lapse>>
  BY DEF ScheduleSnapshot, memory, flags, disk, queues, ghosts
<1>3. PICK k \in ConnRec :
        /\ conn' = [conn EXCEPT ![c] = k]
        /\ conn'[c] = k /\ \A x \in Conns \ {c} : conn'[x] = conn[x]
        /\ conn[c].pc \in {"changed", "created", "deleted"}
        /\ \/ k = IdleConn /\ conn[c].order.cookie = None
           \/ k.pc = "waiting" /\ k.vb = conn[c].vb /\ k.order = conn[c].order
  <2>1. [conn[c] EXCEPT !.pc = "waiting"] \in ConnRec
    BY <1>1 DEF ConnOK, ConnRec, ConnPC
  <2> QED
    BY <1>1, <2>1, IdleConns DEF ScheduleSnapshot, ConnOK, ConnRec
<1>4. \E p \in {"high", "low"} :
        /\ p = "low" => conn[c].pc = "changed"
        /\ snapshotVBState' = FALSE
        /\ future \subseteq future' /\ future' \subseteq future \cup {p}
        /\ p \in ready \/ p \in future'
  BY DEF ScheduleSnapshot, ScheduleVBSnapshot
<1>5. Types'
  <2>1. QueuesOK'
    BY <1>1, <1>2, <1>3, <1>4, Names DEF QueuesOK, Tasks, SetsOK, ConnOK, ConnRec
  <2>2. SetsOK'
    BY <1>1, <1>2, <1>3, <1>4, Names DEF SetsOK, QueuesOK, ConnOK, ConnRec
  <2>3. ConnOK'
    BY <1>1, <1>3 DEF ConnOK
  <2> QED
    BY <1>1, <1>2, <2>1, <2>2, <2>3 DEF Types, MapOK, DiskOK, OrderOK, ThreadOK, UsedOK
<1>6. Shapes'
  <2>1. ConnShape'
    BY <1>1, <1>2, <1>3, <1>4, Names, IdleConns DEF ConnShape, ConnOK, ConnRec
  <2>2. OrderShape'
    <3>1. ASSUME NEW v \in VBs, order[v].cookie # None
          PROVE  /\ conn'[order[v].cookie].pc \in {"deleted", "waiting"}
                 /\ conn'[order[v].cookie].vb = v
                 /\ conn'[order[v].cookie].order.cookie # None
      <4>1. order[v].cookie \in Conns
        BY <1>1, <3>1 DEF OrderOK, Orders
      <4> QED
        BY <1>1, <1>3, <3>1, <4>1 DEF OrderShape
    <3> QED
      BY <1>1, <1>2, <3>1 DEF OrderShape
  <2>3. DeletionFlags'
    BY <1>1, <1>2, <1>3, <1>4, Names
     DEF DeletionFlags, Queued, ThreadShape, Deleting, QueuesOK
  <2>4. CreationFlags'
    BY <1>1, <1>2, <1>3, <1>4, Names
     DEF CreationFlags, Queued, At, QueuesOK, ConnOK, ConnRec
  <2> QED
    BY <1>1, <1>2, <2>1, <2>2, <2>3, <2>4
     DEF Shapes, ThreadShape, RecordShape, SaveShape, CleanShape, PassShape, At,
         Deleting, Exists, Flushing, Renewing, Mapped, Saving, Snapshotting
<1>7. ASSUME NEW w \in VBs, Faultless(w)'
      PROVE  Sound(w)'
  <2>1. Faultless(w) /\ Sound(w)
    BY <1>2, <1>7 DEF IInv, Faultless, EachSound
  <2>2. /\ Added(w)' <=> Added(w)
        /\ Removing(w)' <=> Removing(w)
        /\ Restoring(w)' <=> Restoring(w)
        /\ SnapshotToCome'
    BY <1>2, <1>3, <1>4, IdleConns DEF Added, Removing, Restoring, SnapshotToCome, Queued
  <2>3. AgainFlagged(w)'
    BY <1>1, <1>2, <2>1, <2>2, <1>3, <1>4, Names
     DEF AgainFlagged, Sound, Mapped, Added, ConnOK, ConnRec
  <2>4. LeftIsRestored(w)'
    BY <1>1, <1>2, <2>1, <2>2, <1>3, <1>4, Names
     DEF LeftIsRestored, Sound, Mapped, Exists, Saving, At, Restoring, ConnOK, ConnRec
  <2>5. RecreateIsRestored(w)'
    BY <1>1, <1>2, <2>1, <2>2, <1>3, <1>4, Names
     DEF RecreateIsRestored, Sound, Mapped, Restoring, ConnOK, ConnRec
  <2>6. Settled(w)'
    BY <1>1, <1>2, <2>1, <2>2, <1>3, <1>4, Names
     DEF Settled, Sound, Due, SnapshotToCome, ThreadShape, Renewing, Added, Restoring,
         Mapped, Queued, At,
         Same, Saving, Seen, QueuesOK, SetsOK, ConnOK, ConnRec
  <2>7. OldIsDeleted(w)'
    BY <1>1, <1>2, <2>1, <2>2, <1>3, <1>4, Names
     DEF OldIsDeleted, Sound, Removing, ConnOK, ConnRec
  <2>8. NewHasFile(w)'
    BY <1>1, <1>2, <2>1, <2>2, <1>3, <1>4, Names
     DEF NewHasFile, Sound, Mapped, Added, Exists, At, Saving, ConnOK, ConnRec
  <2>9. IdIsOwn(w)'
    BY <1>1, <1>2, <2>1, <2>2, <1>3, <1>4, Names
     DEF IdIsOwn, Sound, Mapped, Added, ConnOK, ConnRec
  <2>10. HeldIdIsOwn(w)'
    BY <1>1, <1>2, <2>1, <2>2, <1>3, <1>4, Names
     DEF HeldIdIsOwn, Sound, Mapped, Added, Exists, At, Saving, ConnOK, ConnRec
  <2> QED
    BY <1>2, <2>1, <2>3, <2>4, <2>5, <2>6, <2>7, <2>8, <2>9, <2>10
     DEF Sound, AgainUnsaved, HandIsCurrent, SubIsCurrent, CacheIsFile, UnlinkedIsEmpty,
         WrittenHasFile, Kept, ToldIsGone, At, Exists, InHand, Mapped, Saving,
         ThreadShape, Unlinked
<1> QED
  BY <1>5, <1>6, <1>7 DEF IInv, EachSound

\* A vbucket that is removed is going to be deleted, by the one that removed it.
LEMMA RemoveKeeps ==
  ASSUME IInv, NEW c \in Conns, NEW v \in VBs, NEW o \in Orders, NEW to \in VBState, Remove(c, v, o, to),
         conn[c].pc = "idle", Mapped(v), o.cookie \in {None, c},
         o.recreate => o.cookie = None /\ to \in States,
         UsedOK', specific' \subseteq Conns, told' = told
  PROVE  IInv'
<1>1. MapOK /\ DiskOK /\ OrderOK /\ QueuesOK /\ SetsOK /\ ThreadOK /\ ConnOK /\
      UsedOK /\ ThreadShape /\ ConnShape /\ OrderShape /\ DeletionFlags /\
      CreationFlags /\ RecordShape /\ SaveShape /\ CleanShape /\ PassShape
  BY DEF IInv, Types, Shapes
<1>2. UNCHANGED <<pid, creation, deletion, order, writing, cached, file, ready, future,
                  snapshotVBState, told>>
  BY DEF Remove, memory, flags, disk, queues, ghosts
<1>3. PICK k \in ConnRec :
        /\ conn' = [conn EXCEPT ![c] = k]
        /\ conn'[c] = k /\ \A x \in Conns \ {c} : conn'[x] = conn[x]
        /\ k.pc = "removed" /\ k.vb = v /\ k.to = to /\ k.order = o
  <2>1. [pc |-> "removed", vb |-> v, to |-> to, order |-> o] \in ConnRec
    BY DEF ConnRec, ConnPC, MaybeVB
  <2> QED
    BY <1>1, <2>1 DEF Remove, ConnOK
<1>4. /\ map' = [map EXCEPT ![v] = NoVB] /\ NoVB \in VBRec
      /\ \A x \in VBs \ {v} : map'[x] = map[x]
      /\ map'[v] = NoVB /\ NoVB.state = "none" /\ NoVB.value = 0 /\ ~NoVB.dirty /\ NoVB.pre = 0
      /\ ~Mapped(v)'
  BY <1>1, Limits DEF Remove, MapOK, NoVB, VBRec, VBState, Values, Mapped
<1>5. \E pre \in 0..1, old \in BOOLEAN :
        /\ thread' = [thread EXCEPT !.old = old, !.pre = pre]
        /\ At("item") \/ thread' = thread
  <2>1. thread.pre \in 0..1 /\ CurrentPre(v) \in 0..1 /\ thread \in ThreadRec
    BY <1>1 DEF ThreadOK, ThreadRec, MapOK, VBRec, CurrentPre
  <2>2. CASE At("item") /\ thread.vb = v
    <3>1. thread' = [thread EXCEPT !.old = TRUE, !.pre = CurrentPre(v)]
      BY <2>2, Zenon DEF Remove
    <3> QED
      BY <2>1, <2>2, <3>1
  <2>3. CASE thread' = thread
    <3>1. /\ thread.old \in BOOLEAN
          /\ thread = [thread EXCEPT !.old = thread.old, !.pre = thread.pre]
      BY <2>1 DEF ThreadRec
    <3> QED
      BY <2>1, <2>3, <3>1
  <2>4. (At("item") /\ thread.vb = v) \/ thread' = thread
    BY Zenon DEF Remove
  <2> QED
    BY <2>2, <2>3, <2>4
<1>6. /\ thread' \in ThreadRec /\ thread'.pc = thread.pc /\ thread'.task = thread.task
      /\ thread'.vb = thread.vb /\ thread'.todo = thread.todo /\ thread'.seen = thread.seen
      /\ thread'.val = thread.val /\ thread'.sub = thread.sub /\ thread'.due = thread.due
      /\ thread.pc # "item" => thread' = thread
  BY <1>1, <1>5 DEF ThreadOK, ThreadRec, At
<1>7. Types'
  <2>1. MapOK'
    BY <1>1, <1>2, <1>4 DEF MapOK
  <2>2. SetsOK'
    BY <1>1, <1>2 DEF SetsOK
  <2>3. ConnOK'
    BY <1>1, <1>3 DEF ConnOK
  <2>4. UsedOK'
    OBVIOUS
  <2> QED
    BY <1>1, <1>2, <1>6, <2>1, <2>2, <2>3, <2>4
     DEF Types, DiskOK, OrderOK, QueuesOK, ThreadOK
<1>8. Shapes'
  <2>1. ConnShape'
    BY <1>1, <1>2, <1>3, <1>4, <1>6, Names DEF ConnShape, ConnOK, ConnRec
  <2>2. OrderShape'
    BY <1>1, <1>2, <1>3, <1>4, <1>6, Names DEF OrderShape, ConnOK, ConnRec
  <2>3. CreationFlags'
    BY <1>1, <1>2, <1>3, <1>4, <1>6, Names DEF CreationFlags, Queued, At, ConnOK, ConnRec
  <2>4. RecordShape'
    BY <1>1, <1>2, <1>3, <1>4, <1>6, Names DEF RecordShape, Mapped, Exists, MapOK, VBRec
  <2> QED
    BY <1>1, <1>2, <1>6, <2>1, <2>2, <2>3, <2>4
     DEF Shapes, ThreadShape, DeletionFlags, SaveShape, CleanShape, PassShape, At,
         Deleting, Flushing, Renewing, Queued, Saving, Snapshotting
<1>9. ASSUME NEW w \in VBs, Faultless(w)'
      PROVE  Sound(w)'
  <2>1. Faultless(w) /\ Sound(w)
    BY <1>1, <1>2, <1>9 DEF IInv, Faultless, EachSound, Remove, Lapse, UsedOK, UsedRec
  <2>2. /\ Added(w)' <=> Added(w)
        /\ Removing(w) => Removing(w)'
        /\ Restoring(w) => Restoring(w)'
        /\ w = v => Restoring(w)' /\ Removing(w)'
    BY <1>3 DEF Added, Removing, Restoring
  <2>3. w # v => (Mapped(w)' <=> Mapped(w))
    BY <1>4 DEF Mapped
  <2>4. InHand(w) => w # v /\ thread' = thread
    BY <1>9 DEF Remove, Lapse, Faultless, InHand
  <2>5. AgainFlagged(w)'
    BY <1>1, <1>2, <2>1, <2>2, <2>3, <2>4, <1>3, <1>4, <1>6, Names
     DEF AgainFlagged, Sound, Mapped, Added, MapOK, VBRec, ConnOK, ConnRec
  <2>6. AgainUnsaved(w)'
    BY <1>1, <1>2, <2>1, <2>2, <2>3, <2>4, <1>3, <1>4, <1>6, Names
     DEF AgainUnsaved, Sound, Mapped, MapOK, VBRec
  <2>7. HandIsCurrent(w)'
    BY <1>1, <1>2, <2>1, <2>2, <2>3, <2>4, <1>3, <1>4, <1>6, Names
     DEF HandIsCurrent, Sound, InHand, At, Mapped, MapOK, VBRec
  <2>8. SubIsCurrent(w)'
    BY <1>1, <1>2, <2>1, <2>2, <2>3, <2>4, <1>3, <1>4, <1>6, Names
     DEF SubIsCurrent, Sound, MapOK, VBRec
  <2>9. LeftIsRestored(w)'
    BY <1>1, <1>2, <2>1, <2>2, <2>3, <2>4, <1>3, <1>4, <1>6, Names
     DEF LeftIsRestored, Sound, Mapped, Exists, Saving, At, Restoring, MapOK, VBRec,
         ConnOK, ConnRec
  <2>10. RecreateIsRestored(w)'
    BY <1>1, <1>2, <2>1, <2>2, <2>3, <2>4, <1>3, <1>4, <1>6, Names
     DEF RecreateIsRestored, Sound, Mapped, Restoring, MapOK, VBRec, ConnOK, ConnRec
  <2>11. Settled(w)'
    BY <1>1, <1>2, <2>1, <2>2, <2>3, <2>4, <1>3, <1>4, <1>6, Names
     DEF Settled, Sound, Due, SnapshotToCome, ThreadShape, Renewing, Added, Restoring,
         Mapped, Queued, At,
         Same, Saving, Seen, MapOK, VBRec, ConnOK, ConnRec
  <2>12. OldIsDeleted(w)'
    BY <1>1, <1>2, <2>1, <2>2, <2>3, <2>4, <1>3, <1>4, <1>6, Names
     DEF OldIsDeleted, Sound, Removing, MapOK, VBRec, ConnOK, ConnRec
  <2>13. NewHasFile(w)'
    BY <1>1, <1>2, <2>1, <2>2, <2>3, <2>4, <1>3, <1>4, <1>6, Names
     DEF NewHasFile, Sound, Mapped, Added, Exists, At, Saving, MapOK, VBRec, ConnOK,
         ConnRec
  <2>14. IdIsOwn(w)'
    BY <1>1, <1>2, <2>1, <2>2, <2>3, <2>4, <1>3, <1>4, <1>6, Names
     DEF IdIsOwn, Sound, Mapped, Added, MapOK, VBRec, ConnOK, ConnRec
  <2>15. Kept(w)'
    BY <1>1, <1>2, <2>1, <2>2, <2>3, <2>4, <1>3, <1>4, <1>6, Names
     DEF Kept, Sound, InHand, At, ThreadShape, MapOK, VBRec
  <2>16. ToldIsGone(w)'
    BY <1>1, <1>2, <2>1, <2>2, <2>3, <2>4, <1>3, <1>4, <1>6, Names
     DEF ToldIsGone, Sound, Exists, Mapped, Saving, At, MapOK, VBRec
  <2>17. HeldIdIsOwn(w)'
    BY <1>1, <1>2, <2>1, <2>2, <2>3, <2>4, <1>3, <1>4, <1>6, Names
     DEF HeldIdIsOwn, Sound, Mapped, Added, Exists, At, Saving, MapOK, VBRec, ConnOK,
         ConnRec
  <2> QED
    BY <1>2, <1>6, <2>1, <2>5, <2>6, <2>7, <2>8, <2>9, <2>10, <2>11, <2>12, <2>13, <2>14,
    <2>15,
       <2>16, <2>17
     DEF Sound, CacheIsFile, UnlinkedIsEmpty, WrittenHasFile, At, Exists, InHand,
         Unlinked
<1> QED
  BY <1>7, <1>8, <1>9 DEF IInv, EachSound

\* Steps that change nothing but a waiting connection and the history.
LEMMA IdleStepKeeps ==
  ASSUME IInv, UNCHANGED <<memory, flags, order, writing, disk, queues, thread, snapshotVBState>>,
         UsedOK', specific' \subseteq Conns, told' \subseteq VBs,
         \A v \in VBs : lapse'[v] = {} => lapse[v] = {} /\ (v \in told' => v \in told),
         conn' = conn \/ (\E c \in Conns : conn' = [conn EXCEPT ![c] = IdleConn]
                                           /\ conn[c].pc = "waiting" /\ conn[c].vb = None)
  PROVE  IInv'
<1>1. MapOK /\ DiskOK /\ OrderOK /\ QueuesOK /\ SetsOK /\ ThreadOK /\ ConnOK /\
      UsedOK /\ ThreadShape /\ ConnShape /\ OrderShape /\ DeletionFlags /\
      CreationFlags /\ RecordShape /\ SaveShape /\ CleanShape /\ PassShape
  BY DEF IInv, Types, Shapes
<1>2. UNCHANGED <<map, pid, creation, deletion, order, writing, cached, file, ready,
                  future, thread, snapshotVBState>>
  BY DEF memory, flags, disk, queues, ghosts
<1>3. \A x \in Conns : /\ conn'[x] \in ConnRec
                       /\ \/ conn'[x] = conn[x]
                          \/ conn'[x] = IdleConn /\ conn[x].pc = "waiting" /\ conn[x].vb = None
  BY <1>1, IdleConns DEF ConnOK
<1>4. Types'
  <2>1. SetsOK'
    BY <1>1, <1>2 DEF SetsOK
  <2>2. ConnOK'
    BY <1>1, IdleConns DEF ConnOK
  <2>3. UsedOK'
    OBVIOUS
  <2> QED
    BY <1>1, <1>2, <2>1, <2>2, <2>3
     DEF Types, MapOK, DiskOK, OrderOK, QueuesOK, ThreadOK
<1>5. Shapes'
  <2>1. ConnShape'
    BY <1>1, <1>2, <1>3, IdleConns, Names DEF ConnShape, ConnOK, ConnRec
  <2>2. OrderShape'
    <3>1. ASSUME NEW v \in VBs, order[v].cookie # None
          PROVE  conn'[order[v].cookie] = conn[order[v].cookie]
      <4>1. order[v].cookie \in Conns
        BY <1>1, <3>1 DEF OrderOK, Orders
      <4> QED
        BY <1>1, <1>3, <3>1, <4>1, Names DEF OrderShape
    <3> QED
      BY <1>1, <1>2, <3>1 DEF OrderShape
  <2>3. CreationFlags'
    BY <1>1, <1>2, <1>3, IdleConns, Names DEF CreationFlags, Queued, At, ConnOK, ConnRec
  <2> QED
    BY <1>1, <1>2, <2>1, <2>2, <2>3
     DEF Shapes, ThreadShape, DeletionFlags, RecordShape, SaveShape, CleanShape,
         PassShape, At, Deleting, Exists, Flushing, Renewing, Mapped, Queued, Saving,
         Snapshotting
<1>6. ASSUME NEW w \in VBs, Faultless(w)'
      PROVE  Sound(w)'
  <2>1. Faultless(w) /\ Sound(w)
    BY <1>1, <1>2, <1>6 DEF IInv, Faultless, EachSound, Lapse, UsedOK, UsedRec
  <2>2. /\ Added(w)' <=> Added(w)
        /\ Removing(w)' <=> Removing(w)
        /\ Restoring(w)' <=> Restoring(w)
        /\ SnapshotToCome => SnapshotToCome'
    BY <1>2, <1>3, IdleConns DEF Added, Removing, Restoring, SnapshotToCome, Queued, At
  <2>3. AgainFlagged(w)'
    BY <1>1, <1>2, <2>1, <2>2, <1>3, IdleConns, Names
     DEF AgainFlagged, Sound, Mapped, Added, ConnOK, ConnRec
  <2>4. LeftIsRestored(w)'
    BY <1>1, <1>2, <2>1, <2>2, <1>3, IdleConns, Names
     DEF LeftIsRestored, Sound, Mapped, Exists, Saving, At, Restoring, ConnOK, ConnRec
  <2>5. RecreateIsRestored(w)'
    BY <1>1, <1>2, <2>1, <2>2, <1>3, IdleConns, Names
     DEF RecreateIsRestored, Sound, Mapped, Restoring, ConnOK, ConnRec
  <2>6. Settled(w)'
    BY <1>1, <1>2, <2>1, <2>2, <1>3, IdleConns, Names
     DEF Settled, Sound, Due, SnapshotToCome, ThreadShape, Renewing, Added, Restoring,
         Mapped, Queued, At,
         Same, Saving, Seen, ConnOK, ConnRec
  <2>7. OldIsDeleted(w)'
    BY <1>1, <1>2, <2>1, <2>2, <1>3, IdleConns, Names
     DEF OldIsDeleted, Sound, Removing, ConnOK, ConnRec
  <2>8. NewHasFile(w)'
    BY <1>1, <1>2, <2>1, <2>2, <1>3, IdleConns, Names
     DEF NewHasFile, Sound, Mapped, Added, Exists, At, Saving, ConnOK, ConnRec
  <2>9. IdIsOwn(w)'
    BY <1>1, <1>2, <2>1, <2>2, <1>3, IdleConns, Names
     DEF IdIsOwn, Sound, Mapped, Added, ConnOK, ConnRec
  <2>10. ToldIsGone(w)'
    BY <1>1, <1>2, <2>1, <2>2, <1>3, IdleConns, Names, <1>6
     DEF ToldIsGone, Sound, Exists, Mapped, Saving, At, SetsOK, Faultless
  <2>11. HeldIdIsOwn(w)'
    BY <1>1, <1>2, <2>1, <2>2, <1>3, IdleConns, Names
     DEF HeldIdIsOwn, Sound, Mapped, Added, Exists, At, Saving, ConnOK, ConnRec
  <2> QED
    BY <1>2, <2>1, <2>3, <2>4, <2>5, <2>6, <2>7, <2>8, <2>9, <2>10, <2>11
     DEF Sound, AgainUnsaved, HandIsCurrent, SubIsCurrent, CacheIsFile, UnlinkedIsEmpty,
         WrittenHasFile, Kept, At, Exists, InHand, Mapped, ThreadShape, Unlinked
<1> QED
  BY <1>4, <1>5, <1>6 DEF IInv, EachSound

\* A deletion of a vbucket in memory is late, one that joins another is not done: lapses.
LEMMA ScheduleVBDeletionKeeps ==
  ASSUME IInv, NEW c \in Conns, ScheduleVBDeletion(c)
  PROVE  IInv'
<1>1. MapOK /\ DiskOK /\ OrderOK /\ QueuesOK /\ SetsOK /\ ThreadOK /\ ConnOK /\
      UsedOK /\ ThreadShape /\ ConnShape /\ OrderShape /\ DeletionFlags /\
      CreationFlags /\ RecordShape /\ SaveShape /\ CleanShape /\ PassShape
  BY DEF IInv, Types, Shapes
<1>2. UNCHANGED <<map, pid, creation, writing, cached, file, ready, thread,
                  snapshotVBState, specific, used>>
  BY DEF ScheduleVBDeletion, memory, flags, disk, queues, ghosts
<1>3. PICK k \in ConnRec :
        /\ conn' = [conn EXCEPT ![c] = k]
        /\ conn'[c] = k /\ \A x \in Conns \ {c} : conn'[x] = conn[x]
        /\ conn[c].pc = "removed" /\ k.vb = conn[c].vb /\ k.to = conn[c].to
        /\ k.order = conn[c].order
        /\ k.pc = IF k.order.recreate THEN "reset" ELSE "deleted"
  <2>1. \A p \in {"reset", "deleted"} : [conn[c] EXCEPT !.pc = p] \in ConnRec
    BY <1>1 DEF ConnOK, ConnRec, ConnPC
  <2> QED
    BY <1>1, <2>1 DEF ScheduleVBDeletion, ConnOK, ConnRec
<1>4. PICK v \in VBs, o \in Orders :
        /\ v = conn[c].vb /\ o = conn[c].order
        /\ o.cookie \in {None, c} /\ (o.recreate => o.cookie = None)
  BY <1>1, <1>3 DEF ConnShape, ConnOK, ConnRec
<1>5. /\ \/ /\ v \in deletion /\ UNCHANGED <<deletion, order, future>>
            /\ o.recreate \/ lapse'[v] # {}
         \/ /\ v \notin deletion /\ deletion' = deletion \cup {v}
            /\ order' = [order EXCEPT ![v] = o]
            /\ future' = future \cup {v}
            /\ ~Mapped(v) \/ lapse'[v] # {}
      /\ told' = IF o.recreate THEN told \ {v} ELSE told
      /\ \A x \in VBs : lapse'[x] = {} => lapse[x] = {}
  BY <1>4 DEF ScheduleVBDeletion, Lapse
<1>6. \A x \in VBs : order'[x] = order[x] \/ (x = v /\ order'[x] = o /\ v \notin deletion)
  BY <1>1, <1>5 DEF OrderOK
<1>7. Types'
  <2>1. OrderOK'
    BY <1>1, <1>2, <1>4, <1>5 DEF OrderOK
  <2>2. QueuesOK'
    BY <1>1, <1>2, <1>3, <1>4, <1>5, Names
     DEF QueuesOK, Tasks, OrderOK, SetsOK, ConnOK, ConnRec
  <2>3. SetsOK'
    BY <1>1, <1>2, <1>5 DEF SetsOK
  <2>4. ConnOK'
    BY <1>1, <1>3 DEF ConnOK
  <2> QED
    BY <1>1, <1>2, <2>1, <2>2, <2>3, <2>4 DEF Types, MapOK, DiskOK, ThreadOK, UsedOK
<1>8. Shapes'
  <2>1. ConnShape'
    BY <1>1, <1>2, <1>3, <1>4, <1>5, Names DEF ConnShape, ConnOK, ConnRec
  <2>2. OrderShape'
    <3>1. ASSUME NEW x \in VBs
          PROVE  /\ order'[x].recreate => order'[x].cookie = None
                 /\ order'[x].cookie # None =>
                      /\ conn'[order'[x].cookie].pc \in {"deleted", "waiting"}
                      /\ conn'[order'[x].cookie].vb = x
                      /\ conn'[order'[x].cookie].order.cookie # None
      <4>1. CASE order'[x] = order[x]
        <5>1. order[x].cookie \in Conns \cup {None}
          BY <1>1 DEF OrderOK, Orders
        <5> QED
          BY <1>1, <1>3, <4>1, <5>1 DEF OrderShape
      <4>2. CASE x = v /\ order'[x] = o
        BY <1>1, <1>3, <1>4, <4>2
      <4> QED
        BY <1>6, <4>1, <4>2
    <3> QED
      BY <3>1 DEF OrderShape
  <2>3. DeletionFlags'
    BY <1>1, <1>2, <1>3, <1>4, <1>5, Names
     DEF DeletionFlags, Queued, ThreadShape, Deleting, QueuesOK, SetsOK
  <2>4. CreationFlags'
    BY <1>1, <1>2, <1>3, <1>4, <1>5, Names
     DEF CreationFlags, Queued, At, QueuesOK, ConnOK, ConnRec
  <2> QED
    BY <1>1, <1>2, <2>1, <2>2, <2>3, <2>4
     DEF Shapes, ThreadShape, RecordShape, SaveShape, CleanShape, PassShape, At,
         Deleting, Exists, Flushing, Renewing, Mapped, Saving, Snapshotting
<1>9. ASSUME NEW w \in VBs, Faultless(w)'
      PROVE  Sound(w)'
  <2>1. Faultless(w) /\ Sound(w)
    BY <1>1, <1>2, <1>9
     DEF IInv, Faultless, EachSound, ScheduleVBDeletion, Lapse, UsedOK, UsedRec
  <2>2. /\ Added(w)' <=> Added(w)
        /\ Removing(w) => w = v \/ Removing(w)'
        /\ Restoring(w) => (w = v /\ ~o.recreate) \/ Restoring(w)'
        /\ w = v /\ o.recreate => Restoring(w)'
        /\ SnapshotToCome => SnapshotToCome'
        /\ ~o.recreate => SnapshotToCome'
    BY <1>2, <1>3, <1>4, <1>5 DEF Added, Removing, Restoring, SnapshotToCome, Queued, At
  <2>3. /\ v \in deletion' /\ (v \in deletion => o.recreate \/ w # v)
        /\ w # v => (w \in deletion' <=> w \in deletion) /\ order'[w] = order[w]
        /\ w = v /\ v \notin deletion => order'[w] = o /\ ~Mapped(w)
        /\ v \in deletion => order'[w] = order[w]
    BY <1>1, <1>9, <1>5 DEF Faultless, OrderOK
  <2>4. AgainFlagged(w)'
    BY <1>1, <1>2, <2>1, <2>2, <2>3, <1>3, <1>4, <1>5, Names
     DEF AgainFlagged, Sound, Mapped, Added, SetsOK, ConnOK, ConnRec
  <2>5. AgainUnsaved(w)'
    BY <1>1, <1>2, <2>1, <2>2, <2>3, <1>3, <1>4, <1>5, Names
     DEF AgainUnsaved, Sound, Mapped, SetsOK
  <2>6. LeftIsRestored(w)'
    BY <1>1, <1>2, <2>1, <2>2, <2>3, <1>3, <1>4, <1>5, Names
     DEF LeftIsRestored, Sound, Mapped, Exists, Saving, At, Restoring, SetsOK, ConnOK,
         ConnRec
  <2>7. RecreateIsRestored(w)'
    BY <1>1, <1>2, <2>1, <2>2, <2>3, <1>3, <1>4, <1>5, Names
     DEF RecreateIsRestored, Sound, Mapped, Restoring, OrderOK, SetsOK, ConnOK, ConnRec
  <2>8. CacheIsFile(w)'
    BY <1>1, <1>2, <2>1, <2>2, <2>3, <1>3, <1>4, <1>5, Names
     DEF CacheIsFile, Sound, Unlinked, At, SetsOK
  <2>9. UnlinkedIsEmpty(w)'
    BY <1>1, <1>2, <2>1, <2>2, <2>3, <1>3, <1>4, <1>5, Names
     DEF UnlinkedIsEmpty, Sound, Unlinked, At, Exists, OrderOK, DeletionFlags
  <2>10. Settled(w)'
    BY <1>1, <1>2, <2>1, <2>2, <2>3, <1>3, <1>4, <1>5, Names
     DEF Settled, Sound, Due, SnapshotToCome, ThreadShape, Renewing, Added, Restoring,
         Mapped, Queued, At,
         Same, Saving, Seen, QueuesOK, SetsOK, ConnOK, ConnRec
  <2>11. OldIsDeleted(w)'
    BY <1>1, <1>2, <2>1, <2>2, <2>3, <1>3, <1>4, <1>5, Names
     DEF OldIsDeleted, Sound, Removing, SetsOK, ConnOK, ConnRec
  <2>12. NewHasFile(w)'
    BY <1>1, <1>2, <2>1, <2>2, <2>3, <1>3, <1>4, <1>5, Names
     DEF NewHasFile, Sound, Mapped, Added, Exists, At, Saving, SetsOK, ConnOK, ConnRec
  <2>13. IdIsOwn(w)'
    BY <1>1, <1>2, <2>1, <2>2, <2>3, <1>3, <1>4, <1>5, Names
     DEF IdIsOwn, Sound, Mapped, Added, ConnOK, ConnRec
  <2>14. ToldIsGone(w)'
    BY <1>1, <1>2, <2>1, <2>2, <2>3, <1>3, <1>4, <1>5, Names
     DEF ToldIsGone, Sound, Exists, Mapped, Saving, At, OrderOK, SetsOK
  <2>15. HeldIdIsOwn(w)'
    BY <1>1, <1>2, <2>1, <2>2, <2>3, <1>3, <1>4, <1>5, Names
     DEF HeldIdIsOwn, Sound, Mapped, Added, Exists, At, Saving, SetsOK, ConnOK, ConnRec
  <2> QED
    BY <1>2, <2>1, <2>4, <2>5, <2>6, <2>7, <2>8, <2>9, <2>10, <2>11, <2>12, <2>13, <2>14,
    <2>15
     DEF Sound, HandIsCurrent, SubIsCurrent, WrittenHasFile, Kept, At, Exists, InHand,
         Mapped, ThreadShape
<1> QED
  BY <1>7, <1>8, <1>9 DEF IInv, EachSound
-----------------------------------------------------------------------------
(***************************************************************************)
(* Start and restart.                                                      *)
(***************************************************************************)
\* The first start finds what an earlier run left, or nothing.
LEMMA InitHolds ==
  ASSUME Init
  PROVE  IInv
<1>1. /\ file \in [VBs -> FileRec] /\ \A v \in VBs : ~Exists(v) => file[v] = NoFile
  <2>1. NoFile \in FileRec /\ LeftFile \in FileRec /\ LeftFile.state # "none"
    BY Limits, Names DEF NoFile, LeftFile, FileRec, VBState, Values
  <2>2. \A v \in VBs : file[v] \in {NoFile, LeftFile}
    BY DEF Init
  <2> QED
    BY <2>1, <2>2 DEF Init, Exists
<1>2. /\ map = [v \in VBs |-> InMemory(file[v])]
      /\ pid = [v \in VBs |-> file[v].id]
      /\ cached = [v \in VBs |-> [state |-> file[v].state, id |-> file[v].id]]
      /\ creation = {} /\ deletion = {} /\ order = [v \in VBs |-> NoOrder]
      /\ writing = {} /\ ready = {} /\ future = {"high", "flush"}
      /\ thread = IdleThread /\ snapshotVBState = FALSE
      /\ conn = [c \in Conns |-> IdleConn] /\ specific = {}
  BY DEF Init
<1>3. ASSUME NEW v \in VBs
      PROVE  /\ map[v] \in VBRec /\ pid[v] \in 0..1 /\ cached[v] \in SavedRec
             /\ Exists(v) <=> Mapped(v)
             /\ map[v].value = file[v].value /\ map[v].pre = pid[v]
             /\ ~map[v].dirty
             /\ ~Mapped(v) => map[v] = NoVB
             /\ cached[v] = [state |-> file[v].state, id |-> file[v].id]
  <2>1. /\ map[v] = InMemory(file[v]) /\ pid[v] = file[v].id
        /\ cached[v] = [state |-> file[v].state, id |-> file[v].id]
        /\ file[v] \in FileRec
    BY <1>1, <1>2
  <2>2. pid[v] \in 0..1 /\ cached[v] \in SavedRec
    BY <2>1 DEF FileRec, SavedRec
  <2>3. CASE file[v] = NoFile
    BY <2>1, <2>2, <2>3, Limits
     DEF InMemory, NoFile, NoVB, VBRec, VBState, Values, Exists, Mapped
  <2>4. CASE file[v] # NoFile
    <3>1. map[v] = [state |-> "dead", value |-> file[v].value, dirty |-> FALSE,
                     pre |-> file[v].id]
      BY <2>1, <2>4 DEF InMemory
    <3>2. Exists(v) /\ Mapped(v)
      BY <1>1, <2>4, <3>1, Names DEF Exists, Mapped
    <3>3. map[v] \in VBRec
      BY <2>1, <3>1, Names DEF VBRec, FileRec
    <3> QED
      BY <2>1, <2>2, <3>1, <3>2, <3>3
  <2> QED
    BY <2>3, <2>4
<1>4. /\ thread.pc = "idle" /\ thread.task = "none" /\ thread.sub = Nothing
      /\ ~thread.old /\ ~thread.due
      /\ thread \in ThreadRec /\ \A v \in VBs : Nothing[v] = 0
      /\ \A c \in Conns : conn[c] = IdleConn
      /\ \A v \in VBs : order[v] = NoOrder
  BY <1>2, Idle
<1>5. Types
  <2>1. MapOK /\ DiskOK
    BY <1>1, <1>2, <1>3 DEF MapOK, DiskOK
  <2>2. OrderOK /\ ConnOK /\ ThreadOK
    BY <1>2, <1>4, IdleConns DEF OrderOK, ConnOK, ThreadOK
  <2>3. QueuesOK /\ SetsOK
    BY <1>2 DEF QueuesOK, SetsOK, Tasks, Init
  <2>4. UsedOK
    <3>1. [v \in VBs |-> file[v].value] \in [VBs -> Values]
      BY <1>1 DEF FileRec
    <3> QED
      BY <3>1 DEF UsedOK, UsedRec, Init
  <2> QED
    BY <2>1, <2>2, <2>3, <2>4 DEF Types
<1>6. Shapes
  <2>1. ThreadShape /\ SaveShape /\ CleanShape /\ PassShape
    BY <1>4, Names
     DEF ThreadShape, SaveShape, CleanShape, PassShape, Saving, At, Deleting, Renewing,
         Snapshotting
  <2>2. ConnShape /\ OrderShape
    BY <1>4, IdleConns DEF ConnShape, OrderShape
  <2>3. DeletionFlags /\ CreationFlags
    BY <1>2, <1>4, Names DEF DeletionFlags, CreationFlags, Queued
  <2>4. RecordShape
    <3>1. ASSUME NEW v \in VBs, cached[v].state = "none"
          PROVE  cached[v] = NoState
      <4>1. cached[v] = [state |-> file[v].state, id |-> file[v].id]
        BY <1>3
      <4>2. file[v] = NoFile
        BY <1>1, <3>1, <4>1 DEF Exists
      <4> QED
        BY <4>1, <4>2 DEF NoFile, NoState
    <3>2. ASSUME NEW v \in VBs
          PROVE  (~Mapped(v) => map[v] = NoVB) /\ ~map[v].dirty
      BY <1>3
    <3> QED
      BY <1>1, <3>1, <3>2 DEF RecordShape
  <2> QED
    BY <2>1, <2>2, <2>3, <2>4 DEF Shapes
<1>7. ASSUME NEW v \in VBs
      PROVE  Sound(v)
  <2>1. /\ SnapshotToCome /\ ~At("item") /\ ~At("save") /\ ~At("unlinked")
        /\ ~At("id")
        /\ deletion = {} /\ writing = {} /\ thread.sub[v] = 0
    BY <1>2, <1>4 DEF SnapshotToCome, Queued, At
  <2>2. AgainFlagged(v) /\ AgainUnsaved(v) /\ RecreateIsRestored(v)
    BY <2>1 DEF AgainFlagged, AgainUnsaved, RecreateIsRestored
  <2>3. HandIsCurrent(v) /\ SubIsCurrent(v) /\ WrittenHasFile(v) /\ UnlinkedIsEmpty(v)
    BY <2>1
     DEF HandIsCurrent, SubIsCurrent, WrittenHasFile, UnlinkedIsEmpty, InHand, Unlinked
  <2>4. CacheIsFile(v) /\ Settled(v)
    BY <1>3, <2>1 DEF CacheIsFile, Settled, Due
  <2>5. LeftIsRestored(v) /\ NewHasFile(v) /\ Kept(v) /\ OldIsDeleted(v)
    BY <1>3, <2>1 DEF LeftIsRestored, NewHasFile, Kept, OldIsDeleted, Saving
  <2>6. IdIsOwn(v)
    <3>1. pid[v] \in 0..1 /\ map[v].pre = pid[v]
      BY <1>3
    <3> QED
      BY <3>1 DEF IdIsOwn
  <2>7. ToldIsGone(v)
    BY DEF ToldIsGone, Init
  <2>8. HeldIdIsOwn(v)
    BY <2>1 DEF HeldIdIsOwn
  <2> QED
    BY <2>2, <2>3, <2>4, <2>5, <2>6, <2>7, <2>8 DEF Sound
<1> QED
  BY <1>5, <1>6, <1>7 DEF IInv, EachSound

\* A restart finds the files as they are, and has forgotten all else.
LEMMA RestartKeeps ==
  ASSUME IInv, Restart
  PROVE  IInv'
<1>1. /\ file' \in [VBs -> FileRec] /\ \A v \in VBs : ~Exists(v)' => file'[v] = NoFile
  BY DEF IInv, Types, DiskOK, Shapes, RecordShape, Restart, Exists
<1>2. /\ map' = [v \in VBs |-> InMemory(file'[v])]
      /\ pid' = [v \in VBs |-> file'[v].id]
      /\ cached' = [v \in VBs |-> [state |-> file'[v].state, id |-> file'[v].id]]
      /\ creation' = {} /\ deletion' = {} /\ order' = [v \in VBs |-> NoOrder]
      /\ writing' = {} /\ ready' = {} /\ future' = {"high", "flush"}
      /\ thread' = IdleThread /\ snapshotVBState' = FALSE
      /\ conn' = [c \in Conns |-> IdleConn] /\ specific' = {}
  BY DEF Restart
<1>3. ASSUME NEW v \in VBs
      PROVE  /\ map'[v] \in VBRec /\ pid'[v] \in 0..1 /\ cached'[v] \in SavedRec
             /\ Exists(v)' <=> Mapped(v)'
             /\ map'[v].value = file'[v].value /\ map'[v].pre = pid'[v]
             /\ ~map'[v].dirty
             /\ ~Mapped(v)' => map'[v] = NoVB
             /\ cached'[v] = [state |-> file'[v].state, id |-> file'[v].id]
  <2>1. /\ map'[v] = InMemory(file'[v]) /\ pid'[v] = file'[v].id
        /\ cached'[v] = [state |-> file'[v].state, id |-> file'[v].id]
        /\ file'[v] \in FileRec
    BY <1>1, <1>2
  <2>2. pid'[v] \in 0..1 /\ cached'[v] \in SavedRec
    BY <2>1 DEF FileRec, SavedRec
  <2>3. CASE file'[v] = NoFile
    BY <2>1, <2>2, <2>3, Limits
     DEF InMemory, NoFile, NoVB, VBRec, VBState, Values, Exists, Mapped
  <2>4. CASE file'[v] # NoFile
    <3>1. map'[v] = [state |-> "dead", value |-> file'[v].value, dirty |-> FALSE,
                     pre |-> file'[v].id]
      BY <2>1, <2>4 DEF InMemory
    <3>2. Exists(v)' /\ Mapped(v)'
      BY <1>1, <2>4, <3>1, Names DEF Exists, Mapped
    <3>3. map'[v] \in VBRec
      BY <2>1, <3>1, Names DEF VBRec, FileRec
    <3> QED
      BY <2>1, <2>2, <3>1, <3>2, <3>3
  <2> QED
    BY <2>3, <2>4
<1>4. /\ thread'.pc = "idle" /\ thread'.task = "none" /\ thread'.sub = Nothing
      /\ ~thread'.old /\ ~thread'.due
      /\ thread' \in ThreadRec /\ \A v \in VBs : Nothing[v] = 0
      /\ \A c \in Conns : conn'[c] = IdleConn
      /\ \A v \in VBs : order'[v] = NoOrder
  BY <1>2, Idle
<1>5. Types'
  <2>1. MapOK' /\ DiskOK'
    BY <1>1, <1>2, <1>3 DEF MapOK, DiskOK
  <2>2. OrderOK' /\ ConnOK' /\ ThreadOK'
    BY <1>2, <1>4, IdleConns DEF OrderOK, ConnOK, ThreadOK
  <2>3. QueuesOK' /\ SetsOK'
    BY <1>2 DEF IInv, Types, QueuesOK, SetsOK, Tasks, Restart
  <2>4. UsedOK'
    <3>1. PICK n : n = used.restarts + 1 /\ used' = [used EXCEPT !.restarts = n]
      BY Zenon DEF Restart
    <3> QED
      BY <3>1 DEF IInv, Types, UsedOK, UsedRec
  <2> QED
    BY <2>1, <2>2, <2>3, <2>4 DEF Types
<1>6. Shapes'
  <2>1. ThreadShape' /\ SaveShape' /\ CleanShape' /\ PassShape'
    BY <1>4, Names
     DEF ThreadShape, SaveShape, CleanShape, PassShape, Saving, At, Deleting, Renewing,
         Snapshotting
  <2>2. ConnShape' /\ OrderShape'
    BY <1>4, IdleConns DEF ConnShape, OrderShape
  <2>3. DeletionFlags' /\ CreationFlags'
    BY <1>2, <1>4, Names DEF DeletionFlags, CreationFlags, Queued
  <2>4. RecordShape'
    <3>1. ASSUME NEW v \in VBs, cached'[v].state = "none"
          PROVE  cached'[v] = NoState
      <4>1. cached'[v] = [state |-> file'[v].state, id |-> file'[v].id]
        BY <1>3
      <4>2. file'[v] = NoFile
        BY <1>1, <3>1, <4>1 DEF Exists
      <4> QED
        BY <4>1, <4>2 DEF NoFile, NoState
    <3>2. ASSUME NEW v \in VBs
          PROVE  (~Mapped(v)' => map'[v] = NoVB) /\ ~map'[v].dirty
      BY <1>3
    <3> QED
      BY <1>1, <3>1, <3>2 DEF RecordShape
  <2> QED
    BY <2>1, <2>2, <2>3, <2>4 DEF Shapes
<1>7. ASSUME NEW v \in VBs
      PROVE  Sound(v)'
  <2>1. /\ SnapshotToCome' /\ ~At("item")' /\ ~At("save")' /\ ~At("unlinked")'
        /\ ~At("id")'
        /\ deletion' = {} /\ writing' = {} /\ thread'.sub[v] = 0
    BY <1>2, <1>4 DEF SnapshotToCome, Queued, At
  <2>2. AgainFlagged(v)' /\ AgainUnsaved(v)' /\ RecreateIsRestored(v)'
    BY <2>1 DEF AgainFlagged, AgainUnsaved, RecreateIsRestored
  <2>3. HandIsCurrent(v)' /\ SubIsCurrent(v)' /\ WrittenHasFile(v)' /\ UnlinkedIsEmpty(v)'
    BY <2>1
     DEF HandIsCurrent, SubIsCurrent, WrittenHasFile, UnlinkedIsEmpty, InHand, Unlinked
  <2>4. CacheIsFile(v)' /\ Settled(v)'
    BY <1>3, <2>1 DEF CacheIsFile, Settled, Due
  <2>5. LeftIsRestored(v)' /\ NewHasFile(v)' /\ Kept(v)' /\ OldIsDeleted(v)'
    BY <1>3, <2>1 DEF LeftIsRestored, NewHasFile, Kept, OldIsDeleted, Saving
  <2>6. IdIsOwn(v)'
    <3>1. pid'[v] \in 0..1 /\ map'[v].pre = pid'[v]
      BY <1>3
    <3> QED
      BY <3>1 DEF IdIsOwn
  <2>7. ToldIsGone(v)'
    <3>1. v \in told' => Faultless(v) /\ v \in told
      BY DEF Restart, Faultless
    <3>2. v \in told' => ~Exists(v)
      BY <3>1 DEF IInv, EachSound, Sound, ToldIsGone
    <3>3. Exists(v)' <=> Exists(v)
      BY DEF Restart, Exists
    <3> QED
      BY <1>3, <2>1, <3>2, <3>3 DEF ToldIsGone, Saving
  <2>8. HeldIdIsOwn(v)'
    BY <2>1 DEF HeldIdIsOwn
  <2> QED
    BY <2>2, <2>3, <2>4, <2>5, <2>6, <2>7, <2>8 DEF Sound
<1> QED
  BY <1>5, <1>6, <1>7 DEF IInv, EachSound

-----------------------------------------------------------------------------
(***************************************************************************)
(* The commands of the connections, from the steps that they share.        *)
(***************************************************************************)
\* A command comes on an idle connection.
LEMMA CallStays ==
  ASSUME IInv, NEW c \in Conns, Call(c)
  PROVE  conn[c].pc = "idle" /\ UsedOK'
<1>1. PICK n : n = used.calls + 1 /\ used' = [used EXCEPT !.calls = n]
  BY Zenon DEF Call
<1> QED
  BY <1>1 DEF Call, IInv, Types, UsedOK, UsedRec

\* setVBucketState sets a state,
LEMMA SetVBucketStateKeeps ==
  ASSUME IInv, NEW c \in Conns, NEW v \in VBs, NEW to \in States, SetVBucketState(c, v, to)
  PROVE  IInv'
<1>1. SetState(c, v, to) /\ conn[c].pc = "idle" /\ UsedOK'
  BY CallStays DEF SetVBucketState
<1> QED
  BY <1>1, SetStateKeeps

\* and so does the end of a reset.
LEMMA ResetStateKeeps ==
  ASSUME IInv, NEW c \in Conns, ResetState(c)
  PROVE  IInv'
<1>1. conn[c].pc = "reset" /\ SetState(c, conn[c].vb, conn[c].to) /\ used' = used
  BY DEF ResetState
<1>2. conn[c].vb \in VBs /\ conn[c].to \in States
  BY <1>1 DEF IInv, Shapes, ConnShape
<1>3. UsedOK'
  BY <1>1 DEF IInv, Types, UsedOK
<1> QED
  BY <1>1, <1>2, <1>3, SetStateKeeps

\* A deletion that is refused changes nothing.
LEMMA DelVBucketKeeps ==
  ASSUME IInv, NEW c \in Conns, NEW v \in VBs, NEW sync \in BOOLEAN, DelVBucket(c, v, sync)
  PROVE  IInv'
<1> DEFINE o == [recreate |-> FALSE, cookie |-> IF sync THEN c ELSE None]
<1>1. conn[c].pc = "idle" /\ UsedOK' /\ told' = told
  BY CallStays DEF DelVBucket
<1>2. specific' \subseteq Conns
  BY DEF DelVBucket, IInv, Types, SetsOK
<1>3. o \in Orders /\ ~o.recreate /\ o.cookie \in {None, c} /\ "none" \in VBState
  BY DEF Orders, VBState
<1>4. CASE map[v].state = "dead"
  <2>1. Remove(c, v, o, "none") /\ Mapped(v)
    BY <1>4 DEF DelVBucket, Mapped
  <2> HIDE DEF o
  <2> QED
    BY <1>1, <1>2, <1>3, <2>1, RemoveKeeps
<1>5. CASE map[v].state # "dead"
  <2>1. UNCHANGED <<memory, flags, order, writing, disk, queues, thread, snapshotVBState,
                    conn, lapse>>
    BY <1>5 DEF DelVBucket
  <2>2. told' \subseteq VBs
    BY <1>1 DEF IInv, Types, SetsOK
  <2> QED
    BY <1>1, <1>2, <2>1, <2>2, IdleStepKeeps
<1> QED
  BY <1>4, <1>5

\* A deletion that is not tried is a lapse.
LEMMA DelVBucketAgainKeeps ==
  ASSUME IInv, NEW c \in Conns, NEW v \in VBs, DelVBucketAgain(c, v)
  PROVE  IInv'
<1>1. UNCHANGED <<memory, flags, order, writing, disk, queues, thread, snapshotVBState>>
      /\ conn' = conn
  BY DEF DelVBucketAgain
<1>2. specific' \subseteq Conns /\ told' \subseteq VBs
  BY DEF DelVBucketAgain, IInv, Types, SetsOK
<1>3. \A x \in VBs : lapse'[x] = {} => lapse[x] = {} /\ (x \in told' => x \in told)
  BY DEF DelVBucketAgain, Lapse
<1>4. UsedOK'
  BY CallStays DEF DelVBucketAgain
<1> QED
  BY <1>1, <1>2, <1>3, <1>4, IdleStepKeeps

\* A client that is told is at no deletion any more.
LEMMA ResumeKeeps ==
  ASSUME IInv, NEW c \in Conns, Resume(c)
  PROVE  IInv'
<1>1. UNCHANGED <<memory, flags, order, writing, disk, queues, thread, snapshotVBState>>
      /\ UNCHANGED <<used, told, lapse>>
  BY DEF Resume, ghosts
<1>2. specific' \subseteq Conns /\ told' \subseteq VBs /\ UsedOK'
  BY <1>1 DEF Resume, IInv, Types, SetsOK, UsedOK
<1>3. conn' = [conn EXCEPT ![c] = IdleConn] /\ conn[c].pc = "waiting" /\ conn[c].vb = None
  BY DEF Resume
<1> QED
  BY <1>1, <1>2, <1>3, IdleStepKeeps

\* A reset removes the vbucket, to restore its state.
LEMMA ResetVBucketKeeps ==
  ASSUME IInv, NEW c \in Conns, NEW v \in VBs, ResetVBucket(c, v)
  PROVE  IInv'
<1> DEFINE o == [recreate |-> TRUE, cookie |-> None]
<1>1. conn[c].pc = "idle" /\ UsedOK' /\ told' = told /\ Mapped(v)
  BY CallStays DEF ResetVBucket
<1>2. specific' \subseteq Conns
  BY DEF ResetVBucket, IInv, Types, SetsOK
<1>3. o \in Orders /\ o.cookie = None
  BY DEF Orders
<1>4. map[v].state \in VBState /\ map[v].state \in States
  BY <1>1 DEF IInv, Types, MapOK, VBRec, VBState, Mapped
<1>5. Remove(c, v, o, map[v].state)
  BY DEF ResetVBucket
<1> HIDE DEF o
<1> QED
  BY <1>1, <1>2, <1>3, <1>4, <1>5, RemoveKeeps
-----------------------------------------------------------------------------
(***************************************************************************)
(* Theorems.                                                               *)
(***************************************************************************)
\* All steps of the thread,
LEMMA ThreadStepKeeps ==
  ASSUME IInv, ThreadStep
  PROVE  IInv'
<1>1. ASSUME NEW due \in {future, future \ {"flush"}}, MoveReadyTasks(due) PROVE IInv'
  BY <1>1, MoveReadyKeeps
<1>2. ASSUME NEW t \in Tasks, Run(t) PROVE IInv'
  BY <1>2, RunKeeps
<1>3. CASE ClearCreation
  BY <1>3, ClearCreationKeeps
<1>4. CASE Visit
  BY <1>4, VisitKeeps
<1>5. CASE SnapshotEnds
  BY <1>5, SnapshotEndsKeeps
<1>6. CASE FlushNothing
  BY <1>6, FlushNothingKeeps
<1>7. CASE BeginFlush
  BY <1>7, BeginFlushKeeps
<1>8. CASE Commit
  BY <1>8, CommitKeeps
<1>9. CASE CompleteFlush
  BY <1>9, CompleteFlushKeeps
<1>10. ASSUME NEW v \in VBs, SaveState(v) PROVE IInv'
  BY <1>10, SaveStateKeeps
<1>11. ASSUME NEW v \in VBs, SaveStateFails(v) PROVE IInv'
  BY <1>11, SaveStateFailsKeeps
<1>12. ASSUME NEW v \in VBs, BeginDeletion(v) PROVE IInv'
  BY <1>12, BeginDeletionKeeps
<1>13. ASSUME NEW v \in VBs, DeleteFile(v) PROVE IInv'
  BY <1>13, DeleteFileKeeps
<1>14. ASSUME NEW v \in VBs, DeleteFileFails(v) PROVE IInv'
  BY <1>14, DeleteFileFailsKeeps
<1>15. ASSUME NEW v \in VBs, EndDeletion(v) PROVE IInv'
  BY <1>15, EndDeletionKeeps
<1>16. ASSUME NEW v \in VBs, FlushVBQueue(v) PROVE IInv'
  BY <1>16, FlushVBQueueKeeps
<1>17. ASSUME NEW v \in VBs, FlushOneDelOrSet(v) PROVE IInv'
  BY <1>17, FlushOneKeeps
<1>18. ASSUME NEW v \in VBs, ReadId(v) PROVE IInv'
  BY <1>18, ReadIdKeeps
<1>19. ASSUME NEW v \in VBs, SetId(v) PROVE IInv'
  BY <1>19, SetIdKeeps
<1>20. CASE EndIds
  BY <1>20, EndIdsKeeps
<1> QED
  BY <1>1, <1>2, <1>3, <1>4, <1>5, <1>6, <1>7, <1>8, <1>9, <1>10, <1>11, <1>12, <1>13,
     <1>14, <1>15, <1>16, <1>17, <1>18, <1>19, <1>20
   DEF ThreadStep

\* all steps,
LEMMA NextKeeps ==
  ASSUME IInv, Next
  PROVE  IInv'
<1>1. CASE ThreadStep
  BY <1>1, ThreadStepKeeps
<1>2. ASSUME NEW v \in VBs, Write(v) PROVE IInv'
  BY <1>2, WriteKeeps
<1>3. ASSUME NEW v \in VBs, NewCheckpoint(v) PROVE IInv'
  BY <1>3, NewCheckpointKeeps
<1>4. ASSUME NEW c \in Conns, ConnStep(c) PROVE IInv'
  BY <1>4, InitVBucketKeeps, ScheduleSnapshotKeeps, ScheduleVBDeletionKeeps,
     ResetStateKeeps, ResumeKeeps
   DEF ConnStep
<1>5. ASSUME NEW c \in Conns, NEW v \in VBs, NEW to \in States, SetVBucketState(c, v, to)
      PROVE  IInv'
  BY <1>5, SetVBucketStateKeeps
<1>6. ASSUME NEW c \in Conns, NEW v \in VBs, NEW sync \in BOOLEAN, DelVBucket(c, v, sync)
      PROVE  IInv'
  BY <1>6, DelVBucketKeeps
<1>7. ASSUME NEW c \in Conns, NEW v \in VBs, DelVBucketAgain(c, v) PROVE IInv'
  BY <1>7, DelVBucketAgainKeeps
<1>8. ASSUME NEW c \in Conns, NEW v \in VBs, ResetVBucket(c, v) PROVE IInv'
  BY <1>8, ResetVBucketKeeps
<1>9. CASE Restart
  BY <1>9, RestartKeeps
<1> QED
  BY <1>1, <1>2, <1>3, <1>4, <1>5, <1>6, <1>7, <1>8, <1>9 DEF Next

\* and none.
LEMMA StutterKeeps ==
  ASSUME IInv, UNCHANGED vars
  PROVE  IInv'
<1>1. UNCHANGED <<memory, flags, order, writing, disk, queues, thread, snapshotVBState>>
      /\ UNCHANGED <<used, told, lapse, conn, specific>>
  BY DEF vars, ghosts
<1>2. UsedOK' /\ specific' \subseteq Conns /\ told' \subseteq VBs
  BY <1>1 DEF IInv, Types, UsedOK, SetsOK
<1> QED
  BY <1>1, <1>2, IdleStepKeeps

\* The flags mean what they are to mean, at every point of every call, task and flush,
\* for any number of vbuckets and connections, and through any number of restarts.
THEOREM Invariance == Spec => []IInv
<1>1. Init => IInv
  BY InitHolds
<1>2. IInv /\ [Next]_vars => IInv'
  BY NextKeeps, StutterKeeps
<1> QED
  BY <1>1, <1>2, PTL DEF Spec

\* The variables have their types, and a queued deletion has its flag set.
THEOREM TypeCorrect == Spec => []TypeOK
<1>1. IInv => TypeOK
  <2> SUFFICES ASSUME IInv PROVE TypeOK
    OBVIOUS
  <2>1. Types /\ DeletionFlags
    BY DEF IInv, Shapes
  <2>2. (ready \cup future) \cap VBs \subseteq deletion
    BY <2>1 DEF DeletionFlags, Queued
  <2> QED
    BY <2>1, <2>2
     DEF Types, MapOK, DiskOK, OrderOK, QueuesOK, SetsOK, TypeOK, VBRec, FileRec,
         SavedRec, Orders, VBState, Values
<1> QED
  BY <1>1, Invariance, PTL

\* When all scheduled tasks were run, what is on disk of a vbucket without lapses is what
\* is in memory: its state and its last persisted checkpoint id, or no file.
THEOREM StatesAreSaved == Spec => []SettledOnDisk
<1>1. IInv => SettledOnDisk
  <2> SUFFICES ASSUME IInv, Quiet, NEW v \in VBs, Faultless(v)
               PROVE  Same(v)
    BY DEF SettledOnDisk, Same
  <2>1. ~Queued("high") /\ ~Queued("low") /\ ~Queued(v) /\ thread.task # v
    BY Names DEF Quiet, Queued, IInv, Shapes, ThreadShape, Deleting
  <2>2. v \notin deletion
    BY <2>1 DEF IInv, Shapes, DeletionFlags
  <2>3. ~Due(v) /\ ~Saving(v)
    BY <2>1, <2>2
     DEF Due, SnapshotToCome, Added, Restoring, Saving, At, Quiet, IInv, Shapes,
         ThreadShape,
         Renewing
  <2> QED
    BY <2>2, <2>3 DEF IInv, EachSound, Sound, Settled
<1> QED
  BY <1>1, Invariance, PTL

\* What the file lacks of a vbucket without lapses is queued or in the flusher's hands.
THEOREM WritesAreKept == Spec => []NothingDropped
<1>1. IInv => NothingDropped
  BY DEF IInv, EachSound, Sound, Kept, InHand, NothingDropped
<1> QED
  BY <1>1, Invariance, PTL

\* When all scheduled tasks were run, the file of an empty vbucket is empty.
THEOREM OldItemsAreGone == Spec => []NoOldItems
<1>1. IInv => NoOldItems
  <2> SUFFICES ASSUME IInv, Quiet, NEW v \in VBs, Faultless(v), map[v].value = 0
               PROVE  file[v].value = 0
    BY DEF NoOldItems
  <2>1. ~Queued(v) /\ thread.task # v /\ ~Removing(v)
    BY Names DEF Quiet, Queued, Removing, IInv, Shapes, ThreadShape, Deleting
  <2>2. v \notin deletion
    BY <2>1 DEF IInv, Shapes, DeletionFlags
  <2> QED
    BY <2>1, <2>2 DEF IInv, EachSound, Sound, OldIsDeleted
<1> QED
  BY <1>1, Invariance, PTL

\* What the flusher submits has a file to go to.
THEOREM FilesComeFirst == Spec => []SubmittedHasFile
<1>1. IInv => SubmittedHasFile
  BY DEF IInv, EachSound, Sound, WrittenHasFile, SubmittedHasFile
<1> QED
  BY <1>1, Invariance, PTL

\* The checkpoint id that is kept as persisted is the vbucket's own.
THEOREM IdsAreOwn == Spec => []PersistedIdIsOwn
<1>1. IInv => PersistedIdIsOwn
  BY DEF IInv, EachSound, Sound, IdIsOwn, HeldIdIsOwn, Added, PersistedIdIsOwn
<1> QED
  BY <1>1, Invariance, PTL

\* A deletion that was reported is done, and stays done.
THEOREM ReportedDeletionsHold == Spec => []ToldDeletionDone
<1>1. IInv => ToldDeletionDone
  BY DEF IInv, EachSound, Sound, ToldIsGone, ToldDeletionDone, Types, SetsOK
<1> QED
  BY <1>1, Invariance, PTL
=============================================================================
