-------------------------- MODULE VBucketFlush_proofs --------------------------
(***************************************************************************)
(* For every set of keys, every configuration and all bounds: a value that *)
(* is not on disk is on its way there, a clean one is there, and neither   *)
(* the id that is reported as persisted nor the one that is stored is      *)
(* ahead of what was saved - but for the lapses that the model records.    *)
(*                                                                         *)
(* None of the four is inductive.  They are proved together, as IInv.      *)
(***************************************************************************)
EXTENDS VBucketFlush, TLAPS
-----------------------------------------------------------------------------
(***************************************************************************)
(* The inductive invariant.                                                *)
(***************************************************************************)

\* Checkpoint ids lag behind each other in the order in which they are copied.
IdsOrdered ==
  /\ ids.pre < ids.open /\ ids.persisted < ids.open
  /\ ids.pre = 0 \/ ids.persisted <= ids.pre
  /\ ids.stored <= ids.persisted /\ answered <= ids.persisted

\* So do a key's versions: the file has no newer one than the transaction, which has
\* none newer than the last mutation, and that is the one in memory.  A key that
\* memory does not have was deleted, in the file too.
KeyOrdered(k) ==
  /\ Found(k) => mem[k].ver = latest[k]
  /\ ~Found(k) => disk[k].ver = 0 \/ disk[k].del
  /\ disk[k].ver <= latest[k]
  /\ submitted[k] # NoValue =>
       /\ disk[k].ver <= submitted[k].ver /\ submitted[k].ver <= latest[k]
       /\ submitted[k].ver = latest[k] => submitted[k] = Submission(k)
       /\ ~Found(k) => submitted[k].ver = latest[k]
VersionsOrdered == \A k \in Keys : KeyOrdered(k)

\* Between a commit and the last of its callbacks the file has what was submitted.
CommitOK ==
  /\ At("saved") => \A k \in Keys : submitted[k] # NoValue => disk[k] = submitted[k]
  /\ At("failed") => "failed save" \in lapse

\* The pass that starts is without anything counted, submitted or put back but the
\* deletions that were put back, which are in the queue; a pass that put nothing
\* back has counted all that it flushed.
Uncounted == ~flusher.counted /\ ~At("saved") /\ ~At("failed")
FlusherOK ==
  /\ ~At("flush") => rejectQueue = {}
  /\ At("idle") \/ At("empty") => writing = {}
  /\ At("idle") \/ At("empty") \/ At("begin") \/ At("pass") => ~flusher.counted
  /\ At("flush") /\ ~flusher.counted /\ rejectQueue = {} => writing # {}
  /\ Uncounted => \A k \in Keys : submitted[k] # NoValue => k \in writing \cup rejectQueue

\* What is owed to the disk is ahead of the persistence cursor in a checkpoint that
\* is not yet closed for it, in the flusher's queues, or submitted.
Due(o) ==
  \/ o.chk > ids.pre /\ o.key \in incoming
  \/ o.key \in writing \cup rejectQueue
  \/ submitted[o.key].ver >= o.ver
OwedOK ==
  \A o \in owed :
    /\ o.chk <= ids.open
    /\ disk[o.key].ver < o.ver /\ o.ver <= latest[o.key]
    /\ lapse = {} => Due(o)

\* The persisted id is covered by the open transaction, and by the file when the
\* transaction has nothing of this pass.
ReportsOK ==
  lapse = {} => /\ Covered(ids.persisted)
                /\ Uncounted => Durable(ids.persisted)
                /\ Durable(ids.stored)

IInv ==
  /\ TypeOK /\ IdsOrdered /\ VersionsOrdered /\ CommitOK /\ FlusherOK
  /\ CleanIsSaved /\ ForgottenByLapseOnly
  /\ OwedOK /\ ReportsOK
-----------------------------------------------------------------------------
(***************************************************************************)
(* What the types give, in the form in which the proofs use it.            *)
(***************************************************************************)

MemType == [ver : 0..MaxVersion, del : BOOLEAN, dirty : BOOLEAN,
            id : {"none", "pending", "known"}]
IdsType == [open : 1..MaxCheckpointId, pre : 0..MaxCheckpointId,
            persisted : 0..MaxCheckpointId, stored : 0..MaxCheckpointId]
OwedType == [key : Keys, ver : 1..MaxVersion, chk : 1..MaxCheckpointId]
FlusherType == [pc : {"idle", "empty", "begin", "pass", "flush", "more", "commit",
                      "saved", "failed"},
                pass : {"high", "main"}, phase : 1..2, counted : BOOLEAN]

\* The bounds are numbers.
LEMMA Bounds ==
  /\ MaxVersion \in Nat /\ MaxCheckpointId \in Nat /\ MaxCheckpointId > 1
  /\ WaitedFor \subseteq Nat
  BY LimitsAssumption

Typed ==
  /\ mem \in [Keys -> MemType] /\ latest \in [Keys -> 0..MaxVersion]
  /\ submitted \in [Keys -> Value] /\ disk \in [Keys -> Value]
  /\ \A k \in Keys : /\ mem[k].ver \in Nat /\ latest[k] \in Nat
                     /\ submitted[k].ver \in Nat /\ disk[k].ver \in Nat
                     /\ mem[k].dirty \in BOOLEAN
  /\ \A o \in owed : o.key \in Keys /\ o.ver \in Nat /\ o.ver > 0 /\ o.chk \in Nat
  /\ incoming \subseteq Keys /\ backfillItems \subseteq Keys
  /\ writing \subseteq Keys /\ rejectQueue \subseteq Keys
  /\ ids \in IdsType
  /\ ids.open \in Nat /\ ids.pre \in Nat /\ ids.persisted \in Nat /\ ids.stored \in Nat
  /\ waiter \in Nat /\ answered \in Nat
  /\ flusher \in FlusherType

\* The types as the proofs use them.
LEMMA TypedOK == ASSUME TypeOK PROVE Typed
<1>1. /\ mem \in [Keys -> MemType] /\ latest \in [Keys -> 0..MaxVersion]
      /\ submitted \in [Keys -> Value] /\ disk \in [Keys -> Value]
  BY DEF TypeOK, MemType
<1>2. \A k \in Keys : /\ mem[k].ver \in Nat /\ latest[k] \in Nat
                      /\ submitted[k].ver \in Nat /\ disk[k].ver \in Nat
                      /\ mem[k].dirty \in BOOLEAN
  BY Bounds, <1>1 DEF MemType, Value
<1>3. \A o \in owed : o.key \in Keys /\ o.ver \in Nat /\ o.ver > 0 /\ o.chk \in Nat
  <2>1. owed \subseteq OwedType
    BY DEF TypeOK, OwedType
  <2> QED
    BY <2>1, Bounds DEF OwedType
<1>4. ids \in IdsType /\ flusher \in FlusherType
  BY DEF TypeOK, IdsType, FlusherType
<1>5. ids.open \in Nat /\ ids.pre \in Nat /\ ids.persisted \in Nat /\ ids.stored \in Nat
  BY <1>4, Bounds DEF IdsType
<1>6. waiter \in Nat /\ answered \in Nat
  <2>1. waiter \in WaitedFor \cup {0} /\ answered \in WaitedFor \cup {0}
    BY DEF TypeOK
  <2> QED
    BY <2>1, Bounds
<1>7. /\ incoming \subseteq Keys /\ backfillItems \subseteq Keys
      /\ writing \subseteq Keys /\ rejectQueue \subseteq Keys
  BY DEF TypeOK
<1> QED
  BY <1>1, <1>2, <1>3, <1>4, <1>5, <1>6, <1>7 DEF Typed

\* A part of the invariant that speaks of nothing that changes is kept.
LEMMA Frame ==
  /\ UNCHANGED <<mem, latest, submitted, disk>> /\ VersionsOrdered => VersionsOrdered'
  /\ UNCHANGED <<ids, answered>> /\ IdsOrdered => IdsOrdered'
  /\ UNCHANGED <<mem, disk>> /\ lapse \subseteq lapse' /\ CleanIsSaved => CleanIsSaved'
  /\ UNCHANGED <<flusher, submitted, disk>> /\ lapse \subseteq lapse' /\ CommitOK => CommitOK'
  /\ UNCHANGED <<flusher, writing, rejectQueue, submitted>> /\ FlusherOK => FlusherOK'
  /\ UNCHANGED <<owed, ids, submitted, flusher>> /\ lapse \subseteq lapse' /\ ReportsOK => ReportsOK'
<1>1. UNCHANGED <<mem, latest, submitted, disk>> /\ VersionsOrdered => VersionsOrdered'
  BY Zenon DEF VersionsOrdered, KeyOrdered, Found, Submission
<1>2. UNCHANGED <<ids, answered>> /\ IdsOrdered => IdsOrdered'
  BY DEF IdsOrdered
<1>3. UNCHANGED <<mem, disk>> /\ lapse \subseteq lapse' /\ CleanIsSaved => CleanIsSaved'
  BY Zenon DEF CleanIsSaved, Unsaved, Found
<1>4. UNCHANGED <<flusher, submitted, disk>> /\ lapse \subseteq lapse' /\ CommitOK => CommitOK'
  BY Zenon DEF CommitOK, At
<1>5. UNCHANGED <<flusher, writing, rejectQueue, submitted>> /\ FlusherOK => FlusherOK'
  BY Zenon DEF FlusherOK, Uncounted, At
<1>6. UNCHANGED <<owed, ids, submitted, flusher>> /\ lapse \subseteq lapse' /\ ReportsOK => ReportsOK'
  BY DEF ReportsOK, Covered, Durable, Uncounted, At
<1> QED
  BY <1>1, <1>2, <1>3, <1>4, <1>5, <1>6
-----------------------------------------------------------------------------
(***************************************************************************)
(* Front-end threads.                                                      *)
(***************************************************************************)

\* A mutation is newer than all that exists of the key, and dirty.
LEMMA Mutated ==
  ASSUME Typed, NEW k \in Keys, NEW del \in BOOLEAN, Mutate(k, del)
  PROVE  /\ mem' \in [Keys -> MemType] /\ latest' \in [Keys -> 0..MaxVersion]
         /\ latest'[k] = latest[k] + 1 /\ mem'[k].ver = latest[k] + 1 /\ mem'[k].dirty
         /\ \A j \in Keys : j # k => mem'[j] = mem[j] /\ latest'[j] = latest[j]
<1>1. latest[k] + 1 \in 0..MaxVersion
  BY Bounds DEF Typed, Mutate
<1>2. [ver |-> latest[k] + 1, del |-> del, dirty |-> TRUE, id |-> mem[k].id] \in MemType
  BY <1>1 DEF Typed, MemType
<1> QED
  BY <1>1, <1>2 DEF Typed, Mutate

\* What a set or a deletion does to the versions of a key.
LEMMA MutateOK ==
  ASSUME IInv, Typed, NEW k \in Keys, NEW del \in BOOLEAN, Mutate(k, del),
         UNCHANGED <<submitted, disk>>, lapse \subseteq lapse'
  PROVE  VersionsOrdered' /\ CleanIsSaved'
<1>1. VersionsOrdered'
  <2> SUFFICES ASSUME NEW j \in Keys PROVE KeyOrdered(j)'
    BY DEF VersionsOrdered
  <2>1. KeyOrdered(j)
    BY DEF IInv, VersionsOrdered
  <2>2. CASE j = k
    BY <2>1, <2>2, Mutated DEF KeyOrdered, Found, Submission, Typed, NoValue
  <2>3. CASE j # k
    BY <2>1, <2>3, Mutated DEF KeyOrdered, Found, Submission
  <2> QED
    BY <2>2, <2>3
<1>2. CleanIsSaved'
  <2> SUFFICES ASSUME "expired" \notin lapse', NEW j \in Keys, Found(j)', ~mem'[j].dirty
               PROVE  ~Unsaved(j)'
    BY DEF CleanIsSaved
  <2>1. j # k /\ mem'[j] = mem[j] /\ disk'[j] = disk[j]
    BY Mutated
  <2> QED
    BY <2>1 DEF IInv, CleanIsSaved, Unsaved, Found
<1> QED
  BY <1>1, <1>2

\* A value that is not on disk is still on its way, if its thread goes on to queue the
\* key or the key is queued.
LEMMA MutateForgets ==
  ASSUME IInv, Typed, NEW k \in Keys, NEW del \in BOOLEAN, Mutate(k, del),
         UNCHANGED <<queues, submitted, disk>>, lapse \subseteq lapse',
         \A j \in Keys : j # k => unqueued'[j] = unqueued[j],
         lapse' = {} => unqueued'[k] # "no" \/ Queued(k)
  PROVE  ForgottenByLapseOnly'
<1> SUFFICES ASSUME lapse' = {}, NEW j \in Keys, Unsaved(j)' PROVE OnItsWay(j)'
  BY DEF ForgottenByLapseOnly, NothingForgotten
<1>1. Queued(j)' <=> Queued(j)
  BY DEF Queued, queues
<1>2. CASE j = k
  BY <1>1, <1>2 DEF OnItsWay
<1>3. CASE j # k
  <2>1. mem'[j] = mem[j] /\ latest'[j] = latest[j] /\ unqueued'[j] = unqueued[j]
    BY <1>3, Mutated
  <2>2. OnItsWay(j)
    BY <2>1 DEF IInv, ForgottenByLapseOnly, NothingForgotten, Unsaved, Found
  <2> QED
    BY <1>1, <2>1, <2>2 DEF OnItsWay, Submission, Found
<1> QED
  BY <1>2, <1>3

\* The parts that a mutation, queued in the next step, leaves alone.
LEMMA MutateFrame ==
  ASSUME IInv, Typed, NEW k \in Keys, NEW del \in BOOLEAN, Mutate(k, del),
         UNCHANGED <<queues, submitted, disk, owed, ids, reports, flusher>>, lapse \subseteq lapse'
  PROVE  IdsOrdered' /\ CommitOK' /\ FlusherOK' /\ ReportsOK' /\ OwedOK'
<1>1. IdsOrdered' /\ CommitOK' /\ FlusherOK' /\ ReportsOK'
  BY Frame DEF IInv, queues, reports
<1>2. OwedOK'
  <2> SUFFICES ASSUME NEW o \in owed
               PROVE  /\ o.chk <= ids.open /\ disk[o.key].ver < o.ver /\ o.ver <= latest'[o.key]
                      /\ lapse' = {} => Due(o)'
    BY DEF OwedOK
  <2>1. o.key \in Keys /\ latest[o.key] \in Nat /\ o.ver \in Nat
    BY DEF Typed
  <2>2. latest'[o.key] \in {latest[o.key], latest[o.key] + 1}
    BY <2>1, Mutated
  <2>3. Due(o)' <=> Due(o)
    BY DEF Due, queues
  <2> QED
    BY <2>1, <2>2, <2>3 DEF IInv, OwedOK
<1> QED
  BY <1>1, <1>2

\* A client's set.
LEMMA SetOK ==
  ASSUME IInv, NEW k \in Keys, Set(k)
  PROVE  IInv'
<1>1. Typed /\ Mutate(k, FALSE)
  BY TypedOK DEF IInv, Set
<1>2. VersionsOrdered' /\ CleanIsSaved' /\ IdsOrdered' /\ CommitOK' /\ FlusherOK' /\ ReportsOK' /\ OwedOK'
  BY <1>1, MutateOK, MutateFrame DEF Set
<1>3. TypeOK'
  BY <1>1, Mutated DEF Set, IInv, TypeOK, MemType, queues, reports
<1>4. ForgottenByLapseOnly'
  BY <1>1, MutateForgets DEF Set, IInv, TypeOK
<1> QED
  BY <1>2, <1>3, <1>4 DEF IInv

\* A deletion is queued.
LEMMA QueuedDeletion ==
  ASSUME TypeOK, NEW k \in Keys, QueueDeletion(k)
  PROVE  /\ unqueued' \in [Keys -> {"no", "checkpoint", "backfill"}] /\ unqueued'[k] # "no"
         /\ \A j \in Keys : j # k => unqueued'[j] = unqueued[j]
<1>1. PICK queue \in {"checkpoint", "backfill"} : unqueued' = [unqueued EXCEPT ![k] = queue]
  BY DEF QueueDeletion
<1> QED
  BY <1>1 DEF TypeOK

\* A deletion of a value.
LEMMA DeleteOK ==
  ASSUME IInv, NEW k \in Keys, Delete(k)
  PROVE  IInv'
<1>1. Typed /\ Mutate(k, TRUE) /\ TypeOK
  BY TypedOK DEF IInv, Delete
<1>2. VersionsOrdered' /\ CleanIsSaved' /\ IdsOrdered' /\ CommitOK' /\ FlusherOK' /\ ReportsOK' /\ OwedOK'
  BY <1>1, MutateOK, MutateFrame DEF Delete
<1>3. /\ unqueued' \in [Keys -> {"no", "checkpoint", "backfill"}] /\ unqueued'[k] # "no"
      /\ \A j \in Keys : j # k => unqueued'[j] = unqueued[j]
  BY <1>1, QueuedDeletion DEF Delete
<1>4. TypeOK'
  BY <1>1, <1>3, Mutated DEF Delete, TypeOK, MemType, queues, reports
<1>5. ForgottenByLapseOnly'
  BY <1>1, <1>3, MutateForgets DEF Delete
<1> QED
  BY <1>2, <1>4, <1>5 DEF IInv

\* A deletion of nothing: what was on its way still is.
LEMMA DeleteMissingOK ==
  ASSUME IInv, NEW k \in Keys, DeleteMissing(k)
  PROVE  IInv'
<1>1. TypeOK /\ unqueued[k] = "no"
  BY DEF IInv, DeleteMissing
<1>2. UNCHANGED <<mem, latest, incoming, backfillItems, writing, rejectQueue, submitted, disk,
                  owed, ids, waiter, answered, flusher, lapse>>
  BY DEF DeleteMissing, queues, reports
<1>3. /\ unqueued' \in [Keys -> {"no", "checkpoint", "backfill"}] /\ unqueued'[k] # "no"
      /\ \A j \in Keys : j # k => unqueued'[j] = unqueued[j]
  BY <1>1, QueuedDeletion DEF DeleteMissing
<1>4. /\ VersionsOrdered' /\ IdsOrdered' /\ CleanIsSaved' /\ CommitOK' /\ FlusherOK' /\ ReportsOK'
  BY <1>2, Frame DEF IInv
<1>5. OwedOK'
  BY <1>2, Zenon DEF IInv, OwedOK, Due
<1>6. TypeOK'
  BY <1>1, <1>2, <1>3 DEF TypeOK
<1>7. ForgottenByLapseOnly'
  <2> SUFFICES ASSUME lapse = {}, NEW j \in Keys, Unsaved(j) PROVE OnItsWay(j)'
    BY <1>2 DEF ForgottenByLapseOnly, NothingForgotten, Unsaved, Found
  <2>1. OnItsWay(j)
    BY DEF IInv, ForgottenByLapseOnly, NothingForgotten
  <2>2. unqueued[j] # "no" => unqueued'[j] # "no"
    BY <1>1, <1>3
  <2> QED
    BY <1>2, <2>1, <2>2 DEF OnItsWay, Queued, Submission, Found
<1> QED
  BY <1>4, <1>5, <1>6, <1>7 DEF IInv

\* An item of a backfill.
LEMMA BackfillItemOK ==
  ASSUME IInv, NEW k \in Keys, BackfillItem(k)
  PROVE  IInv'
<1>1. Typed /\ Mutate(k, FALSE)
  BY TypedOK DEF IInv, BackfillItem
<1>2. lapse \subseteq lapse' /\ (lapse' = {} => ~(mem[k].dirty /\ ~Queued(k)))
  BY DEF BackfillItem, Lapse
<1>3. VersionsOrdered' /\ CleanIsSaved' /\ IdsOrdered' /\ CommitOK' /\ FlusherOK' /\ ReportsOK' /\ OwedOK'
  BY <1>1, <1>2, MutateOK, MutateFrame DEF BackfillItem
<1>4. TypeOK'
  <2>1. lapse' \subseteq {"backfill", "failed save", "expired"}
    BY DEF BackfillItem, Lapse, IInv, TypeOK
  <2> QED
    BY <1>1, <2>1, Mutated DEF BackfillItem, BackfillQueue, IInv, TypeOK, MemType, queues, reports
<1>5. ForgottenByLapseOnly'
  <2>1. lapse' = {} => unqueued'[k] # "no" \/ Queued(k)
    BY <1>2 DEF BackfillItem, BackfillQueue, IInv, TypeOK
  <2> QED
    BY <1>1, <1>2, <2>1, MutateForgets DEF BackfillItem, IInv, TypeOK
<1> QED
  BY <1>3, <1>4, <1>5 DEF IInv

\* The mutation reaches the queue.
LEMMA QueueDirtyOK ==
  ASSUME IInv, NEW k \in Keys, QueueDirty(k)
  PROVE  IInv'
<1> DEFINE new == [key |-> k, ver |-> latest[k], chk |-> ids.open]
<1>1. Typed
  BY TypedOK DEF IInv
<1>2. VersionsOrdered' /\ IdsOrdered' /\ CleanIsSaved' /\ CommitOK' /\ FlusherOK'
  BY Frame DEF QueueDirty, IInv, reports
<1>3. owed' \subseteq owed \cup {new} /\ (new \in owed' => new \in owed \/ disk[k].ver < latest[k])
  BY <1>1 DEF QueueDirty, Typed
<1>4. incoming \subseteq incoming' /\ (new \in owed' => new \in owed \/ k \in incoming')
  BY <1>3 DEF QueueDirty
<1>5. TypeOK'
  <2>1. new \in owed' => new \in OwedType
    <3>1. CASE new \in owed
      BY <3>1 DEF IInv, TypeOK, OwedType
    <3>2. CASE disk[k].ver < latest[k]
      <4>1. latest[k] \in 1..MaxVersion /\ ids.open \in 1..MaxCheckpointId
        BY <1>1, <3>2, Bounds DEF Typed, IdsType
      <4> QED
        BY <4>1 DEF OwedType
    <3> QED
      BY <1>3, <3>1, <3>2
  <2>2. owed' \subseteq OwedType
    BY <1>3, <2>1 DEF IInv, TypeOK, OwedType
  <2>3. incoming' \subseteq Keys /\ backfillItems' \subseteq Keys
    BY <1>1 DEF QueueDirty, Typed
  <2>4. unqueued' \in [Keys -> {"no", "checkpoint", "backfill"}]
    BY DEF QueueDirty, IInv, TypeOK
  <2>5. \A q \in {incoming', backfillItems', writing', rejectQueue'} : q \subseteq Keys
    BY <1>1, <2>3 DEF QueueDirty, Typed
  <2> QED
    BY <2>2, <2>4, <2>5 DEF QueueDirty, IInv, TypeOK, OwedType, reports
<1>6. ForgottenByLapseOnly'
  <2> SUFFICES ASSUME lapse' = {}, NEW j \in Keys, Unsaved(j)' PROVE OnItsWay(j)'
    BY DEF ForgottenByLapseOnly, NothingForgotten
  <2>1. OnItsWay(j)
    BY DEF QueueDirty, IInv, ForgottenByLapseOnly, NothingForgotten, Unsaved, Found
  <2>2. CASE j = k
    BY <2>2 DEF QueueDirty, OnItsWay, Queued
  <2>3. CASE j # k
    BY <2>1, <2>3 DEF QueueDirty, OnItsWay, Queued, Submission, Found, IInv, TypeOK
  <2> QED
    BY <2>2, <2>3
<1>7. \A o \in owed' : o \in owed \/ (o.chk = ids.open /\ o.key \in incoming' /\ o.key = k
                                        /\ disk[k].ver < o.ver /\ o.ver = latest[k])
  BY <1>3, <1>4
<1>8. OwedOK'
  <2> SUFFICES ASSUME NEW o \in owed'
               PROVE  /\ o.chk <= ids.open /\ disk[o.key].ver < o.ver /\ o.ver <= latest[o.key]
                      /\ lapse = {} => Due(o)'
    BY DEF OwedOK, QueueDirty
  <2>1. CASE o \in owed
    BY <1>4, <2>1 DEF IInv, OwedOK, Due, QueueDirty
  <2>2. CASE o \notin owed
    BY <1>1, <1>7, <2>2 DEF IInv, IdsOrdered, Due, QueueDirty, Typed
  <2> QED
    BY <2>1, <2>2
<1>9. ReportsOK'
  <2> SUFFICES ASSUME lapse = {}
               PROVE  Covered(ids.persisted)' /\ (Uncounted => Durable(ids.persisted)')
                      /\ Durable(ids.stored)'
    BY DEF ReportsOK, QueueDirty, Uncounted, At
  <2>1. \A o \in owed' : o \in owed \/ (o.chk > ids.persisted /\ o.chk > ids.stored)
    BY <1>1, <1>7 DEF IInv, IdsOrdered, Typed
  <2> QED
    BY <2>1 DEF IInv, ReportsOK, Covered, Durable, QueueDirty
<1> QED
  BY <1>2, <1>5, <1>6, <1>8, <1>9 DEF IInv

\* Types when nothing but checkpoint ids, answers and the flusher's place changes.
LEMMA TypeFrame ==
  ASSUME TypeOK, UNCHANGED <<mem, latest, unqueued, submitted, disk, owed, lapse>>,
         \A q \in {incoming', backfillItems', writing', rejectQueue'} : q \subseteq Keys,
         ids' \in IdsType, waiter' \in WaitedFor \cup {0}, answered' \in WaitedFor \cup {0},
         flusher' \in FlusherType
  PROVE  TypeOK'
  BY DEF TypeOK, IdsType, FlusherType

\* Nothing is forgotten when keys only move between queues.
LEMMA MoveForgets ==
  ASSUME IInv, UNCHANGED <<mem, latest, unqueued, submitted, disk>>, lapse \subseteq lapse',
         \A k \in Keys : Queued(k) => Queued(k)'
  PROVE  ForgottenByLapseOnly'
<1> SUFFICES ASSUME lapse' = {}, NEW j \in Keys, Unsaved(j)' PROVE OnItsWay(j)'
  BY DEF ForgottenByLapseOnly, NothingForgotten
<1>1. OnItsWay(j)
  BY DEF IInv, ForgottenByLapseOnly, NothingForgotten, Unsaved, Found
<1> QED
  BY <1>1 DEF OnItsWay, Submission, Found

\* The open checkpoint is closed, with what is ahead of the cursor in it.
LEMMA NewCheckpointOK ==
  ASSUME IInv, NewCheckpoint
  PROVE  IInv'
<1>1. Typed
  BY TypedOK DEF IInv
<1>2. VersionsOrdered' /\ CleanIsSaved' /\ CommitOK' /\ FlusherOK'
  BY Frame DEF NewCheckpoint, IInv, queues
<1>3. /\ ids'.open = ids.open + 1 /\ ids'.persisted = ids.persisted /\ ids'.stored = ids.stored
      /\ \/ ids'.pre = ids.pre
         \/ incoming = {} /\ ids'.pre = ids.open
  <2>0. ids \in IdsType
    BY <1>1 DEF Typed
  <2>1. CASE ids' = [ids EXCEPT !.open = @ + 1]
    BY <2>0, <2>1 DEF IdsType
  <2>2. CASE incoming = {} /\ ids' = [ids EXCEPT !.open = @ + 1, !.pre = ids.open]
    BY <2>0, <2>2 DEF IdsType
  <2> QED
    BY <2>1, <2>2 DEF NewCheckpoint
<1>4. TypeOK'
  <2>1. ids.open + 1 \in 1..MaxCheckpointId /\ ids.open \in 0..MaxCheckpointId
    BY <1>1, Bounds DEF NewCheckpoint, Typed
  <2>2. ids' \in IdsType
    BY <1>1, <2>1 DEF NewCheckpoint, Typed, IdsType
  <2> QED
    BY <2>2, TypeFrame DEF NewCheckpoint, IInv, TypeOK, queues, reports, FlusherType
<1>5. IdsOrdered'
  BY <1>1, <1>3 DEF IInv, IdsOrdered, Typed, NewCheckpoint, reports
<1>6. ForgottenByLapseOnly'
  BY MoveForgets DEF NewCheckpoint, queues, Queued
<1>7. OwedOK'
  BY <1>1, <1>3 DEF IInv, OwedOK, Due, Typed, NewCheckpoint, queues
<1>8. ReportsOK'
  BY <1>3 DEF IInv, ReportsOK, Covered, Durable, Uncounted, At, NewCheckpoint
<1> QED
  BY <1>2, <1>4, <1>5, <1>6, <1>7, <1>8 DEF IInv

\* A client asks to be told when a checkpoint is persisted.
LEMMA CheckpointPersistenceOK ==
  ASSUME IInv, CheckpointPersistence
  PROVE  IInv'
<1>1. Typed
  BY TypedOK DEF IInv
<1>2. VersionsOrdered' /\ CleanIsSaved' /\ CommitOK' /\ FlusherOK' /\ ReportsOK'
  BY Frame DEF CheckpointPersistence, IInv, queues
<1>3. ids.persisted % NarrowModulus <= ids.persisted
  <2>1. \A n \in Nat, m \in Nat : m > 0 => n % m <= n
    OBVIOUS
  <2> QED
    BY <1>1, <2>1, WidthAssumption DEF Typed
<1>4. answered' = answered \/ (\E c \in WaitedFor : answered' \in {answered, c} /\ c <= ids.persisted)
  BY <1>1, <1>3, Bounds, WidthAssumption DEF CheckpointPersistence, IsReported, MaxOf, Typed
<1>5. waiter' \in WaitedFor \cup {0} /\ answered' \in WaitedFor \cup {0}
  BY <1>4 DEF CheckpointPersistence, IInv, TypeOK
<1>6. TypeOK'
  BY <1>1, <1>5, TypeFrame DEF CheckpointPersistence, IInv, TypeOK, queues, IdsType, FlusherType
<1>7. IdsOrdered'
  BY <1>1, <1>4 DEF IInv, IdsOrdered, CheckpointPersistence
<1>8. ForgottenByLapseOnly'
  BY MoveForgets DEF CheckpointPersistence, queues, Queued
<1>9. OwedOK'
  BY DEF IInv, OwedOK, Due, CheckpointPersistence, queues
<1> QED
  BY <1>2, <1>6, <1>7, <1>8, <1>9 DEF IInv
-----------------------------------------------------------------------------
(***************************************************************************)
(* The flusher: what it reports, and how it begins.                        *)
(***************************************************************************)

\* Steps of the flusher that only take it to another place.
LEMMA PlaceOK ==
  ASSUME IInv, FlusherOK', CommitOK', Uncounted' => Uncounted,
         UNCHANGED <<mem, latest, unqueued, queues, submitted, disk, owed, ids, answered, lapse>>,
         waiter' \in {waiter, 0}, flusher' \in FlusherType
  PROVE  IInv'
<1>1. VersionsOrdered' /\ CleanIsSaved' /\ IdsOrdered'
  BY Frame DEF IInv
<1>2. TypeOK'
  BY TypedOK, TypeFrame DEF IInv, TypeOK, queues, IdsType
<1>3. ForgottenByLapseOnly'
  BY MoveForgets DEF queues, Queued
<1>4. OwedOK'
  BY DEF IInv, OwedOK, Due, queues
<1>5. ReportsOK'
  BY DEF IInv, ReportsOK, Covered, Durable
<1> QED
  BY <1>1, <1>2, <1>3, <1>4, <1>5 DEF IInv

\* Steps between two places of doFlush that touch no queue.
LEMMA PlacesOK ==
  ASSUME IInv,
         BeginEmpty \/ BeginPass \/ PassNothing \/ PassSome
  PROVE  IInv'
<1>1. flusher \in FlusherType
  BY DEF IInv, TypeOK, FlusherType
<1>2. CASE BeginEmpty
  <2>1. flusher' \in FlusherType
    BY <1>1, <1>2 DEF BeginEmpty, GoTo, FlusherType
  <2>2. FlusherOK' /\ CommitOK' /\ (Uncounted' => Uncounted)
    BY <1>1, <1>2 DEF BeginEmpty, DiskQueueEmpty, GoTo, At, FlusherType, queues, IInv, FlusherOK, CommitOK, Uncounted
  <2> QED
    BY <1>2, <2>1, <2>2, PlaceOK DEF BeginEmpty, reports
<1>3. CASE BeginPass
  <2>1. flusher' \in FlusherType
    BY <1>1, <1>3 DEF BeginPass, FlusherType
  <2>2. FlusherOK' /\ CommitOK' /\ (Uncounted' => Uncounted)
    BY <1>1, <1>3 DEF BeginPass, At, FlusherType, queues, IInv, FlusherOK, CommitOK, Uncounted
  <2> QED
    BY <1>3, <2>1, <2>2, PlaceOK DEF BeginPass, reports
<1>4. CASE PassNothing
  <2>1. flusher' \in FlusherType
    BY <1>1, <1>4 DEF PassNothing, GoTo, FlusherType
  <2>2. FlusherOK' /\ CommitOK' /\ (Uncounted' => Uncounted)
    BY <1>1, <1>4 DEF PassNothing, GoTo, At, FlusherType, queues, IInv, FlusherOK, CommitOK, Uncounted
  <2> QED
    BY <1>4, <2>1, <2>2, PlaceOK DEF PassNothing
<1>5. CASE PassSome
  <2>1. flusher' \in FlusherType
    BY <1>1, <1>5 DEF PassSome, GoTo, FlusherType
  <2>2. FlusherOK' /\ CommitOK' /\ (Uncounted' => Uncounted)
    BY <1>1, <1>5 DEF PassSome, GoTo, At, FlusherType, queues, IInv, FlusherOK, CommitOK, Uncounted
  <2> QED
    BY <1>5, <2>1, <2>2, PlaceOK DEF PassSome, reports
<1> QED
  BY <1>2, <1>3, <1>4, <1>5

\* A client that is answered waited for a checkpoint up to c.
LEMMA AnswerType ==
  ASSUME TypeOK, NEW c \in Nat, AnswerUpTo(c)
  PROVE  /\ waiter' \in WaitedFor \cup {0} /\ answered' \in WaitedFor \cup {0}
         /\ answered' = answered \/ answered' <= c
<1>1. waiter \in WaitedFor \cup {0} /\ answered \in WaitedFor \cup {0}
  BY DEF TypeOK
<1>2. waiter \in Nat /\ answered \in Nat
  BY <1>1, Bounds
<1> QED
  BY <1>1, <1>2 DEF AnswerUpTo, MaxOf, reports

\* The cursor's id becomes the persisted one, and whoever waits for it is answered.
LEMMA ReportOK ==
  ASSUME IInv, NEW c \in Nat, AnswerUpTo(c),
         \/ ids' = ids /\ c = ids.persisted
         \/ ids' = WithPersisted /\ c \in {ids.pre, ids'.persisted}
  PROVE  /\ ids' \in IdsType /\ ids'.persisted \in {ids.persisted, ids.pre}
         /\ ids'.pre = ids.pre /\ ids'.open = ids.open /\ ids'.stored = ids.stored
         /\ IdsOrdered'
<1>1. Typed
  BY TypedOK DEF IInv
<1>2. ids \in IdsType
  BY <1>1 DEF Typed
<1>3. ids' = ids \/ (ids.pre > 0 /\ ids' = [ids EXCEPT !.persisted = ids.pre])
  BY <1>1, <1>2 DEF WithPersisted, Typed, IdsType
<1>4. /\ ids' \in IdsType
      /\ ids'.pre = ids.pre /\ ids'.open = ids.open /\ ids'.stored = ids.stored
      /\ \/ ids'.persisted = ids.persisted
         \/ ids.pre > 0 /\ ids'.persisted = ids.pre
  BY <1>2, <1>3 DEF IdsType
<1>5. c <= ids'.persisted
  BY <1>1, <1>2, <1>4 DEF WithPersisted, Typed, IdsType
<1>6. answered' = answered \/ answered' <= c
  BY AnswerType DEF IInv
<1>7. IdsOrdered'
  <2>1. answered' \in Nat
    <3>1. answered' \in WaitedFor \cup {0}
      BY AnswerType DEF IInv
    <3> QED
      BY <3>1, Bounds
  <2> QED
    BY <1>1, <1>4, <1>5, <1>6, <2>1 DEF IInv, IdsOrdered, Typed
<1> QED
  BY <1>4, <1>7

\* Clients are told when nothing is left to flush.
LEMMA ReportWhenEmptyOK ==
  ASSUME IInv, ReportWhenEmpty
  PROVE  IInv'
<1>1. Typed
  BY TypedOK DEF IInv
<1>2. /\ ids' \in IdsType /\ ids'.persisted \in {ids.persisted, ids.pre}
      /\ ids'.pre = ids.pre /\ ids'.open = ids.open /\ ids'.stored = ids.stored
      /\ IdsOrdered'
  BY <1>1, ReportOK DEF ReportWhenEmpty, Typed
<1>3. flusher' \in FlusherType
  BY <1>1 DEF ReportWhenEmpty, GoTo, FlusherType, Typed
<1>4. waiter' \in WaitedFor \cup {0} /\ answered' \in WaitedFor \cup {0}
  BY <1>1, AnswerType DEF ReportWhenEmpty, IInv, Typed
<1>5. TypeOK'
  BY <1>1, <1>2, <1>3, <1>4, TypeFrame DEF ReportWhenEmpty, IInv, Typed, queues
<1>6. VersionsOrdered' /\ CleanIsSaved'
  BY Frame DEF IInv, ReportWhenEmpty
<1>7. CommitOK' /\ FlusherOK' /\ writing = {} /\ rejectQueue = {} /\ Uncounted /\ Uncounted'
  BY <1>1 DEF ReportWhenEmpty, GoTo, At, queues, IInv, FlusherOK, CommitOK, Uncounted, Typed, FlusherType
<1>8. ForgottenByLapseOnly'
  BY MoveForgets DEF ReportWhenEmpty, queues, Queued
<1>9. OwedOK'
  BY <1>2 DEF IInv, OwedOK, Due, ReportWhenEmpty, queues
<1>10. ReportsOK'
  <2> SUFFICES ASSUME lapse = {} PROVE Durable(ids'.persisted) /\ Durable(ids.stored)
    BY <1>2, <1>7 DEF ReportsOK, Durable, Covered, ReportWhenEmpty
  <2>1. \A k \in Keys : submitted[k].ver = 0
    BY <1>7 DEF IInv, FlusherOK, NoValue
  <2>2. Durable(ids.pre)
    BY <1>1, <1>7, <2>1 DEF IInv, OwedOK, Due, Durable, Typed
  <2> QED
    BY <1>2, <1>7, <2>2 DEF IInv, ReportsOK
<1> QED
  BY <1>2, <1>5, <1>6, <1>7, <1>8, <1>9, <1>10 DEF IInv

\* All that is ahead of the cursor goes to the outgoing queue, and the cursor to the
\* open checkpoint.
LEMMA TakeAllOK ==
  ASSUME IInv, TakeAll, FlusherOK', CommitOK', Uncounted' => Uncounted,
         UNCHANGED <<mem, latest, unqueued, submitted, disk, owed, reports, lapse>>,
         flusher' \in FlusherType
  PROVE  IInv'
<1>1. Typed
  BY TypedOK DEF IInv
<1>2. ids \in IdsType
  BY <1>1 DEF Typed
<1>3. /\ ids' \in IdsType
      /\ ids'.open = ids.open /\ ids'.pre = ids.open - 1
      /\ ids'.persisted = ids.persisted /\ ids'.stored = ids.stored
  <2>1. ids.open - 1 \in 0..MaxCheckpointId
    BY <1>2, Bounds DEF IdsType
  <2> QED
    BY <1>2, <2>1 DEF TakeAll, IdsType
<1>4. TypeOK'
  <2>1. \A q \in {incoming', backfillItems', writing', rejectQueue'} : q \subseteq Keys
    BY <1>1 DEF TakeAll, Typed
  <2>2. waiter' \in WaitedFor \cup {0} /\ answered' \in WaitedFor \cup {0}
    BY DEF IInv, TypeOK, reports
  <2> QED
    BY <1>3, <2>1, <2>2, TypeFrame DEF IInv
<1>5. VersionsOrdered' /\ CleanIsSaved'
  BY Frame DEF IInv
<1>6. IdsOrdered'
  BY <1>1, <1>3 DEF IInv, IdsOrdered, Typed, reports
<1>7. ForgottenByLapseOnly'
  BY MoveForgets DEF TakeAll, Queued
<1>8. OwedOK'
  BY <1>3 DEF IInv, OwedOK, Due, TakeAll
<1>9. ReportsOK'
  BY <1>3 DEF IInv, ReportsOK, Covered, Durable
<1> QED
  BY <1>4, <1>5, <1>6, <1>7, <1>8, <1>9 DEF IInv

\* The flusher takes the outgoing items of the vbucket.
LEMMA TakesOK ==
  ASSUME IInv, Begin \/ TakeMore
  PROVE  IInv'
<1>1. flusher \in FlusherType
  BY DEF IInv, TypeOK, FlusherType
<1>2. CASE Begin
  <2>1. flusher' \in FlusherType
    <3>1. flusher' = [pc |-> "begin", pass |-> "main", phase |-> 1, counted |-> FALSE]
      BY <1>2 DEF Begin, Idle
    <3> QED
      BY <3>1 DEF FlusherType
  <2>2. FlusherOK' /\ CommitOK' /\ (Uncounted' => Uncounted)
    BY <1>1, <1>2 DEF Begin, TakeAll, Idle, At, FlusherType, IInv, FlusherOK, CommitOK, Uncounted
  <2> QED
    BY <1>2, <2>1, <2>2, TakeAllOK DEF Begin
<1>3. CASE TakeMore
  <2>1. flusher' \in FlusherType
    BY <1>1, <1>3 DEF TakeMore, GoTo, FlusherType
  <2>2. CommitOK' /\ (Uncounted' => Uncounted)
    BY <1>1, <1>3 DEF TakeMore, GoTo, At, FlusherType, CommitOK, Uncounted
  <2>3. CASE writing = {}
    <3>1. TakeAll
      BY <1>3, <2>3 DEF TakeMore
    <3>2. FlusherOK'
      BY <1>1, <1>3, <3>1 DEF TakeMore, TakeAll, GoTo, At, FlusherType, IInv, FlusherOK, Uncounted
    <3> QED
      BY <1>3, <2>1, <2>2, <3>1, <3>2, TakeAllOK DEF TakeMore
  <2>4. CASE writing # {}
    <3>1. FlusherOK'
      BY <1>1, <1>3, <2>4 DEF TakeMore, GoTo, At, FlusherType, IInv, FlusherOK, Uncounted, queues
    <3> QED
      BY <1>3, <2>1, <2>2, <2>4, <3>1, PlaceOK DEF TakeMore, reports
  <2> QED
    BY <2>3, <2>4
<1> QED
  BY <1>2, <1>3
-----------------------------------------------------------------------------
(***************************************************************************)
(* The flusher: a key at a time.                                           *)
(***************************************************************************)

\* A step that changes a value's flags only.
SameValues == \A k \in Keys : mem'[k].ver = mem[k].ver /\ mem'[k].del = mem[k].del

\* What is submitted is the last mutation.
LEMMA SubmissionOK ==
  ASSUME IInv, Typed, NEW k \in Keys, SameValues, UNCHANGED <<latest, disk>>,
         submitted' \in {submitted, [submitted EXCEPT ![k] = Submission(k)]}
  PROVE  /\ VersionsOrdered' /\ submitted' \in [Keys -> Value]
         /\ \A j \in Keys : j # k => submitted'[j] = submitted[j]
         /\ \A j \in Keys : submitted'[j].ver \in Nat /\ submitted'[j].ver >= submitted[j].ver
         /\ submitted' = submitted \/ submitted'[k].ver = latest[k]
<1>1. Submission(k) \in Value /\ Submission(k).ver = latest[k]
  BY DEF Typed, Submission, Value, MemType, IInv, VersionsOrdered, KeyOrdered
<1>2. \A j \in Keys : KeyOrdered(j)
  BY DEF IInv, VersionsOrdered
<1>3. submitted[k].ver <= latest[k]
  BY <1>2 DEF KeyOrdered, NoValue, Typed
<1>4. \A j \in Keys : Submission(j)' = Submission(j) /\ (Found(j)' <=> Found(j))
  BY DEF SameValues, Submission, Found
<1>5. \A j \in Keys : \/ submitted'[j] = submitted[j]
                      \/ j = k /\ submitted'[j] = Submission(k)
  BY DEF Typed
<1>6. VersionsOrdered'
  <2> SUFFICES ASSUME NEW j \in Keys PROVE KeyOrdered(j)'
    BY DEF VersionsOrdered
  <2>1. mem'[j].ver = mem[j].ver
    BY DEF SameValues
  <2>2. CASE submitted'[j] = submitted[j]
    BY <1>2, <1>4, <2>1, <2>2 DEF KeyOrdered
  <2>3. CASE j = k /\ submitted'[j] = Submission(k)
    BY <1>1, <1>2, <1>4, <2>1, <2>3 DEF KeyOrdered, Typed
  <2> QED
    BY <1>5, <2>2, <2>3
<1>7. submitted' \in [Keys -> Value]
  BY <1>1 DEF Typed
<1>8. \A j \in Keys : submitted'[j].ver \in Nat /\ submitted'[j].ver >= submitted[j].ver
  BY <1>1, <1>3, <1>5 DEF Typed
<1> QED
  BY <1>1, <1>5, <1>6, <1>7, <1>8 DEF Typed

\* A value's flag that says whether the file has its row.
LEMMA IdType ==
  ASSUME Typed, NEW k \in Keys, NEW id \in {"none", "pending", "known"},
         mem' \in {mem, [mem EXCEPT ![k].id = id]}
  PROVE  /\ mem' \in [Keys -> MemType] /\ SameValues
         /\ \A j \in Keys : mem'[j].dirty = mem[j].dirty
<1>1. mem \in [Keys -> MemType]
  BY DEF Typed
<1> QED
  BY <1>1 DEF MemType, SameValues

\* Types when a key is flushed.
LEMMA FlushType ==
  ASSUME TypeOK, NEW k \in Keys, FlushOne(k), mem' \in [Keys -> MemType],
         submitted' \in [Keys -> Value], rejectQueue' \subseteq Keys,
         lapse' \subseteq {"backfill", "failed save", "expired"}, flusher' \in FlusherType
  PROVE  TypeOK'
<1>1. \A q \in {incoming', backfillItems', writing', rejectQueue'} : q \subseteq Keys
  BY DEF TypeOK, FlushOne
<1> QED
  BY <1>1 DEF TypeOK, FlushOne, MemType, FlusherType, reports

\* A key that is put back is in the reject queue.
LEMMA RejectOneOK ==
  ASSUME IInv, NEW k \in Keys, RejectOne(k)
  PROVE  IInv'
<1>1. Typed
  BY TypedOK DEF IInv
<1>2. /\ writing' = writing \ {k} /\ rejectQueue' = rejectQueue \cup {k} /\ At("flush")
      /\ UNCHANGED <<latest, unqueued, incoming, backfillItems, disk, owed, ids, reports, flusher, lapse>>
  BY DEF RejectOne, FlushOne, Reject
<1>3. mem' \in {mem, [mem EXCEPT ![k].id = "none"]}
  BY <1>1 DEF RejectOne, Reject, Typed, MemType
<1>4. submitted' \in {submitted, [submitted EXCEPT ![k] = Submission(k)]}
  BY DEF RejectOne, Reject
<1>5. /\ mem' \in [Keys -> MemType] /\ SameValues
      /\ \A j \in Keys : mem'[j].dirty = mem[j].dirty
  BY <1>1, <1>3, IdType
<1>6. /\ VersionsOrdered' /\ submitted' \in [Keys -> Value]
      /\ \A j \in Keys : j # k => submitted'[j] = submitted[j]
      /\ \A j \in Keys : submitted'[j].ver \in Nat /\ submitted'[j].ver >= submitted[j].ver
  BY <1>1, <1>2, <1>4, <1>5, SubmissionOK
<1>7. TypeOK'
  BY <1>1, <1>2, <1>5, <1>6, FlushType, ZenonT(60) DEF RejectOne, IInv, TypeOK, Typed
<1>8. IdsOrdered'
  BY <1>2, Frame DEF IInv, reports
<1>9. CommitOK' /\ FlusherOK'
  BY <1>2, <1>6 DEF IInv, CommitOK, FlusherOK, Uncounted, At
<1>10. CleanIsSaved'
  BY <1>2, <1>5 DEF IInv, CleanIsSaved, Unsaved, Found, SameValues
<1>11. ForgottenByLapseOnly'
  <2> SUFFICES ASSUME lapse' = {}, NEW j \in Keys, Unsaved(j)' PROVE OnItsWay(j)'
    BY DEF ForgottenByLapseOnly, NothingForgotten
  <2>1. CASE j = k
    BY <1>2, <2>1 DEF OnItsWay, Queued
  <2>2. CASE j # k
    <3>1. OnItsWay(j)
      BY <1>2, <1>5 DEF IInv, ForgottenByLapseOnly, NothingForgotten, Unsaved, Found, SameValues
    <3> QED
      BY <1>2, <1>5, <1>6, <2>2, <3>1 DEF OnItsWay, Queued, Submission, Found, SameValues
  <2> QED
    BY <2>1, <2>2
<1>12. \A o \in owed : o.key \in Keys /\ (Due(o) => Due(o)')
  BY <1>1, <1>2, <1>6 DEF Due, Typed
<1>13. OwedOK'
  BY <1>2, <1>12 DEF IInv, OwedOK
<1>14. ReportsOK'
  <2>1. \A o \in owed : submitted'[o.key].ver \in Nat /\ submitted'[o.key].ver >= submitted[o.key].ver
    BY <1>1, <1>6 DEF Typed
  <2> QED
    BY <1>1, <1>2, <2>1 DEF IInv, ReportsOK, Covered, Durable, Uncounted, At, Typed
<1> QED
  BY <1>6, <1>7, <1>8, <1>9, <1>10, <1>11, <1>13, <1>14 DEF IInv

\* A key that is taken has its last mutation submitted, or on disk already.
LEMMA SubmitOneOK ==
  ASSUME IInv, NEW k \in Keys, SubmitOne(k)
  PROVE  IInv'
<1>1. Typed
  BY TypedOK DEF IInv
<1>2. /\ writing' = writing \ {k} /\ At("flush")
      /\ UNCHANGED <<latest, unqueued, incoming, backfillItems, rejectQueue, disk, owed, ids, reports, lapse>>
      /\ flusher' = [flusher EXCEPT !.counted = TRUE]
  BY DEF SubmitOne, FlushOne, Submit, Count
<1>3. mem' \in {mem, [mem EXCEPT ![k].id = "pending"]}
  BY DEF SubmitOne, Submit
<1>4. \/ submitted' = [submitted EXCEPT ![k] = Submission(k)]
      \/ submitted' = submitted /\ Found(k) /\ ~mem[k].dirty
  BY DEF SubmitOne, Submit
<1>5. /\ mem' \in [Keys -> MemType] /\ SameValues
      /\ \A j \in Keys : mem'[j].dirty = mem[j].dirty
  BY <1>1, <1>3, IdType
<1>6. /\ VersionsOrdered' /\ submitted' \in [Keys -> Value]
      /\ \A j \in Keys : j # k => submitted'[j] = submitted[j]
      /\ \A j \in Keys : submitted'[j].ver \in Nat /\ submitted'[j].ver >= submitted[j].ver
      /\ submitted' = submitted \/ submitted'[k].ver = latest[k]
  BY <1>1, <1>2, <1>4, <1>5, SubmissionOK
<1>7. flusher' \in FlusherType /\ flusher'.pc = "flush" /\ flusher'.counted
  BY <1>1, <1>2 DEF Typed, FlusherType, At
<1>8. TypeOK'
  BY <1>1, <1>2, <1>5, <1>6, <1>7, FlushType DEF SubmitOne, IInv, TypeOK, Typed
<1>9. IdsOrdered'
  BY <1>2, Frame DEF IInv, reports
<1>10. CommitOK' /\ FlusherOK' /\ ~Uncounted'
  BY <1>7 DEF CommitOK, FlusherOK, Uncounted, At
<1>11. CleanIsSaved'
  BY <1>2, <1>5 DEF IInv, CleanIsSaved, Unsaved, Found, SameValues
<1>12. ForgottenByLapseOnly'
  <2> SUFFICES ASSUME lapse' = {}, NEW j \in Keys, Unsaved(j)' PROVE OnItsWay(j)'
    BY DEF ForgottenByLapseOnly, NothingForgotten
  <2>1. Unsaved(j) /\ OnItsWay(j) /\ Submission(j)' = Submission(j)
    BY <1>2, <1>5 DEF IInv, ForgottenByLapseOnly, NothingForgotten, Unsaved, Found, SameValues, Submission
  <2>2. CASE j = k
    <3>1. ~(Found(k) /\ ~mem[k].dirty)
      BY <1>2, <2>1, <2>2 DEF IInv, CleanIsSaved
    <3> QED
      BY <1>1, <1>4, <2>1, <2>2, <3>1 DEF OnItsWay, Typed
  <2>3. CASE j # k
    BY <1>2, <1>6, <2>1, <2>3 DEF OnItsWay, Queued
  <2> QED
    BY <2>2, <2>3
<1>13. OwedOK'
  <2> SUFFICES ASSUME NEW o \in owed, lapse = {}, Due(o)
               PROVE  Due(o)'
    BY <1>2 DEF IInv, OwedOK
  <2>1. CASE o.key = k
    <3>1. disk[k].ver < o.ver /\ o.ver <= latest[k] /\ latest[k] \in Nat /\ disk[k].ver \in Nat /\ o.ver \in Nat
      BY <1>1, <2>1 DEF IInv, OwedOK, Typed
    <3>2. ~(Found(k) /\ ~mem[k].dirty)
      <4> SUFFICES ASSUME Found(k), ~mem[k].dirty PROVE FALSE
        OBVIOUS
      <4>1. ~Unsaved(k) /\ mem[k].ver = latest[k]
        BY DEF IInv, CleanIsSaved, VersionsOrdered, KeyOrdered
      <4>2. disk[k].ver = latest[k]
        BY <4>1 DEF Unsaved
      <4> QED
        BY <3>1, <4>2
    <3>3. submitted'[k] = Submission(k) /\ Submission(k).ver = latest[k]
      BY <1>1, <1>4, <3>2 DEF Typed, Submission, IInv, VersionsOrdered, KeyOrdered
    <3> QED
      BY <2>1, <3>1, <3>3 DEF Due
  <2>2. CASE o.key # k
    BY <1>1, <1>2, <1>6, <2>2 DEF Due, Typed
  <2> QED
    BY <2>1, <2>2
<1>14. ReportsOK'
  <2>1. \A o \in owed : submitted'[o.key].ver \in Nat /\ submitted'[o.key].ver >= submitted[o.key].ver
    BY <1>1, <1>6 DEF Typed
  <2> QED
    BY <1>1, <1>2, <1>10, <2>1 DEF IInv, ReportsOK, Covered, Durable, Typed
<1> QED
  BY <1>6, <1>8, <1>9, <1>10, <1>11, <1>12, <1>13, <1>14 DEF IInv

\* A behaviour with a lapse owes nothing.
LEMMA Lapsed ==
  ASSUME IInv, lapse' # {}
  PROVE  /\ ForgottenByLapseOnly' /\ ReportsOK'
         /\ UNCHANGED <<owed, disk, latest>> /\ ids'.open = ids.open => OwedOK'
  BY DEF IInv, ForgottenByLapseOnly, ReportsOK, OwedOK

\* An item that expires is put back or forgotten.
LEMMA SkipExpiredOK ==
  ASSUME IInv, NEW k \in Keys, SkipExpired(k)
  PROVE  IInv'
<1>1. Typed
  BY TypedOK DEF IInv
<1>2. /\ writing' = writing \ {k} /\ At("flush")
      /\ UNCHANGED <<latest, unqueued, incoming, backfillItems, rejectQueue, submitted, disk, owed, ids, reports>>
      /\ flusher' = [flusher EXCEPT !.counted = TRUE]
      /\ lapse' = lapse \cup {"expired"}
  BY DEF SkipExpired, FlushOne, Count, Lapse
<1>3. mem' \in [Keys -> MemType] /\ SameValues
  BY <1>1 DEF SkipExpired, Typed, MemType, SameValues
<1>4. VersionsOrdered' /\ submitted' \in [Keys -> Value]
  BY <1>1, <1>2, <1>3, SubmissionOK
<1>5. flusher' \in FlusherType /\ flusher'.pc = "flush" /\ flusher'.counted
  BY <1>1, <1>2 DEF Typed, FlusherType, At
<1>6. TypeOK'
  BY <1>1, <1>2, <1>3, <1>4, <1>5, FlushType DEF SkipExpired, IInv, TypeOK, Typed
<1>7. IdsOrdered'
  BY <1>2, Frame DEF IInv, reports
<1>8. CommitOK' /\ FlusherOK' /\ CleanIsSaved'
  BY <1>2, <1>5 DEF CommitOK, FlusherOK, Uncounted, At, CleanIsSaved
<1>9. ForgottenByLapseOnly' /\ OwedOK' /\ ReportsOK'
  BY <1>2, Lapsed
<1> QED
  BY <1>4, <1>6, <1>7, <1>8, <1>9 DEF IInv
-----------------------------------------------------------------------------
(***************************************************************************)
(* The flusher: the end of a pass, the commit and its callbacks.           *)
(***************************************************************************)

\* A pass that put nothing back has emptied the queues, so that the cursor's id is
\* covered by what is submitted.
LEMMA FinishPassOK ==
  ASSUME IInv, FinishPass
  PROVE  IInv'
<1>1. Typed
  BY TypedOK DEF IInv
<1>2. /\ At("flush") /\ writing = {} /\ writing' = rejectQueue /\ rejectQueue' = {}
      /\ ids' = IF rejectQueue = {} THEN WithPersisted ELSE ids
      /\ AnswerUpTo(ids'.persisted)
      /\ UNCHANGED <<mem, latest, unqueued, incoming, backfillItems, submitted, disk, owed, lapse>>
  BY DEF FinishPass, PersistedAfterPass, Requeued
<1>3. /\ flusher' \in FlusherType /\ flusher'.pc \in {"more", "commit"}
      /\ flusher'.counted = flusher.counted
  BY <1>1 DEF FinishPass, GoTo, FlusherType, Typed
<1>4. /\ ids' \in IdsType /\ ids'.persisted \in {ids.persisted, ids.pre}
      /\ ids'.pre = ids.pre /\ ids'.open = ids.open /\ ids'.stored = ids.stored
      /\ IdsOrdered' /\ ids'.persisted \in Nat
  <2>1. ids'.persisted \in Nat
    BY <1>1, <1>2 DEF WithPersisted, Typed, IdsType
  <2> QED
    BY <1>2, <2>1, ReportOK
<1>5. waiter' \in WaitedFor \cup {0} /\ answered' \in WaitedFor \cup {0}
  BY <1>2, <1>4, AnswerType DEF IInv
<1>6. TypeOK'
  <2>1. \A q \in {incoming', backfillItems', writing', rejectQueue'} : q \subseteq Keys
    BY <1>1, <1>2 DEF Typed
  <2> QED
    BY <1>2, <1>3, <1>4, <1>5, <2>1, TypeFrame DEF IInv
<1>7. VersionsOrdered' /\ CleanIsSaved'
  BY <1>2, Frame DEF IInv
<1>8. CommitOK' /\ FlusherOK'
  BY <1>2, <1>3 DEF CommitOK, IInv, FlusherOK, Uncounted, At
<1>9. ForgottenByLapseOnly'
  BY <1>2, MoveForgets DEF Queued
<1>10. OwedOK'
  BY <1>2, <1>4 DEF IInv, OwedOK, Due
<1>11. ReportsOK'
  <2> SUFFICES ASSUME lapse = {}
               PROVE  /\ Covered(ids'.persisted) /\ Durable(ids.stored)
                      /\ ~flusher.counted => Durable(ids'.persisted)
    BY <1>2, <1>3, <1>4 DEF ReportsOK, Covered, Durable, Uncounted
  <2>1. /\ Covered(ids.persisted) /\ Durable(ids.stored)
        /\ ~flusher.counted => Durable(ids.persisted)
    BY <1>2 DEF IInv, ReportsOK, Uncounted, At
  <2>2. CASE rejectQueue = {}
    <3>1. flusher.counted
      BY <1>2, <2>2 DEF IInv, FlusherOK
    <3>2. Covered(ids.pre)
      BY <1>1, <1>2, <2>2 DEF IInv, OwedOK, Due, Covered, Typed
    <3> QED
      BY <1>4, <2>1, <3>1, <3>2
  <2>3. CASE rejectQueue # {}
    BY <1>2, <2>1, <2>3
  <2> QED
    BY <2>2, <2>3
<1> QED
  BY <1>4, <1>6, <1>7, <1>8, <1>9, <1>10, <1>11 DEF IInv

\* The transaction is saved, with all that is submitted.
LEMMA SavedOK ==
  ASSUME IInv, At("commit"), flusher.counted, GoTo("saved"),
         disk' = [k \in Keys |-> IF submitted[k] = NoValue THEN disk[k] ELSE submitted[k]],
         owed' = {o \in owed : o.ver > disk'[o.key].ver},
         UNCHANGED <<mem, latest, unqueued, queues, submitted, ids, reports, lapse>>
  PROVE  IInv'
<1>1. Typed
  BY TypedOK DEF IInv
<1>2. \A k \in Keys : /\ submitted[k] = NoValue => disk'[k] = disk[k]
                      /\ submitted[k] # NoValue => disk'[k] = submitted[k]
                      /\ disk'[k].ver \in Nat
  BY <1>1 DEF Typed
<1>3. flusher' \in FlusherType /\ flusher'.pc = "saved"
  BY <1>1 DEF GoTo, Typed, FlusherType
<1>4. \A k \in Keys : KeyOrdered(k) /\ mem[k] \in MemType
  BY <1>1 DEF IInv, VersionsOrdered, Typed
<1>5. TypeOK'
  <2>1. disk' \in [Keys -> Value]
    BY <1>1 DEF Typed
  <2> QED
    BY <1>3, <2>1 DEF IInv, TypeOK, queues, reports, FlusherType
<1>6. IdsOrdered'
  BY Frame DEF IInv, reports
<1>7. VersionsOrdered'
  <2> SUFFICES ASSUME NEW k \in Keys PROVE KeyOrdered(k)'
    BY DEF VersionsOrdered
  <2>1. CASE submitted[k] = NoValue
    BY <1>2, <1>4, <2>1 DEF KeyOrdered, Found, Submission
  <2>2. CASE submitted[k] # NoValue
    BY <1>1, <1>2, <1>4, <2>2 DEF KeyOrdered, Found, Submission, Typed
  <2> QED
    BY <2>1, <2>2
<1>8. CommitOK' /\ FlusherOK' /\ ~Uncounted'
  BY <1>2, <1>3 DEF CommitOK, IInv, FlusherOK, At, Uncounted, queues
<1>9. \A k \in Keys : Found(k) /\ ~Unsaved(k) => ~Unsaved(k)'
  <2> SUFFICES ASSUME NEW k \in Keys, Found(k), ~Unsaved(k) PROVE ~Unsaved(k)'
    OBVIOUS
  <2>1. disk[k] = [ver |-> mem[k].ver, del |-> mem[k].del]
    BY DEF Unsaved
  <2>2. Submission(k) = disk[k]
    BY <2>1 DEF Submission
  <2>3. disk[k].ver = latest[k]
    <3>1. mem[k].ver = latest[k]
      BY <1>4 DEF KeyOrdered
    <3> QED
      BY <2>1, <3>1
  <2>4. submitted[k] # NoValue => submitted[k] = disk[k]
    <3> SUFFICES ASSUME submitted[k] # NoValue PROVE submitted[k] = disk[k]
      OBVIOUS
    <3>1. /\ disk[k].ver <= submitted[k].ver /\ submitted[k].ver <= latest[k]
          /\ submitted[k].ver = latest[k] => submitted[k] = Submission(k)
      BY <1>4 DEF KeyOrdered
    <3>2. submitted[k].ver \in Nat /\ latest[k] \in Nat
      BY <1>1 DEF Typed
    <3> QED
      BY <2>2, <2>3, <3>1, <3>2
  <2> QED
    BY <1>2, <2>1, <2>4 DEF Unsaved, Found
<1>10. CleanIsSaved'
  BY <1>9 DEF IInv, CleanIsSaved, Found
<1>11. ForgottenByLapseOnly'
  <2> SUFFICES ASSUME lapse = {}, NEW k \in Keys, Unsaved(k)' PROVE OnItsWay(k)'
    BY DEF ForgottenByLapseOnly, NothingForgotten
  <2>1. Found(k)
    BY <1>1, <1>2, <1>4 DEF KeyOrdered, Found, Unsaved, Submission, Typed
  <2>2. OnItsWay(k)
    BY <1>9, <2>1 DEF IInv, ForgottenByLapseOnly, NothingForgotten
  <2> QED
    BY <2>2 DEF OnItsWay, Queued, queues, Submission, Found
<1>12. OwedOK'
  <2> SUFFICES ASSUME NEW o \in owed, o.ver > disk'[o.key].ver
               PROVE  /\ o.chk <= ids.open /\ disk'[o.key].ver < o.ver /\ o.ver <= latest[o.key]
                      /\ lapse = {} => Due(o)'
    BY DEF OwedOK
  <2> QED
    BY <1>1, <1>2 DEF IInv, OwedOK, Due, queues, Typed
<1>13. ReportsOK'
  BY <1>8 DEF IInv, ReportsOK, Covered, Durable
<1> QED
  BY <1>5, <1>6, <1>7, <1>8, <1>10, <1>11, <1>12, <1>13 DEF IInv

\* The transaction's commit.
LEMMA CommitsOK ==
  ASSUME IInv, Commit
  PROVE  IInv'
<1>1. Typed
  BY TypedOK DEF IInv
<1>2. CASE GoTo("saved") /\ UNCHANGED lapse
           /\ disk' = [k \in Keys |-> IF submitted[k] = NoValue THEN disk[k] ELSE submitted[k]]
           /\ owed' = {o \in owed : o.ver > disk'[o.key].ver}
  BY <1>2, SavedOK DEF Commit
<1>3. CASE GoTo("failed") /\ Lapse("failed save") /\ UNCHANGED <<disk, owed>>
  <2>1. UNCHANGED <<mem, latest, unqueued, queues, submitted, ids, reports>>
    BY DEF Commit
  <2>2. flusher' \in FlusherType /\ flusher'.pc = "failed"
    BY <1>1, <1>3 DEF GoTo, Typed, FlusherType
  <2>3. lapse' = lapse \cup {"failed save"}
    BY <1>3 DEF Lapse
  <2>4. TypeOK'
    BY <1>3, <2>1, <2>2, <2>3 DEF IInv, TypeOK, queues, reports, FlusherType
  <2>5. IdsOrdered' /\ VersionsOrdered' /\ CleanIsSaved'
    BY <1>3, <2>1, <2>3, Frame DEF IInv, reports
  <2>6. CommitOK' /\ FlusherOK'
    BY <2>1, <2>2, <2>3 DEF Commit, CommitOK, IInv, FlusherOK, At, Uncounted, queues
  <2>7. ForgottenByLapseOnly' /\ OwedOK' /\ ReportsOK'
    BY <1>3, <2>1, <2>3, Lapsed
  <2> QED
    BY <2>4, <2>5, <2>6, <2>7 DEF IInv
<1> QED
  BY <1>2, <1>3 DEF Commit

\* After a commit the flusher has nothing of it left.
LEMMA AfterCommitPlace ==
  ASSUME IInv, AfterCommit
  PROVE  /\ flusher' \in FlusherType /\ flusher'.pc \in {"idle", "begin", "pass"}
         /\ ~flusher'.counted /\ (flusher'.pc = "idle" => writing = {})
<1>1. flusher \in FlusherType
  BY TypedOK DEF IInv, Typed
<1>2. CASE flusher.pass = "high"
  BY <1>1, <1>2 DEF AfterCommit, FlusherType
<1>3. CASE flusher.pass # "high" /\ writing = {}
  BY <1>3 DEF AfterCommit, FlusherType, Idle
<1>4. CASE flusher.pass # "high" /\ writing # {}
  <2>1. flusher' = [pc |-> "begin", pass |-> flusher.pass, phase |-> 2, counted |-> FALSE]
    BY <1>1, <1>4 DEF AfterCommit, FlusherType
  <2> QED
    BY <1>1, <1>4, <2>1 DEF FlusherType
<1> QED
  BY <1>2, <1>3, <1>4

\* A commit of nothing.
LEMMA CommitNothingOK ==
  ASSUME IInv, CommitNothing
  PROVE  IInv'
<1>1. /\ flusher' \in FlusherType /\ flusher'.pc \in {"idle", "begin", "pass"}
      /\ ~flusher'.counted /\ (flusher'.pc = "idle" => writing = {})
  BY AfterCommitPlace DEF CommitNothing
<1>2. FlusherOK' /\ CommitOK' /\ Uncounted
  BY <1>1 DEF CommitNothing, At, queues, IInv, FlusherOK, CommitOK, Uncounted
<1> QED
  BY <1>1, <1>2, PlaceOK DEF CommitNothing, reports

\* The callbacks are done, rejects go back and ids are set.
LEMMA FinishCommitOK ==
  ASSUME IInv, FinishCommit
  PROVE  IInv'
<1>1. /\ flusher' \in FlusherType /\ flusher'.pc \in {"idle", "begin", "pass"}
      /\ ~flusher'.counted /\ (flusher'.pc = "idle" => writing = {})
  BY AfterCommitPlace DEF FinishCommit
<1>2. Typed
  BY TypedOK DEF IInv
<1>3. \A k \in Keys : submitted[k] = NoValue
  BY DEF FinishCommit, Nothing
<1>4. FlusherOK' /\ CommitOK'
  BY <1>1, <1>3 DEF FinishCommit, At, queues, IInv, FlusherOK, CommitOK, Uncounted
<1>5. TypeOK'
  BY <1>1, TypeFrame DEF FinishCommit, IInv, TypeOK, queues, reports, IdsType
<1>6. VersionsOrdered' /\ CleanIsSaved' /\ IdsOrdered'
  BY Frame DEF IInv, FinishCommit, reports
<1>7. ForgottenByLapseOnly'
  BY MoveForgets DEF FinishCommit, queues, Queued
<1>8. OwedOK'
  BY DEF IInv, OwedOK, Due, FinishCommit, queues
<1>9. ReportsOK'
  BY <1>2, <1>3 DEF IInv, ReportsOK, Covered, Durable, FinishCommit, Typed, NoValue
<1> QED
  BY <1>4, <1>5, <1>6, <1>7, <1>8, <1>9 DEF IInv

\* The callback of a set or deletion that was saved.
LEMMA CallbackOK ==
  ASSUME IInv, NEW k \in Keys, Callback(k)
  PROVE  IInv'
<1>1. Typed
  BY TypedOK DEF IInv
<1>2. /\ At("saved") /\ submitted[k] # NoValue /\ disk[k] = submitted[k]
      /\ submitted' = [submitted EXCEPT ![k] = NoValue]
      /\ mem' = [mem EXCEPT ![k] = IF submitted[k].del THEN AfterDelete(k) ELSE AfterSet(k)]
      /\ UNCHANGED <<latest, unqueued, queues, disk, owed, ids, reports, flusher, lapse>>
  BY DEF Callback, IInv, CommitOK
<1>3. KeyOrdered(k) /\ mem[k] \in MemType /\ submitted[k] \in Value /\ disk[k] \in Value
  BY <1>1 DEF IInv, VersionsOrdered, Typed
<1>4. /\ mem'[k] = IF submitted[k].del THEN AfterDelete(k) ELSE AfterSet(k)
      /\ submitted'[k] = NoValue
      /\ \A j \in Keys : j # k => mem'[j] = mem[j] /\ submitted'[j] = submitted[j]
  BY <1>1, <1>2 DEF Typed
<1>5. mem'[k] \in MemType
  <2>1. Absent \in MemType
    BY Bounds DEF Absent, MemType
  <2> QED
    BY <1>3, <1>4, <2>1 DEF AfterDelete, AfterSet, StillDirty, MemType
<1>6. /\ Found(k)' => mem'[k].ver = mem[k].ver /\ mem'[k].del = mem[k].del /\ Found(k)
      /\ ~Found(k)' => disk[k].ver = 0 \/ disk[k].del
  <2>1. CASE submitted[k].del
    <3>1. CASE Found(k) /\ ~mem[k].del
      <4>1. mem'[k] = [mem[k] EXCEPT !.id = "none"]
        BY <1>4, <2>1, <3>1 DEF AfterDelete
      <4>2. mem'[k].ver = mem[k].ver /\ mem'[k].del = mem[k].del
        BY <1>3, <4>1 DEF MemType
      <4> QED
        BY <3>1, <4>2 DEF Found
    <3>2. CASE ~(Found(k) /\ ~mem[k].del)
      <4>1. mem'[k] = Absent
        BY <1>4, <2>1, <3>2 DEF AfterDelete
      <4>2. mem'[k].ver = 0
        BY <4>1 DEF Absent
      <4> QED
        BY <1>2, <2>1, <4>2 DEF Found
    <3> QED
      BY <3>1, <3>2
  <2>2. CASE ~submitted[k].del
    <3>1. CASE Found(k)
      <4>1. mem'[k] = [mem[k] EXCEPT !.id = "known", !.dirty = StillDirty(k)]
        BY <1>4, <2>2, <3>1 DEF AfterSet
      <4>2. mem'[k].ver = mem[k].ver /\ mem'[k].del = mem[k].del
        BY <1>3, <4>1 DEF MemType
      <4> QED
        BY <3>1, <4>2 DEF Found
    <3>2. CASE ~Found(k)
      <4>1. mem'[k] = Absent
        BY <1>4, <2>2, <3>2 DEF AfterSet
      <4>2. mem'[k].ver = 0
        BY <4>1 DEF Absent
      <4> QED
        BY <1>3, <3>2, <4>2 DEF Found, KeyOrdered
    <3> QED
      BY <3>1, <3>2
  <2> QED
    BY <2>1, <2>2
<1>7. TypeOK'
  <2>1. mem' \in [Keys -> MemType]
    BY <1>1, <1>2, <1>5 DEF Typed
  <2>2. submitted' \in [Keys -> Value]
    BY <1>1, <1>2, Bounds DEF Typed, NoValue, Value
  <2> QED
    BY <1>2, <2>1, <2>2 DEF IInv, TypeOK, queues, reports, MemType
<1>8. IdsOrdered'
  BY <1>2, Frame DEF IInv, reports
<1>9. VersionsOrdered'
  <2> SUFFICES ASSUME NEW j \in Keys PROVE KeyOrdered(j)'
    BY DEF VersionsOrdered
  <2>1. CASE j = k
    BY <1>2, <1>3, <1>4, <1>6, <2>1 DEF KeyOrdered, Found
  <2>2. CASE j # k
    <3>1. KeyOrdered(j)
      BY DEF IInv, VersionsOrdered
    <3> QED
      BY <1>2, <1>4, <2>2, <3>1 DEF KeyOrdered, Found, Submission
  <2> QED
    BY <2>1, <2>2
<1>10. CommitOK' /\ FlusherOK' /\ ~Uncounted'
  BY <1>2, <1>4 DEF CommitOK, IInv, FlusherOK, Uncounted, At, queues
<1>11. CleanIsSaved'
  <2> SUFFICES ASSUME "expired" \notin lapse, NEW j \in Keys, Found(j)', ~mem'[j].dirty
               PROVE  ~Unsaved(j)'
    BY <1>2 DEF CleanIsSaved
  <2>1. CASE j = k /\ submitted[k].del
    <3>1. mem'[k] = [mem[k] EXCEPT !.id = "none"] /\ Found(k)
      BY <1>4, <2>1 DEF AfterDelete, Absent, Found
    <3>2. ~mem[k].dirty
      BY <1>3, <2>1, <3>1 DEF MemType
    <3> QED
      BY <1>2, <1>6, <2>1, <3>1, <3>2 DEF IInv, CleanIsSaved, Unsaved, Found
  <2>2. CASE j = k /\ ~submitted[k].del
    <3>1. Found(k) /\ mem'[k] = [mem[k] EXCEPT !.id = "known", !.dirty = StillDirty(k)]
      BY <1>4, <2>2 DEF AfterSet, Absent, Found
    <3>2. ~mem[k].dirty \/ mem[k].ver = submitted[k].ver
      BY <1>3, <2>2, <3>1 DEF MemType, StillDirty
    <3>3. ~mem[k].dirty => ~Unsaved(k)
      BY <3>1 DEF IInv, CleanIsSaved
    <3>4. mem[k].ver = submitted[k].ver => ~Unsaved(k)
      BY <1>2, <1>3, <3>1 DEF KeyOrdered, Submission, Unsaved
    <3> QED
      BY <1>2, <1>6, <2>2, <3>2, <3>3, <3>4 DEF Unsaved, Found
  <2>3. CASE j # k
    BY <1>2, <1>4, <2>3 DEF IInv, CleanIsSaved, Unsaved, Found
  <2> QED
    BY <2>1, <2>2, <2>3
<1>12. ForgottenByLapseOnly'
  <2> SUFFICES ASSUME lapse = {}, NEW j \in Keys, Unsaved(j)' PROVE OnItsWay(j)'
    BY <1>2 DEF ForgottenByLapseOnly, NothingForgotten
  <2>1. CASE j = k
    <3>1. Found(k)' /\ Found(k) /\ Unsaved(k)
      BY <1>2, <1>6, <2>1 DEF Unsaved, Found
    <3>2. submitted[k] # Submission(k)
      BY <1>2, <3>1 DEF Unsaved, Submission
    <3>3. OnItsWay(k)
      BY <3>1 DEF IInv, ForgottenByLapseOnly, NothingForgotten
    <3> QED
      BY <1>2, <2>1, <3>2, <3>3 DEF OnItsWay, Queued, queues
  <2>2. CASE j # k
    <3>1. OnItsWay(j)
      BY <1>2, <1>4, <2>2 DEF IInv, ForgottenByLapseOnly, NothingForgotten, Unsaved, Found
    <3> QED
      BY <1>2, <1>4, <2>2, <3>1 DEF OnItsWay, Queued, queues, Submission, Found
  <2> QED
    BY <2>1, <2>2
<1>13. \A o \in owed : submitted'[o.key].ver >= o.ver \/ ~(submitted[o.key].ver >= o.ver)
  BY <1>1, <1>2, <1>4 DEF IInv, OwedOK, Typed
<1>14. OwedOK'
  BY <1>2, <1>13 DEF IInv, OwedOK, Due, queues
<1>15. ReportsOK'
  BY <1>2, <1>10, <1>13 DEF IInv, ReportsOK, Covered, Durable
<1> QED
  BY <1>7, <1>8, <1>9, <1>10, <1>11, <1>12, <1>14, <1>15 DEF IInv

\* The callback of a value that was not saved.
LEMMA FailedCallbackOK ==
  ASSUME IInv, NEW k \in Keys, FailedCallback(k)
  PROVE  IInv'
<1>1. Typed
  BY TypedOK DEF IInv
<1>2. /\ "failed save" \in lapse
      /\ submitted' = [submitted EXCEPT ![k] = NoValue]
      /\ UNCHANGED <<latest, unqueued, queues, disk, owed, ids, reports, flusher, lapse>>
  BY DEF FailedCallback, IInv, CommitOK
<1>3. /\ mem' \in [Keys -> MemType] /\ SameValues
      /\ \A j \in Keys : mem'[j].dirty = mem[j].dirty \/ (j = k /\ mem'[j].dirty)
  <2>1. CASE Found(k)
    <3>1. PICK id \in {"none", "pending", "known"} :
              mem' = [mem EXCEPT ![k].dirty = TRUE, ![k].id = id]
      BY <1>1, <2>1 DEF FailedCallback, Typed, MemType
    <3> QED
      BY <1>1, <3>1, ZenonT(40) DEF Typed, MemType, SameValues
  <2>2. CASE ~Found(k)
    BY <1>1, <2>2 DEF FailedCallback, Typed, SameValues
  <2> QED
    BY <2>1, <2>2
<1>4. submitted' \in [Keys -> Value]
  <2>1. NoValue \in Value
    BY Bounds DEF NoValue, Value
  <2> QED
    BY <1>1, <1>2, <2>1 DEF Typed
<1>5. TypeOK'
  BY <1>2, <1>3, <1>4 DEF IInv, TypeOK, queues, reports, MemType
<1>6. IdsOrdered'
  BY <1>2, Frame DEF IInv, reports
<1>7. VersionsOrdered'
  <2> SUFFICES ASSUME NEW j \in Keys PROVE KeyOrdered(j)'
    BY DEF VersionsOrdered
  <2>1. KeyOrdered(j) /\ submitted'[j] \in {submitted[j], NoValue}
    BY <1>1, <1>2 DEF IInv, VersionsOrdered, Typed
  <2>2. mem'[j].ver = mem[j].ver /\ mem'[j].del = mem[j].del
    BY <1>3 DEF SameValues
  <2> QED
    BY <1>2, <2>1, <2>2 DEF KeyOrdered, Found, Submission
<1>8. CommitOK' /\ FlusherOK'
  BY <1>1, <1>2 DEF FailedCallback, CommitOK, IInv, FlusherOK, Uncounted, At, queues, Typed
<1>9. CleanIsSaved'
  BY <1>2, <1>3 DEF IInv, CleanIsSaved, Unsaved, Found, SameValues
<1>10. ForgottenByLapseOnly' /\ OwedOK' /\ ReportsOK'
  BY <1>2, Lapsed
<1> QED
  BY <1>5, <1>6, <1>7, <1>8, <1>9, <1>10 DEF IInv
-----------------------------------------------------------------------------
(***************************************************************************)
(* The snapshot of the vbucket's state, and the end of the process.        *)
(***************************************************************************)

LEMMA SnapshotVBucketsOK ==
  ASSUME IInv, SnapshotVBuckets
  PROVE  IInv'
<1>1. Typed
  BY TypedOK DEF IInv
<1>2. ids \in IdsType
  BY <1>1 DEF Typed
<1>3. /\ ids' \in IdsType /\ ids'.stored = ids.persisted
      /\ ids'.pre = ids.pre /\ ids'.open = ids.open /\ ids'.persisted = ids.persisted
  BY <1>2 DEF SnapshotVBuckets, IdsType
<1>4. TypeOK'
  BY <1>1, <1>3, TypeFrame DEF SnapshotVBuckets, IInv, TypeOK, Typed, queues, reports
<1>5. VersionsOrdered' /\ CleanIsSaved' /\ CommitOK' /\ FlusherOK'
  BY Frame DEF IInv, SnapshotVBuckets, queues
<1>6. IdsOrdered'
  BY <1>1, <1>3 DEF IInv, IdsOrdered, SnapshotVBuckets, reports, Typed
<1>7. ForgottenByLapseOnly'
  BY MoveForgets DEF SnapshotVBuckets, queues, Queued
<1>8. OwedOK'
  BY <1>3 DEF IInv, OwedOK, Due, SnapshotVBuckets, queues
<1>9. ReportsOK'
  <2>1. Uncounted
    BY DEF SnapshotVBuckets, IInv, FlusherOK, Uncounted, At
  <2> QED
    BY <1>3, <2>1 DEF IInv, ReportsOK, Covered, Durable, SnapshotVBuckets
<1> QED
  BY <1>4, <1>5, <1>6, <1>7, <1>8, <1>9 DEF IInv

\* After a restart memory has what the file has.
LEMMA RestartOK ==
  ASSUME IInv, Restart
  PROVE  IInv'
<1>1. Typed
  BY TypedOK DEF IInv
<1>2. ids \in IdsType /\ ids.stored < MaxCheckpointId
  BY <1>1, Bounds DEF Typed, IInv, IdsOrdered, IdsType
<1>3. /\ ids'.open = ids.stored + 1 /\ ids'.pre = 0 /\ ids'.persisted = ids.stored
      /\ ids'.stored = ids.stored /\ ids' \in IdsType
  <2>1. /\ ids.stored \in Nat /\ ids.stored + 1 \in 1..MaxCheckpointId
        /\ 0 \in 0..MaxCheckpointId
    BY <1>2, Bounds DEF IdsType
  <2>2. PICK r \in Nat : /\ r = ids.stored + 1 /\ r \in 1..MaxCheckpointId
                         /\ r - 1 = ids.stored /\ r - 1 \in 0..MaxCheckpointId
                         /\ ids' = [ids EXCEPT !.open = r, !.pre = 0, !.persisted = r - 1]
    <3>1. ids' = [ids EXCEPT !.open = RestoredOpenId, !.pre = 0,
                             !.persisted = RestoredOpenId - 1]
      BY Zenon DEF Restart
    <3>2. /\ RestoredOpenId \in Nat /\ RestoredOpenId = ids.stored + 1
          /\ RestoredOpenId \in 1..MaxCheckpointId
          /\ RestoredOpenId - 1 = ids.stored /\ RestoredOpenId - 1 \in 0..MaxCheckpointId
      BY <1>2, <2>1 DEF RestoredOpenId, IdsType
    <3> QED
      BY <3>1, <3>2, Zenon
  <2> QED
    BY <1>2, <2>1, <2>2 DEF IdsType
<1>4. /\ mem' \in [Keys -> MemType] /\ latest' \in [Keys -> 0..MaxVersion]
      /\ \A k \in Keys :
           /\ latest'[k] = disk[k].ver /\ submitted'[k] = NoValue
           /\ disk[k].ver = 0 \/ disk[k].del => mem'[k].ver = 0
           /\ ~(disk[k].ver = 0 \/ disk[k].del) => mem'[k].ver = disk[k].ver /\ ~mem'[k].del
  <2>1. \A k \in Keys : disk[k] \in Value
    BY <1>1 DEF Typed
  <2>2. Absent \in MemType /\ Absent.ver = 0 /\ Absent.del = FALSE /\ Absent.dirty = FALSE
    BY Bounds DEF Absent, MemType
  <2>3. \A k \in Keys : [Absent EXCEPT !.ver = disk[k].ver, !.id = "known"]
                         = [ver |-> disk[k].ver, del |-> FALSE, dirty |-> FALSE, id |-> "known"]
    <3> SUFFICES ASSUME NEW k \in Keys, NEW a \in MemType, a.del = FALSE, a.dirty = FALSE,
                        NEW b, b = [a EXCEPT !.ver = disk[k].ver, !.id = "known"]
                 PROVE  b = [ver |-> disk[k].ver, del |-> FALSE, dirty |-> FALSE, id |-> "known"]
      BY <2>2
    <3> QED
      BY DEF MemType
  <2>4. \A k \in Keys : [ver |-> disk[k].ver, del |-> FALSE, dirty |-> FALSE, id |-> "known"]
                         \in MemType
    BY <2>1 DEF Value, MemType
  <2>5. mem' = [k \in Keys |->
                 IF disk[k].ver = 0 \/ disk[k].del THEN Absent
                 ELSE [ver |-> disk[k].ver, del |-> FALSE, dirty |-> FALSE, id |-> "known"]]
    BY <2>3 DEF Restart
  <2>6. mem' \in [Keys -> MemType]
    BY <2>2, <2>4, <2>5
  <2>7. latest' \in [Keys -> 0..MaxVersion]
    BY <2>1 DEF Restart, Value
  <2> QED
    <3>1. \A k \in Keys : latest'[k] = disk[k].ver /\ submitted'[k] = NoValue
      BY DEF Restart, Nothing
    <3> QED
      BY <2>2, <2>5, <2>6, <2>7, <3>1
<1>5. TypeOK'
  <2>1. submitted' \in [Keys -> Value]
    <3>1. NoValue \in Value
      BY Bounds DEF NoValue, Value
    <3> QED
      BY <3>1 DEF Restart, Nothing
  <2>2. flusher' \in FlusherType
    <3>1. Idle \in FlusherType
      BY DEF Idle, FlusherType
    <3> QED
      BY <3>1 DEF Restart
  <2>3. unqueued' \in [Keys -> {"no", "checkpoint", "backfill"}]
    BY DEF Restart
  <2> QED
    BY <1>3, <1>4, <2>1, <2>2, <2>3 DEF Restart, IInv, TypeOK, MemType, IdsType, FlusherType
<1>6. IdsOrdered'
  <2>1. ids.stored \in Nat
    BY <1>1 DEF Typed
  <2>2. answered' = 0
    BY DEF Restart
  <2> QED
    BY <1>3, <2>1, <2>2 DEF IdsOrdered
<1>7. VersionsOrdered'
  <2> SUFFICES ASSUME NEW k \in Keys PROVE KeyOrdered(k)'
    BY DEF VersionsOrdered
  <2>1. disk[k].ver \in Nat /\ disk' = disk
    BY <1>1 DEF Restart, Typed
  <2> QED
    BY <1>4, <2>1 DEF KeyOrdered, Found
<1>8. CommitOK' /\ FlusherOK'
  BY <1>4 DEF Restart, Idle, CommitOK, FlusherOK, Uncounted, At
<1>9. \A k \in Keys : ~Unsaved(k)'
  <2> SUFFICES ASSUME NEW k \in Keys PROVE ~Unsaved(k)'
    OBVIOUS
  <2>1. disk[k] = [ver |-> disk[k].ver, del |-> disk[k].del] /\ disk[k].del \in BOOLEAN
    BY <1>1 DEF Typed, Value
  <2>2. disk' = disk
    BY DEF Restart
  <2>3. CASE disk[k].ver = 0 \/ disk[k].del
    BY <1>4, <2>2, <2>3 DEF Unsaved, Found
  <2>4. CASE ~(disk[k].ver = 0 \/ disk[k].del)
    <3>1. mem'[k].ver = disk[k].ver /\ mem'[k].del = FALSE /\ mem'[k].ver # 0
      BY <1>4, <2>4
    <3>2. disk[k].del = FALSE
      BY <2>1, <2>4
    <3> QED
      BY <2>1, <2>2, <3>1, <3>2 DEF Unsaved, Found
  <2> QED
    BY <2>3, <2>4
<1>10. CleanIsSaved' /\ ForgottenByLapseOnly'
  BY <1>9 DEF CleanIsSaved, ForgottenByLapseOnly, NothingForgotten
<1>11. OwedOK' /\ ReportsOK'
  BY DEF Restart, OwedOK, ReportsOK, Covered, Durable
<1> QED
  BY <1>5, <1>6, <1>7, <1>8, <1>10, <1>11 DEF IInv
-----------------------------------------------------------------------------
(***************************************************************************)
(* The theorems.                                                           *)
(***************************************************************************)

LEMMA InitOK == ASSUME Init PROVE IInv
<1>1. NoValue \in Value /\ Absent \in MemType /\ Idle \in FlusherType /\ Absent.ver = 0
  BY Bounds DEF NoValue, Value, Absent, MemType, Idle, FlusherType
<1>2. ids = [open |-> 2, pre |-> 0, persisted |-> 0, stored |-> 0] /\ ids \in IdsType
  BY Bounds DEF Init, IdsType
<1>3. TypeOK
  <2>1. mem \in [Keys -> MemType] /\ submitted \in [Keys -> Value] /\ disk \in [Keys -> Value]
    BY <1>1 DEF Init, Nothing
  <2>2. /\ latest \in [Keys -> 0..MaxVersion]
        /\ unqueued \in [Keys -> {"no", "checkpoint", "backfill"}]
        /\ \A q \in {incoming, backfillItems, writing, rejectQueue} : q \subseteq Keys
        /\ waiter \in WaitedFor \cup {0} /\ answered \in WaitedFor \cup {0}
        /\ owed = {} /\ lapse = {}
    BY Bounds DEF Init
  <2>3. flusher \in FlusherType
    BY <1>1 DEF Init
  <2> QED
    BY <1>2, <2>1, <2>2, <2>3 DEF TypeOK, MemType, IdsType, FlusherType
<1>4. /\ ids.pre = 0 /\ ids.open = 2 /\ ids.persisted = 0 /\ ids.stored = 0 /\ answered = 0
      /\ owed = {} /\ writing = {} /\ rejectQueue = {}
      /\ flusher.pc = "idle" /\ ~flusher.counted
  BY <1>2 DEF Init, Idle
<1>5. \A k \in Keys : /\ ~Found(k) /\ latest[k] = 0 /\ submitted[k] = NoValue
                      /\ disk[k].ver = 0
  BY <1>1 DEF Init, Found, Nothing, NoValue
<1>6. IdsOrdered /\ CommitOK /\ FlusherOK
  BY <1>4, <1>5 DEF IdsOrdered, CommitOK, FlusherOK, At
<1>7. VersionsOrdered /\ CleanIsSaved
  BY <1>5 DEF VersionsOrdered, KeyOrdered, CleanIsSaved
<1>8. ForgottenByLapseOnly
  BY <1>5 DEF ForgottenByLapseOnly, NothingForgotten, Unsaved
<1>9. OwedOK /\ ReportsOK
  BY <1>4 DEF OwedOK, ReportsOK, Covered, Durable
<1> QED
  BY <1>3, <1>6, <1>7, <1>8, <1>9 DEF IInv

\* A step that changes nothing.
LEMMA StutterOK == ASSUME IInv, UNCHANGED vars PROVE IInv'
<1>1. UNCHANGED <<mem, latest, unqueued, incoming, backfillItems, writing, rejectQueue,
                  submitted, disk, owed, ids, waiter, answered, flusher, lapse>>
  BY DEF vars
<1>2. TypeOK'
  BY <1>1 DEF IInv, TypeOK
<1>3. VersionsOrdered' /\ CleanIsSaved' /\ CommitOK' /\ FlusherOK' /\ IdsOrdered'
  BY <1>1, Frame DEF IInv
<1>4. ForgottenByLapseOnly'
  BY <1>1, MoveForgets DEF Queued
<1>5. OwedOK' /\ ReportsOK'
  BY <1>1 DEF IInv, OwedOK, Due, ReportsOK, Covered, Durable, Uncounted, At
<1> QED
  BY <1>2, <1>3, <1>4, <1>5 DEF IInv

\* Every step of the flusher keeps the invariant.
LEMMA FlusherStepOK ==
  ASSUME IInv, FlusherStep
  PROVE  IInv'
<1>1. ASSUME NEW k \in Keys,
             \/ RejectOne(k) \/ SubmitOne(k) \/ SkipExpired(k)
             \/ Callback(k) \/ FailedCallback(k)
      PROVE  IInv'
  BY <1>1, RejectOneOK, SubmitOneOK, SkipExpiredOK, CallbackOK, FailedCallbackOK
<1>2. CASE BeginEmpty \/ BeginPass \/ PassNothing \/ PassSome
  BY <1>2, PlacesOK
<1>3. CASE Begin \/ TakeMore
  BY <1>3, TakesOK
<1>4. CASE ReportWhenEmpty \/ FinishPass
  BY <1>4, ReportWhenEmptyOK, FinishPassOK
<1>5. CASE Commit \/ CommitNothing \/ FinishCommit
  BY <1>5, CommitsOK, CommitNothingOK, FinishCommitOK
<1> QED
  BY <1>1, <1>2, <1>3, <1>4, <1>5 DEF FlusherStep

\* Every step keeps it.
LEMMA NextOK ==
  ASSUME IInv, [Next]_vars
  PROVE  IInv'
<1>1. ASSUME NEW k \in Keys,
             \/ Set(k) \/ Delete(k) \/ DeleteMissing(k) \/ BackfillItem(k) \/ QueueDirty(k)
      PROVE  IInv'
  BY <1>1, SetOK, DeleteOK, DeleteMissingOK, BackfillItemOK, QueueDirtyOK
<1>2. CASE UNCHANGED vars
  BY <1>2, StutterOK
<1> QED
  BY <1>1, <1>2, NewCheckpointOK, CheckpointPersistenceOK, FlusherStepOK,
     SnapshotVBucketsOK, RestartOK DEF Next

\* Every reachable state satisfies the inductive invariant: where each version of a value
\* is on its way to disk, and how the checkpoint ids follow it.
THEOREM Invariance == Spec => []IInv
<1>1. Init => IInv
  BY InitOK
<1>2. IInv /\ [Next]_vars => IInv'
  BY NextOK
<1> QED
  BY <1>1, <1>2, PTL DEF Spec

\* Whatever the front end, the flusher, the snapshot task and restarts do, in
\* whatever order, the state keeps its type, and no checkpoint id exceeds its bound.
THEOREM TypeCorrect == Spec => []TypeOK
<1>1. IInv => TypeOK
  BY DEF IInv
<1> QED
  BY <1>1, Invariance, PTL

\* Unless a backfill item overtakes a submitted value, a save fails or a value expires,
\* every value that is not on disk is on its way there: the flusher forgets nothing of
\* what it rejects, puts back, or finds changed when the transaction is saved.
THEOREM OnlyLapsesForget == Spec => []ForgottenByLapseOnly
<1>1. IInv => ForgottenByLapseOnly
  BY DEF IInv
<1> QED
  BY <1>1, Invariance, PTL

\* A clean value that the flusher did not skip for its expiry time is what the file
\* holds, so that the item pager may eject it.
THEOREM CleanStaysSaved == Spec => []CleanIsSaved
<1>1. IInv => CleanIsSaved
  BY DEF IInv
<1> QED
  BY <1>1, Invariance, PTL

\* The id that is kept as the last persisted checkpoint and the answers to clients are
\* never ahead of what is saved or submitted.
THEOREM ReportsStayCovered == Spec => []ReportsCovered
<1>1. ASSUME IInv PROVE ReportsCovered
  <2>1. Typed
    BY <1>1, TypedOK DEF IInv
  <2> SUFFICES ASSUME lapse = {} PROVE Covered(ids.persisted) /\ Covered(answered)
    BY DEF ReportsCovered
  <2>2. Covered(ids.persisted) /\ answered <= ids.persisted
    BY <1>1 DEF IInv, ReportsOK, IdsOrdered
  <2>3. \A o \in owed : o.chk > ids.persisted => o.chk > answered
    BY <2>1, <2>2 DEF Typed
  <2> QED
    BY <2>2, <2>3 DEF Covered
<1> QED
  BY <1>1, Invariance, PTL

\* A restart finds on disk all that was queued in the checkpoints up to the id that
\* the snapshot of the vbucket's state has stored.
THEOREM StoredIdStaysDurable == Spec => []StoredIdDurable
<1>1. IInv => StoredIdDurable
  BY DEF IInv, ReportsOK, StoredIdDurable
<1> QED
  BY <1>1, Invariance, PTL
=============================================================================
