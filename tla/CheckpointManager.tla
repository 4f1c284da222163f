------------------------- MODULE CheckpointManager -------------------------
(***************************************************************************)
(* The per-vbucket unified queue of ep-engine (class CheckpointManager):   *)
(* a list of checkpoints into which mutations are queued and deduplicated, *)
(* and the cursors (one for persistence, one per TAP connection) that walk *)
(* it.  Every operation below holds queueLock from beginning to end, so    *)
(* one operation is one step; operations of different threads interleave.  *)
(*                                                                         *)
(* A checkpoint's toWrite list and its keyIndex hold every key at most     *)
(* once, so a checkpoint is the function mid from keys to mutation ids     *)
(* (0: the key is absent, as getMutationIdForKey says).  The list order is *)
(* recovered by Rank: the two meta items first, then by mutation id,       *)
(* because queueDirty gives an item a new id whenever it moves it to the   *)
(* tail and mergePrevCheckpoint inserts older items, in their order, right *)
(* after the two meta items.  Sets and deletions of a key differ only in   *)
(* the operation they carry and are both "a mutation of the key".          *)
(*                                                                         *)
(* The object is one record, and an operation is an operator from records  *)
(* to records, so that operations that call each other compose as they do  *)
(* in the code.                                                            *)
(***************************************************************************)
EXTENDS Integers, Sequences, FiniteSets

CONSTANTS
  Keys,               \* document keys
  TapNames,           \* names of TAP connections
  VBStates,           \* vbucket states that the run visits
  CheckpointMaxItems, \* chk_max_items
  MaxCheckpoints,     \* max_checkpoints
  ItemNumBased,       \* item_num_based_new_chk
  InconsistentSlave,  \* inconsistent_slave_chk
  KeepClosed,         \* keep_closed_chks
  BackupTaps,         \* the TAP connections that read closed checkpoints only
  OnlineUpdate,       \* checkpoints may be extended (CMD_EXTEND_CHECKPOINT)
  MayBeEmpty,         \* a backfill may find an empty hash table
  MaxMutationId,      \* bound on mutationCounter
  MaxCheckpointId     \* bound on checkpoint ids

Dummy == "dummy_key"
Start == "checkpoint_start"
End   == "checkpoint_end"

MetaKeys == {Dummy, Start, End}
AllKeys  == Keys \cup MetaKeys

Persistence == "persistence"
Names       == TapNames \cup {Persistence}

ASSUME KeysAssumption ==
  /\ IsFiniteSet(Keys)
  /\ Keys \cap MetaKeys = {}
ASSUME NamesAssumption ==
  /\ Persistence \notin TapNames
  /\ IsFiniteSet(TapNames)
  /\ BackupTaps \subseteq TapNames
ASSUME ConfigAssumption ==
  /\ VBStates \subseteq {"active", "replica", "pending", "dead"}
  /\ CheckpointMaxItems \in Nat \ {0}
  /\ MaxCheckpoints \in Nat \ {0}
  /\ ItemNumBased \in BOOLEAN
  /\ InconsistentSlave \in BOOLEAN
  /\ KeepClosed \in BOOLEAN
  /\ OnlineUpdate \in BOOLEAN
  /\ MayBeEmpty \in BOOLEAN
ASSUME BoundsAssumption == MaxMutationId \in Nat /\ MaxCheckpointId \in Nat

VARIABLES
  cm,       \* the CheckpointManager object
  vbState,  \* the state of the vbucket that owns it
  backfill, \* the vbucket receives a backfill: TAP mutations bypass the manager
  event,    \* what the last call asked for or returned: documents, a cursor, ...
  failure   \* why the run is over: an assertion failed, or a cursor went astray

vars == <<cm, vbState, backfill, event, failure>>
-----------------------------------------------------------------------------
(***************************************************************************)
(* One checkpoint.                                                         *)
(***************************************************************************)

Present(c) == {k \in AllKeys : c.mid[k] # 0}
Docs(c)    == {k \in Keys : c.mid[k] # 0}
NumDocs(c) == Cardinality(Docs(c))

\* The position of a key's item in the list.
Rank(c, k) == IF k = Dummy THEN 0 ELSE IF k = Start THEN 1 ELSE c.mid[k]

After(c, k)  == {j \in Present(c) : Rank(c, j) > Rank(c, k)}
Before(c, k) == {j \in Present(c) : Rank(c, j) < Rank(c, k)}

NextKey(c, k) == CHOOSE j \in After(c, k) :
                   \A i \in After(c, k) : Rank(c, j) <= Rank(c, i)
\* Mutant: the cursor follows the item that it points to.
PrevKeyStays(c, k) == k

PrevKey(c, k) == CHOOSE j \in Before(c, k) :
                   \A i \in Before(c, k) : Rank(c, i) <= Rank(c, j)
LastKey(c)    == CHOOSE j \in Present(c) :
                   \A i \in Present(c) : Rank(c, i) <= Rank(c, j)

\* A checkpoint fresh from its constructor, with its two meta items queued.
NewCheckpoint(id, counter) ==
  [id      |-> id,
   open    |-> TRUE,
   mid     |-> [k \in AllKeys |-> IF k = Dummy THEN counter + 1
                                  ELSE IF k = Start THEN counter + 2 ELSE 0],
   cursors |-> {}]
-----------------------------------------------------------------------------
(***************************************************************************)
(* Cursors.  A cursor is the checkpoint it is in (an index of the list; 0: *)
(* not in tapCursors), the key of the item it points to, and its offset.   *)
(***************************************************************************)

NoCursor == [chk |-> 0, pos |-> Dummy, offset |-> 0,
             closedOnly |-> FALSE, openId |-> 0]

Registered(m) == {c \in Names : m.cursor[c].chk # 0}

LastChk(m)   == m.list[Len(m.list)]
ChkOf(m, c)  == m.list[m.cursor[c].chk]
OpenId(m)    == IF LastChk(m).open THEN LastChk(m).id ELSE LastChk(m).id + 1
AtEnd(m, c)  == After(ChkOf(m, c), m.cursor[c].pos) = {}

\* lastClosedId is computed anew by every reader unless the checkpoints were
\* collapsed, and is kept for that case.
LastClosedId(m) ==
  IF m.collapsed THEN m.lastClosedId
  ELSE IF OpenId(m) > 0 THEN OpenId(m) - 1 ELSE 0

\* Mutant: a cursor does not notice that an item behind it went away.
DecrOffsetForgotten(n, d) == n

DecrOffset(n, d) == IF n >= d THEN n - d ELSE 0

CanMoveNext(m, c) == ~ChkOf(m, c).open /\ m.cursor[c].chk < Len(m.list)

\* Mutant: the name stays in the old checkpoint, too.
MoveCursorLeavesName(m, c) ==
  [m EXCEPT !.list[m.cursor[c].chk + 1].cursors = @ \cup {c},
            !.cursor[c].chk = @ + 1, !.cursor[c].pos = Dummy]

MoveCursorToNextCheckpoint(m, c) ==
  LET here == m.cursor[c].chk
  IN [m EXCEPT
        !.list = [i \in DOMAIN m.list |->
                    IF i = here
                    THEN [m.list[i] EXCEPT !.cursors = @ \ {c}]
                    ELSE IF i = here + 1
                    THEN [m.list[i] EXCEPT !.cursors = @ \cup {c}]
                    ELSE m.list[i]],
        !.cursor = [m.cursor EXCEPT ![c].chk = here + 1, ![c].pos = Dummy]]

\* Every cursor back to the first item of the first checkpoint.
ResetCursors(m) ==
  [m EXCEPT
     !.list = [i \in DOMAIN m.list |->
                 IF i = 1
                 THEN [m.list[i] EXCEPT !.cursors = @ \cup Registered(m)]
                 ELSE m.list[i]],
     !.cursor = [c \in Names |->
                   IF c \in Registered(m)
                   THEN [m.cursor[c] EXCEPT !.chk = 1, !.pos = Dummy, !.offset = 0]
                   ELSE m.cursor[c]]]
-----------------------------------------------------------------------------
(***************************************************************************)
(* The operators that the public operations are composed of.               *)
(***************************************************************************)

SetOpenCheckpointId(m, id) == [m EXCEPT !.list[Len(m.list)].id = id]

\* Checkpoint::queueDirty on the last checkpoint.  Cursors that already passed
\* the key's old item lose one from their offset; one that points to it is
\* shifted left before the item moves to the tail.
QueueItem(m, k) ==
  LET n     == Len(m.list)
      c     == m.list[n]
      newId == m.mutationCounter + 1
      Hit(d)    == m.cursor[d].chk = n /\ c.mid[k] # 0
      Passed(d) == c.mid[k] <= c.mid[m.cursor[d].pos]
  IN [m EXCEPT
        !.mutationCounter = newId,
        !.list = [m.list EXCEPT ![n].mid[k] = newId],
        !.cursor = [d \in Names |->
                      IF Hit(d)
                      THEN [m.cursor[d] EXCEPT
                              !.offset = IF Passed(d) THEN DecrOffset(@, 1) ELSE @,
                              !.pos = IF @ = k THEN PrevKey(c, k) ELSE @]
                      ELSE m.cursor[d]]]

\* Mutant: no end item is queued.
CloseWithoutEnd(m, id) ==
  IF id = LastChk(m).id THEN [m EXCEPT !.list[Len(m.list)].open = FALSE] ELSE m

CloseOpenCheckpoint(m, id) ==
  IF id = LastChk(m).id /\ LastChk(m).open
  THEN LET q == QueueItem(m, End)
       IN [q EXCEPT !.numItems = @ + 1, !.list[Len(m.list)].open = FALSE]
  ELSE m

\* The second half of addNewCheckpoint_UNLOCKED: the persistence cursor does
\* not stay behind at the end of a closed checkpoint, nor at its end marker.
AdvancePersistenceCursor(m) ==
  LET c    == Persistence
      pos  == m.cursor[c].pos
      skip == ~AtEnd(m, c) /\ NextKey(ChkOf(m, c), pos) = End
      mm   == IF skip THEN [m EXCEPT !.cursor[c].pos = End, !.cursor[c].offset = @ + 1]
                      ELSE m
  IN IF AtEnd(mm, c) /\ CanMoveNext(mm, c)
     THEN [MoveCursorToNextCheckpoint(mm, c) EXCEPT !.preChkId = ChkOf(mm, c).id]
     ELSE mm

AddNewCheckpoint(m, id) ==
  LET closed == CloseOpenCheckpoint(m, LastChk(m).id)
      added  == [closed EXCEPT
                   !.list = Append(@, NewCheckpoint(id, closed.mutationCounter)),
                   !.mutationCounter = @ + 2,
                   !.numItems = @ + 1]
  IN AdvancePersistenceCursor(added)

\* checkOpenCheckpoint_UNLOCKED opens a new checkpoint; timeUp: chk_period is over.
NeedsNewCheckpoint(m, force, timeUp) ==
  /\ ~m.extension
  /\ \/ force
     \/ ItemNumBased /\ NumDocs(LastChk(m)) >= CheckpointMaxItems
     \/ timeUp /\ NumDocs(LastChk(m)) > 0

CheckOpenCheckpoint(m, force, timeUp) ==
  IF NeedsNewCheckpoint(m, force, timeUp)
  THEN AddNewCheckpoint(m, LastChk(m).id + 1)
  ELSE m

CanCreateNewCheckpoint(m) ==
  \/ Len(m.list) < MaxCheckpoints
  \/ Len(m.list) = MaxCheckpoints /\ m.list[1].cursors = {}

\* Only the master active vbucket opens checkpoints by itself.
IsMaster == vbState = "active" /\ ~InconsistentSlave

\* Mutant: the older checkpoints are dropped instead of merged.
MergedMidDrops(list, to) == list[to].mid

\* mergePrevCheckpoint for each of list[1..to-1], from the newest to the
\* oldest, into list[to]: a key keeps its newest item.
MergedMid(list, to) ==
  [k \in AllKeys |->
     LET holders == {i \in 1..to : list[i].mid[k] # 0}
     IN IF k \in Keys /\ holders # {}
        THEN list[CHOOSE i \in holders : \A j \in holders : j <= i].mid[k]
        ELSE list[to].mid[k]]

\* Number of documents in the first n checkpoints.
DocsIn(list, n) ==
  Cardinality({d \in (1..n) \X Keys : list[d[1]].mid[d[2]] # 0})

\* Mutant: the start items of the merged checkpoints are still counted.
NumCollapsedEnds(list, to) ==
  DocsIn(list, to) - NumDocs([mid |-> MergedMid(list, to)]) + (to - 1)

\* What merging list[1..to-1] into list[to] takes away from numItems: the items
\* that were already there, and a start and an end item for each.
NumCollapsed(list, to) ==
  DocsIn(list, to) - NumDocs([mid |-> MergedMid(list, to)]) + 2 * (to - 1)

\* A manager with one checkpoint, the cursors of these names at its first item.
NewManager(id, names) ==
  [list            |-> <<[NewCheckpoint(id, 0) EXCEPT !.cursors = names]>>,
   cursor          |-> [c \in Names |->
                          IF c \in names THEN [NoCursor EXCEPT !.chk = 1]
                                         ELSE NoCursor],
   numItems        |-> 1,
   mutationCounter |-> 2,
   collapsed       |-> FALSE,
   extension       |-> FALSE,
   lastClosedId    |-> 0,
   preChkId        |-> 0]

FreshManager(id) == NewManager(id, {Persistence})
-----------------------------------------------------------------------------
(***************************************************************************)
(* registerTAPCursor_UNLOCKED and removeTAPCursor.                         *)
(***************************************************************************)

\* openId (openChkIdAtRegistration) is read for cursors on closed checkpoints only
\* and is kept for those.

\* The first checkpoint with that id, or else the last one.
ChkWithId(m, id) ==
  LET hits == {i \in DOMAIN m.list : m.list[i].id = id}
  IN IF hits = {} THEN Len(m.list) ELSE CHOOSE i \in hits : \A j \in hits : i <= j

\* A cursor that is already in that checkpoint may keep its position.
KeepsPosition(m, c, id, fromBeginning) ==
  /\ ~fromBeginning
  /\ m.cursor[c].chk # 0
  /\ ChkOf(m, c).id = id

RegisterCursor(m, c, id, closedOnly, fromBeginning) ==
  LET hits  == {i \in DOMAIN m.list : m.list[i].id = id}
      at    == ChkWithId(m, id)
      stays == KeepsPosition(m, c, id, fromBeginning)
      off   == IF hits = {} THEN m.numItems - (NumDocs(LastChk(m)) + 1)
               ELSE IF stays THEN m.cursor[c].offset
               ELSE DocsIn(m.list, at - 1) + 2 * (at - 1)
  IN [m EXCEPT
        !.list = [i \in DOMAIN m.list |->
                    IF i = at THEN [m.list[i] EXCEPT !.cursors = @ \cup {c}]
                    ELSE IF i = m.cursor[c].chk
                    THEN [m.list[i] EXCEPT !.cursors = @ \ {c}]
                    ELSE m.list[i]],
        !.cursor = [m.cursor EXCEPT ![c] =
                      [chk |-> at,
                       pos |-> IF stays THEN m.cursor[c].pos ELSE Dummy,
                       offset |-> off, closedOnly |-> closedOnly,
                       openId |-> IF closedOnly THEN OpenId(m) ELSE 0]]]

\* Mutant: the name is taken out of the cursor's own checkpoint only.
RemoveFromOwn(m, c) ==
  IF m.cursor[c].chk = 0 THEN m
  ELSE [m EXCEPT !.list[m.cursor[c].chk].cursors = @ \ {c}, !.cursor[c] = NoCursor]

RemoveCursor(m, c) ==
  IF m.cursor[c].chk = 0 THEN m
  ELSE [m EXCEPT
          !.list = [i \in DOMAIN m.list |-> [m.list[i] EXCEPT !.cursors = @ \ {c}]],
          !.cursor = [m.cursor EXCEPT ![c] = NoCursor]]
-----------------------------------------------------------------------------
(***************************************************************************)
(* removeClosedUnrefCheckpoints, run by the checkpoint remover task.       *)
(***************************************************************************)

\* After a new checkpoint was opened, cursors at the very end of the old one
\* move on.  (For a cursor that is not there, the code moves its position one
\* step forth and back.)
MoveFinishedCursors(m, oldId) ==
  LET done == {c \in Registered(m) :
                 /\ ChkOf(m, c).id = oldId
                 /\ AtEnd(m, c) /\ CanMoveNext(m, c)}
  IN [m EXCEPT
        !.list = [i \in DOMAIN m.list |->
                    [m.list[i] EXCEPT !.cursors =
                       (@ \ {c \in done : m.cursor[c].chk = i})
                         \cup {c \in done : m.cursor[c].chk = i - 1}]],
        !.cursor = [c \in Names |->
                      IF c \in done
                      THEN [m.cursor[c] EXCEPT !.chk = @ + 1, !.pos = Dummy]
                      ELSE m.cursor[c]]]

\* removeInvalidCursorsOnCheckpoint keeps these names.
ValidCursors(m, i) == {c \in m.list[i].cursors : m.cursor[c].chk = i}

\* The first checkpoint that a cursor is in.
FirstReferenced(m) ==
  LET held == {i \in DOMAIN m.list : ValidCursors(m, i) # {}}
  IN CHOOSE i \in held : \A j \in held : i <= j

MinOf(a, b) == IF a < b THEN a ELSE b
MaxOf(a, b) == IF a < b THEN b ELSE a

\* Mutant: MaxCheckpoints are always kept.
NumUnrefKeeps(m) ==
  MinOf(FirstReferenced(m) - 1, MaxOf(0, Len(m.list) - MaxCheckpoints))

\* Mutant: those above MaxCheckpoints go even if a cursor is in them.
NumAboveMax(m) ==
  IF KeepClosed THEN MaxOf(0, Len(m.list) - MaxCheckpoints) ELSE FirstReferenced(m) - 1

\* How many leading checkpoints the scan takes off the list: with KeepClosed it
\* stops when MaxCheckpoints are left.
NumUnref(m) ==
  LET unref == FirstReferenced(m) - 1
  IN IF KeepClosed THEN MinOf(unref, MaxOf(1, Len(m.list) - MaxCheckpoints))
                   ELSE unref

DropUnref(m) ==
  LET r    == NumUnref(m)
      gone == DocsIn(m.list, r) + 2 * r
      stopped == KeepClosed /\ r > 0 /\ Len(m.list) - r <= MaxCheckpoints
      Scanned(i) == ~stopped /\ i = FirstReferenced(m)
  IN [m EXCEPT
        !.list = [i \in 1..(Len(m.list) - r) |->
                    IF Scanned(i + r)
                    THEN [m.list[i + r] EXCEPT !.cursors = ValidCursors(m, i + r)]
                    ELSE m.list[i + r]],
        !.cursor = [c \in Names |->
                      IF c \in Registered(m)
                      THEN [m.cursor[c] EXCEPT !.chk = @ - r,
                                               !.offset = DecrOffset(@, gone)]
                      ELSE m.cursor[c]],
        !.numItems = @ - gone]

\* collapseClosedCheckpoints: the closed checkpoints become one, and the
\* cursors that were not yet in the last of them restart at its beginning.
CollapseClosed(m) ==
  LET n    == Len(m.list)
      t    == n - 1
      slow == (UNION {m.list[i].cursors : i \in 1..(t - 1)}) \cap Registered(m)
      fast == (m.list[t].cursors \cup m.list[n].cursors) \cap Registered(m)
      lost == NumCollapsed(m.list, t)
      Repositioned(c) ==
        IF c \in slow THEN [m.cursor[c] EXCEPT !.chk = 1, !.pos = Dummy, !.offset = 0]
        ELSE IF c \in Registered(m) THEN [m.cursor[c] EXCEPT !.chk = @ - (t - 1)]
        ELSE m.cursor[c]
  IN IF n <= 2 THEN m
     ELSE [m EXCEPT
             !.list = <<[m.list[t] EXCEPT !.mid = MergedMid(m.list, t),
                                          !.cursors = @ \cup slow],
                        m.list[n]>>,
             !.cursor = [c \in Names |->
                           IF c \in fast
                           THEN [Repositioned(c) EXCEPT !.offset = DecrOffset(@, lost)]
                           ELSE Repositioned(c)],
             !.numItems = @ - lost]

\* memHigh: memory use is above the high water mark.  forced also stands for
\* the comparison of the open checkpoint's size with the hash table's.
RemoveClosedUnref(m, forced, memHigh, timeUp) ==
  LET force  == /\ forced /\ memHigh
                /\ Cardinality(Registered(m)) = Cardinality(LastChk(m).cursors)
      create == /\ IsMaster /\ CanCreateNewCheckpoint(m)
                /\ NeedsNewCheckpoint(m, force, timeUp)
      oldId  == LastChk(m).id
      opened == IF ~create THEN m
                ELSE IF oldId = 0 THEN CheckOpenCheckpoint(m, force, timeUp)
                ELSE MoveFinishedCursors(CheckOpenCheckpoint(m, force, timeUp), oldId)
      mayCollapse == /\ ~KeepClosed
                     /\ vbState = "replica" \/ (vbState = "active" /\ InconsistentSlave)
  IN IF KeepClosed /\ ~memHigh /\ Len(opened.list) <= MaxCheckpoints
     THEN opened
     ELSE LET kept == DropUnref(opened)
          IN IF mayCollapse THEN CollapseClosed(kept) ELSE kept
-----------------------------------------------------------------------------
(***************************************************************************)
(* Reading through a cursor.                                               *)
(***************************************************************************)

StepCursor(m, c) ==
  [m EXCEPT !.cursor[c].pos = NextKey(ChkOf(m, c), @), !.cursor[c].offset = @ + 1]

NextFromOpen(m, c) ==
  IF m.cursor[c].closedOnly \/ AtEnd(m, c) THEN m ELSE StepCursor(m, c)

\* Mutant: the checkpoint that was open at registration is read as well.
PastWhatWasOpen(m, c) == m.cursor[c].closedOnly /\ m.cursor[c].openId < ChkOf(m, c).id

\* A cursor for closed checkpoints only stops at what was open when it registered.
PastClosedOnly(m, c) == m.cursor[c].closedOnly /\ m.cursor[c].openId <= ChkOf(m, c).id

NextFromClosed(m, c) ==
  IF PastClosedOnly(m, c) THEN m
  ELSE IF ~AtEnd(m, c) THEN StepCursor(m, c)
  ELSE IF ~CanMoveNext(m, c) THEN m
  ELSE LET mm == MoveCursorToNextCheckpoint(m, c)
       IN IF ChkOf(mm, c).open THEN NextFromOpen(mm, c) ELSE StepCursor(mm, c)

\* nextItem: the item returned is the one the cursor points to afterwards.
AdvanceTapCursor(m, c) ==
  IF m.cursor[c].chk = 0 \/ LastChk(m).id = 0 THEN m
  ELSE IF ChkOf(m, c).open THEN NextFromOpen(m, c) ELSE NextFromClosed(m, c)

\* Mutant: a checkpoint_start is sent as a document.
ReturnedStart(before, after, c) ==
  IF before.cursor[c] # after.cursor[c] THEN {after.cursor[c].pos} ELSE {}

\* The document that nextItem returned, if it was one.
Returned(before, after, c) ==
  IF before.cursor[c] # after.cursor[c] THEN {after.cursor[c].pos} \cap Keys ELSE {}

DecrTapCursorFromCheckpointEnd(m, c) ==
  IF m.cursor[c].chk # 0 /\ m.cursor[c].pos = End
  THEN [m EXCEPT !.cursor[c].pos = PrevKey(ChkOf(m, c), End),
                 !.cursor[c].offset = DecrOffset(@, 1)]
  ELSE m

\* Documents that a cursor has yet to reach.
Todo(m, c) ==
  IF m.cursor[c].chk = 0 THEN {}
  ELSE (After(ChkOf(m, c), m.cursor[c].pos) \cap Keys)
         \cup (UNION {Docs(m.list[i]) : i \in (m.cursor[c].chk + 1)..Len(m.list)})

\* Documents in the list.
Held(m) == UNION {Docs(m.list[i]) : i \in DOMAIN m.list}

\* Mutant: the scan does not go on to the next checkpoint.
OwnCheckpoint(m, c) == m.cursor[c].chk

\* getAllItemsFromCurrentPosition runs to the open checkpoint, or to the last.
LastToTake(m, c) ==
  LET stops == {i \in m.cursor[c].chk..Len(m.list) : m.list[i].open \/ i = Len(m.list)}
  IN CHOOSE i \in stops : \A j \in stops : i <= j

TakeAllForPersistence(m) ==
  LET c  == Persistence
      at == LastToTake(m, c)
  IN [m EXCEPT
        !.list = [i \in DOMAIN m.list |->
                    IF i = at THEN [m.list[i] EXCEPT !.cursors = @ \cup {c}]
                    ELSE IF i \in m.cursor[c].chk..(at - 1)
                    THEN [m.list[i] EXCEPT !.cursors = @ \ {c}]
                    ELSE m.list[i]],
        !.cursor = [m.cursor EXCEPT ![c].chk = at, ![c].pos = LastKey(m.list[at]),
                                    ![c].offset = m.numItems],
        !.preChkId = LastClosedId(m)]
-----------------------------------------------------------------------------
(***************************************************************************)
(* checkAndAddNewCheckpoint, on CHECKPOINT_START from the master.          *)
(***************************************************************************)

\* A master that restarted from an older checkpoint: all checkpoints become one
\* open checkpoint with its id, and every cursor starts over.
Rollback(m, id) ==
  LET n      == Len(m.list)
      back   == LastChk(m)
      merged == MergedMid(m.list, n)
      one    == [back EXCEPT !.mid = [merged EXCEPT ![End] = 0], !.open = TRUE]
  IN ResetCursors(
       SetOpenCheckpointId(
         [m EXCEPT !.list = <<one>>,
                   !.numItems = @ - NumCollapsed(m.list, n)
                                  - (IF back.open THEN 0 ELSE 1)],
         id))

\* An empty open checkpoint takes over the master's id, and its start item is to
\* be sent again.
Renumber(m, id) ==
  LET named == LastChk(m).cursors
  IN SetOpenCheckpointId(
       [m EXCEPT !.cursor = [c \in Names |->
                               IF c \in named THEN [m.cursor[c] EXCEPT !.pos = Dummy]
                               ELSE m.cursor[c]]],
       id)

\* Mutant: an id that is in the list already counts as new.
IsOlder(m, id) == \E i \in DOMAIN m.list : id < m.list[i].id

\* The master's new checkpoint is not new here.
IsOld(m, id) == \E i \in DOMAIN m.list : id <= m.list[i].id

CheckAndAddNewCheckpoint(m, id) ==
  LET back == LastChk(m)
      gap  == back.id + 1 < id
      mm   == [m EXCEPT !.collapsed = gap,
                        !.lastClosedId = IF gap THEN OpenId(m) - 1 ELSE 0]
  IN IF id = 0 THEN m
     ELSE IF back.id = 0 THEN ResetCursors(SetOpenCheckpointId(m, id))
     ELSE IF IsOld(m, id) THEN Rollback(m, id)
     ELSE IF back.open /\ NumDocs(back) = 0 THEN Renumber(mm, id)
     ELSE AddNewCheckpoint(mm, id)
-----------------------------------------------------------------------------
(***************************************************************************)
(* The steps of the system.                                                *)
(***************************************************************************)

Event(op, who, keys) == [op |-> op, who |-> who, keys |-> keys]
Quiet == Event("none", Persistence, {})

\* A new vbucket starts at checkpoint 2 when active and at 0 otherwise; one that
\* is restored at warmup starts at the checkpoint that was open.
StartId(state) == IF state = "active" THEN 2 ELSE 0

Init ==
  /\ vbState \in VBStates
  /\ \E id \in {StartId(vbState)} \cup 1..MaxCheckpointId : cm = FreshManager(id)
  /\ backfill = FALSE
  /\ event = Quiet
  /\ failure = "none"

\* The manager becomes m, within the bounds, and the process goes on.
Becomes(m) ==
  /\ failure = "none"
  /\ m.mutationCounter <= MaxMutationId
  /\ LastChk(m).id <= MaxCheckpointId
  /\ cm' = m
  /\ UNCHANGED failure

Unchanged == UNCHANGED <<vbState, backfill>>

\* queueDirty's part before its assertion that the last checkpoint is open.
BeforeQueueing(timeUp) ==
  IF IsMaster /\ CanCreateNewCheckpoint(cm)
  THEN CheckOpenCheckpoint(cm, FALSE, timeUp) ELSE cm

\* A client's or a TAP mutation, once it is in the hash table.
QueueDirty(k) ==
  /\ vbState # "dead"
  /\ vbState = "active" \/ ~backfill
  /\ vbState # "active" => LastChk(cm).open
  /\ \E timeUp \in BOOLEAN :
       LET m     == BeforeQueueing(timeUp)
           isNew == LastChk(m).mid[k] = 0
           q     == QueueItem(m, k)
       IN /\ LastChk(m).open
          /\ Becomes([q EXCEPT !.numItems = IF isNew THEN @ + 1 ELSE @])
  /\ event' = Event("write", Persistence, {k})
  /\ Unchanged

\* An active vbucket whose last checkpoint is closed: the assertion fails.
QueueDirtyAborts ==
  /\ failure = "none"
  /\ vbState = "active"
  /\ \E timeUp \in BOOLEAN : ~LastChk(BeforeQueueing(timeUp)).open
  /\ failure' = "assertion"
  /\ UNCHANGED <<cm, vbState, backfill, event>>

NextItem(t) ==
  LET m == AdvanceTapCursor(cm, t)
  IN /\ Becomes(m)
     /\ event' = Event("give", t, Returned(cm, m, t))
     /\ Unchanged

\* The producer still waits for acknowledgements: CHECKPOINT_END is not sent yet.
WaitAtCheckpointEnd(t) ==
  /\ Becomes(DecrTapCursorFromCheckpointEnd(cm, t))
  /\ event' = Quiet
  /\ Unchanged

GetAllItemsForPersistence ==
  /\ Becomes(TakeAllForPersistence(cm))
  /\ event' = Event("give", Persistence, Todo(cm, Persistence))
  /\ Unchanged

\* Of two checkpoints with the same id, the cursor is in the second, keeps its
\* position and is moved to the first.
RegisterStrays(t, id, fromBeginning) ==
  KeepsPosition(cm, t, id, fromBeginning) /\ cm.cursor[t].chk # ChkWithId(cm, id)

RegisterTAPCursor(t) ==
  /\ \E id \in 1..(MaxCheckpointId + 1), fromBeginning \in BOOLEAN :
       /\ ~RegisterStrays(t, id, fromBeginning)
       /\ Becomes(RegisterCursor(cm, t, id, t \in BackupTaps, fromBeginning))
  /\ event' = Event("subscribe", t, {})
  /\ Unchanged

RegisterTAPCursorStrays(t) ==
  /\ failure = "none"
  /\ \E id \in 1..(MaxCheckpointId + 1) : RegisterStrays(t, id, FALSE)
  /\ failure' = "stray cursor"
  /\ UNCHANGED <<cm, vbState, backfill, event>>

RemoveTAPCursor(t) ==
  /\ Becomes(RemoveCursor(cm, t))
  /\ event' = Event("unsubscribe", t, {})
  /\ Unchanged

RemoveClosedUnrefCheckpoints ==
  /\ \E forced, memHigh, timeUp \in BOOLEAN :
       Becomes(RemoveClosedUnref(cm, forced, memHigh, timeUp))
  /\ event' = Quiet
  /\ Unchanged

\* The master's CHECKPOINT_START and CHECKPOINT_END; an active vbucket ignores
\* them unless inconsistent_slave_chk is set.
AcceptsCheckpointMessages == vbState # "active" \/ InconsistentSlave

\* A cursor whose position is not in the list of its checkpoint walks off the end
\* of that list.  Renumber makes one of a cursor that is named in the last
\* checkpoint and is elsewhere.
RenumberStrays(m, id) ==
  /\ LastChk(m).id # 0
  /\ ~IsOld(m, id)
  /\ LastChk(m).open /\ NumDocs(LastChk(m)) = 0
  /\ \E c \in LastChk(m).cursors : m.cursor[c].chk # Len(m.list)

CheckpointStart(id) ==
  /\ AcceptsCheckpointMessages
  /\ ~RenumberStrays(cm, id)
  /\ Becomes(CheckAndAddNewCheckpoint(cm, id))
  /\ backfill' = (backfill /\ id = 0)
  /\ event' = Quiet
  /\ UNCHANGED vbState

CheckpointStartStrays(id) ==
  /\ failure = "none"
  /\ AcceptsCheckpointMessages
  /\ RenumberStrays(cm, id)
  /\ failure' = "stray cursor"
  /\ UNCHANGED <<cm, vbState, backfill, event>>

CheckpointEnd(id) ==
  /\ AcceptsCheckpointMessages
  /\ Becomes(CloseOpenCheckpoint(cm, id))
  /\ event' = Quiet
  /\ Unchanged

\* After a mutation from a master that does not support checkpoint messages.
CheckVBOpenCheckpoint ==
  /\ vbState # "active"
  /\ \E timeUp \in BOOLEAN : Becomes(CheckOpenCheckpoint(cm, FALSE, timeUp))
  /\ event' = Quiet
  /\ Unchanged

CreateNewCheckpoint ==
  /\ vbState = "active"
  /\ NumDocs(LastChk(cm)) > 0
  /\ Becomes(AddNewCheckpoint(cm, LastChk(cm).id + 1))
  /\ event' = Quiet
  /\ Unchanged

SetCheckpointExtension ==
  /\ OnlineUpdate
  /\ \E extend \in BOOLEAN : Becomes([cm EXCEPT !.extension = extend])
  /\ event' = Quiet
  /\ Unchanged

\* flush_all: the hash table and the checkpoints are emptied.
Clear ==
  LET id    == IF vbState = "active" THEN 1 ELSE 0
      fresh == [cm EXCEPT !.list = <<NewCheckpoint(id, 0)>>,
                          !.mutationCounter = 2, !.numItems = 1]
  IN /\ Becomes(ResetCursors(fresh))
     /\ event' = Event("empty", Persistence, {})
     /\ Unchanged

\* Mutant: the TAP cursors are not registered again.
ResetManagerAlone(m, state) == FreshManager(StartId(state))

\* resetVBucket: the vbucket is created anew, and the TAP cursors are registered
\* again at its open checkpoint.
ResetManager(m, state) == NewManager(StartId(state), Registered(m) \cup {Persistence})

\* The master announces a backfill.  A vbucket whose hash table is empty counts
\* as reset already; nothing then waits to be persisted, for a deleted item
\* leaves the hash table when its deletion is on disk.
InitialVBucketStream ==
  LET empty == MayBeEmpty /\ Todo(cm, Persistence) = {}
  IN /\ \/ /\ Becomes(SetOpenCheckpointId(ResetManager(cm, vbState), 0))
           /\ event' = Event("empty", Persistence, {})
        \/ /\ empty
           /\ Becomes(SetOpenCheckpointId(cm, 0))
           /\ event' = Quiet
     /\ backfill' = TRUE
     /\ UNCHANGED vbState

CloseBackfill ==
  /\ Becomes(cm)
  /\ backfill' = FALSE
  /\ event' = Quiet
  /\ UNCHANGED vbState

\* VBucket::setState.  It reads the open id, sets it and changes the state without a lock
\* around the three; here they are one step.
SetVBucketState(to) ==
  /\ to # vbState
  /\ Becomes(IF to = "active" /\ OpenId(cm) < 2 THEN SetOpenCheckpointId(cm, 2) ELSE cm)
  /\ vbState' = to
  /\ event' = Quiet
  /\ UNCHANGED backfill

Next ==
  \/ \E k \in Keys : QueueDirty(k)
  \/ QueueDirtyAborts
  \/ \E t \in TapNames : \/ NextItem(t)
                         \/ WaitAtCheckpointEnd(t)
                         \/ RegisterTAPCursor(t)
                         \/ RegisterTAPCursorStrays(t)
                         \/ RemoveTAPCursor(t)
  \/ GetAllItemsForPersistence
  \/ RemoveClosedUnrefCheckpoints
  \/ \E id \in 0..MaxCheckpointId : CheckpointStart(id) \/ CheckpointStartStrays(id)
  \/ \E id \in 1..MaxCheckpointId : CheckpointEnd(id)
  \/ CheckVBOpenCheckpoint
  \/ CreateNewCheckpoint
  \/ SetCheckpointExtension
  \/ Clear
  \/ InitialVBucketStream
  \/ CloseBackfill
  \/ \E to \in VBStates : SetVBucketState(to)

Spec == Init /\ [][Next]_vars
-----------------------------------------------------------------------------
(***************************************************************************)
(* Properties.                                                             *)
(***************************************************************************)

Checkpoint == [id : Nat, open : BOOLEAN, mid : [AllKeys -> Nat], cursors : SUBSET Names]
Cursor     == [chk : Nat, pos : AllKeys, offset : Int, closedOnly : BOOLEAN, openId : Nat]

Manager == [list : Seq(Checkpoint) \ {<<>>}, cursor : [Names -> Cursor],
            numItems : Int, mutationCounter : Nat, collapsed : BOOLEAN,
            extension : BOOLEAN, lastClosedId : Int, preChkId : Int]

\* Types.
TypeOK ==
  /\ cm \in Manager
  /\ vbState \in VBStates
  /\ backfill \in BOOLEAN
  /\ event \in [op : {"write", "give", "subscribe", "unsubscribe", "empty", "none"},
                who : Names, keys : SUBSET Keys]
  /\ failure \in {"none", "assertion", "stray cursor"}

\* The persistence cursor is always there, and every cursor is in a checkpoint of
\* the list, points to an item of it, and has its name registered there, so that
\* removeClosedUnrefCheckpoints never frees it.
CursorsLive ==
  \A c \in Registered(cm) \cup {Persistence} :
    /\ cm.cursor[c].chk \in DOMAIN cm.list
    /\ cm.cursor[c].pos \in Present(ChkOf(cm, c))
    /\ c \in ChkOf(cm, c).cursors

\* A registered name has a cursor: removeTAPCursor leaves none behind, for
\* checkAndAddNewCheckpoint looks the cursor up and uses it without a test.
NamesRegistered ==
  \A i \in DOMAIN cm.list : cm.list[i].cursors \subseteq Registered(cm)

\* No cursor points into the list of another checkpoint than its own.
NoStrayCursor == failure # "stray cursor"

\* A name is registered in no other checkpoint than its cursor's, so that an
\* empty set of names means an unreferenced checkpoint.
NamesExact ==
  \A i \in DOMAIN cm.list : \A c \in cm.list[i].cursors : cm.cursor[c].chk = i

\* Only the last checkpoint may be open, and exactly the closed ones end with
\* their end item: what is queued cannot come before it.
OnlyLastOpen ==
  \A i \in DOMAIN cm.list :
    /\ cm.list[i].open => i = Len(cm.list)
    /\ cm.list[i].open <=> cm.list[i].mid[End] = 0
    /\ ~cm.list[i].open => LastKey(cm.list[i]) = End

\* Checkpoint ids grow along the list, so that an id names one checkpoint.
IdsGrow == \A i, j \in DOMAIN cm.list : i < j => cm.list[i].id < cm.list[j].id

\* numItems, which every operation updates by differences, is the number of
\* documents and of start and end items in the list.
NumItemsExact ==
  cm.numItems = DocsIn(cm.list, Len(cm.list)) + 2 * Len(cm.list)
                  - (IF LastChk(cm).open THEN 1 ELSE 0)

\* Items, the start and end items among them, that a cursor has yet to reach.
ItemsAhead(m, c) ==
  LET here == m.cursor[c].chk
  IN Cardinality(After(ChkOf(m, c), m.cursor[c].pos))
       + Cardinality({d \in ((here + 1)..Len(m.list)) \X (AllKeys \ {Dummy}) :
                        m.list[d[1]].mid[d[2]] # 0})

\* What getNumItemsForPersistence and getNumItemsForTAPConnection compute from
\* numItems and the cursor's offset is the number of items ahead of the cursor,
\* whatever was deduplicated, dropped or collapsed meanwhile.
RemainingExact ==
  \A c \in Registered(cm) : cm.numItems - cm.cursor[c].offset = ItemsAhead(cm, c)

\* Mutant: one cursor that passed the key is enough.
EligibleForOne(m, k) ==
  \E c \in Registered(m) : \A i \in DOMAIN m.list :
    m.list[i].mid[k] <= ChkOf(m, c).mid[m.cursor[c].pos]

\* eligibleForEviction: the slowest cursor's mutation id is not below the key's.
EligibleForEviction(m, k) ==
  \A c \in Registered(m) : \A i \in DOMAIN m.list :
    m.list[i].mid[k] <= ChkOf(m, c).mid[m.cursor[c].pos]

\* A key that eligibleForEviction grants was visited by all the cursors.
EvictionSound ==
  \A k \in Keys : EligibleForEviction(cm, k) =>
    \A c \in Registered(cm) : k \notin Todo(cm, c)

\* The checkpoints up to preChkId (0: none yet) are closed, and no document of them
\* is ahead of the persistence cursor.
PreChkIdBehind(m) ==
  m.preChkId > 0 => \A i \in DOMAIN m.list : m.list[i].id <= m.preChkId =>
    /\ ~m.list[i].open
    /\ \/ Docs(m.list[i]) = {}
       \/ i < m.cursor[Persistence].chk
       \/ /\ i = m.cursor[Persistence].chk
          /\ After(m.list[i], m.cursor[Persistence].pos) \cap Keys = {}

\* A gap makes the code keep lastClosedId, also through a rollback that makes the
\* checkpoint of that id the open one again.
ClosedIdIsStale(m) == m.collapsed /\ m.lastClosedId >= OpenId(m)

\* pCursorPreCheckpointId, which is what gets reported as the last persisted
\* checkpoint, is set only when the flusher has got everything up to it.
PreChkIdSetBehind ==
  [][cm'.preChkId # cm.preChkId /\ ~ClosedIdIsStale(cm) => PreChkIdBehind(cm')]_vars

\* A client that reads closed checkpoints only is given no document of the
\* checkpoint that was open when it registered, nor of a later one, even if that
\* checkpoint is closed by the time the cursor gets there.
BackupReadsClosed ==
  [][\A t \in TapNames :
       event' # event /\ event'.op = "give" /\ event'.who = t /\ event'.keys # {}
       /\ cm'.cursor[t].closedOnly
         => /\ ~ChkOf(cm', t).open
            /\ ChkOf(cm', t).id < cm'.cursor[t].openId]_vars

\* queueDirty finds an open checkpoint.
NeverAborts == failure # "assertion"
-----------------------------------------------------------------------------
(***************************************************************************)
(* The flusher and the checkpoint remover run again and again.             *)
(***************************************************************************)

\* Weak fairness of the remover while there is something to free, written out
\* because ENABLED of the whole action is expensive.
RemoverRuns ==
  \/ []<>(failure # "none" \/ FirstReferenced(cm) = 1)
  \/ []<><<RemoveClosedUnrefCheckpoints>>_vars

FairSpec == Spec /\ WF_vars(GetAllItemsForPersistence) /\ RemoverRuns

\* What is queued reaches the flusher.
PersistenceDrains ==
  \A k \in Keys : (k \in Todo(cm, Persistence)) ~> (k \notin Todo(cm, Persistence))

\* Closed checkpoints that all cursors have left do not stay in memory.
UnreferencedFreed ==
  ~KeepClosed => (FirstReferenced(cm) > 1 ~> FirstReferenced(cm) = 1)
=============================================================================
