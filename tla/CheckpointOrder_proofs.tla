----------------------- MODULE CheckpointOrder_proofs -----------------------
(***************************************************************************)
(* The order of what is queued, for every set of keys and TAP connections  *)
(* and all bounds: mutation ids grow along a checkpoint and from one       *)
(* checkpoint to the next, only the last checkpoint is open, checkpoint    *)
(* ids grow, and a name is registered where its cursor is.                 *)
(*                                                                         *)
(* The first part says what each operation of the manager does to the list *)
(* of checkpoints and to the cursors, pointwise: predicates from which the *)
(* proofs about order, names, counts and the refinement start, instead of  *)
(* from the definitions.                                                   *)
(***************************************************************************)
EXTENDS CheckpointManager_proofs
-----------------------------------------------------------------------------
\* The items and the state of every checkpoint stay.
SameMids(m, q) ==
  /\ Len(q.list) = Len(m.list)
  /\ \A i \in 1..Len(m.list) : /\ q.list[i].mid = m.list[i].mid
                               /\ q.list[i].open = m.list[i].open

SameIds(m, q) == \A i \in 1..Len(m.list) : q.list[i].id = m.list[i].id

SameNames(m, q) == \A i \in 1..Len(m.list) : q.list[i].cursors = m.list[i].cursors

\* A cursor stays where it is.
Stays(m, q, d) ==
  /\ q.cursor[d].chk = m.cursor[d].chk
  /\ q.cursor[d].pos = m.cursor[d].pos

\* The parts of a well-shaped manager, typed.
LEMMA Parts ==
  ASSUME NEW m, ManagerOK(m)
  PROVE  /\ Len(m.list) \in Nat \ {0} /\ m \in Record(Len(m.list))
         /\ DOMAIN m.list = 1..Len(m.list) /\ LastChk(m) = m.list[Len(m.list)]
         /\ m.list \in [1..Len(m.list) -> Checkpoint] /\ m.cursor \in [Names -> Cursor]
         /\ m.mutationCounter \in Nat
         /\ Persistence \in Registered(m) /\ Registered(m) \subseteq Names
         /\ \A i \in 1..Len(m.list) :
              /\ m.list[i] \in Checkpoint /\ m.list[i].mid \in [AllKeys -> Nat]
              /\ m.list[i].open \in BOOLEAN /\ m.list[i].id \in Nat
              /\ m.list[i].cursors \subseteq Registered(m)
              /\ \A k \in AllKeys : m.list[i].mid[k] \in Nat /\ m.list[i].mid[k] <= m.mutationCounter
              /\ m.list[i].mid[Dummy] # 0 /\ m.list[i].mid[Start] # 0
         /\ \A d \in Names : m.cursor[d] \in Cursor /\ m.cursor[d].pos \in AllKeys
         /\ \A d \in Registered(m) :
              /\ m.cursor[d].chk \in 1..Len(m.list)
              /\ m.list[m.cursor[d].chk].mid[m.cursor[d].pos] # 0
              /\ d \in m.list[m.cursor[d].chk].cursors
         /\ \A d \in Names \ Registered(m) : m.cursor[d].chk = 0
<1>1. ShapeOK(m) /\ Assembled(m, Len(m.list))
  BY Disassemble DEF ManagerOK
<1>2. DOMAIN m.list = 1..Len(m.list) /\ LastChk(m) = m.list[Len(m.list)]
  BY <1>1, ShapeFacts
<1>3. m.list \in [1..Len(m.list) -> Checkpoint] /\ m.cursor \in [Names -> Cursor]
      /\ m.mutationCounter \in Nat
  BY <1>1 DEF Assembled, Record
<1>4. \A i \in 1..Len(m.list) :
        /\ m.list[i] \in Checkpoint /\ m.list[i].mid \in [AllKeys -> Nat]
        /\ m.list[i].open \in BOOLEAN /\ m.list[i].id \in Nat
        /\ m.list[i].cursors \subseteq Registered(m)
        /\ \A k \in AllKeys : m.list[i].mid[k] \in Nat /\ m.list[i].mid[k] <= m.mutationCounter
        /\ m.list[i].mid[Dummy] # 0 /\ m.list[i].mid[Start] # 0
  BY <1>1, <1>3 DEF Assembled, ChkOK, Checkpoint
<1>5. \A d \in Names : m.cursor[d] \in Cursor /\ m.cursor[d].pos \in AllKeys
  BY <1>3 DEF Cursor
<1> QED
  BY <1>1, <1>2, <1>3, <1>4, <1>5 DEF Assembled, Registered

\* queueDirty's part on the last checkpoint, which is open, or closed by it.
ItemQueued(m, k, q) ==
  LET n == Len(m.list) IN
  /\ Len(q.list) = n
  /\ q.mutationCounter = m.mutationCounter + 1 /\ q.preChkId = m.preChkId
  /\ \A i \in 1..n : /\ i # n => q.list[i] = m.list[i]
                     /\ q.list[i].id = m.list[i].id
                     /\ q.list[i].cursors = m.list[i].cursors
  /\ \A j \in AllKeys : q.list[n].mid[j] = IF j = k THEN q.mutationCounter
                                           ELSE m.list[n].mid[j]
  /\ \A d \in Names :
       /\ q.cursor[d].chk = m.cursor[d].chk
       /\ q.cursor[d].pos = IF m.cursor[d].chk = n /\ m.cursor[d].pos = k /\ m.list[n].mid[k] # 0
                            THEN PrevKey(m.list[n], k) ELSE m.cursor[d].pos

\* Checkpoint::queueDirty puts the item behind all others of the last checkpoint.
LEMMA QueueItemEffect ==
  ASSUME NEW m, ManagerOK(m), NEW k \in AllKeys \ {Dummy}
  PROVE  /\ ItemQueued(m, k, QueueItem(m, k))
         /\ QueueItem(m, k).list[Len(m.list)].open = LastChk(m).open
<1> DEFINE q == QueueItem(m, k)
           n == Len(m.list)
           c == m.list[n]
           new == m.mutationCounter + 1
<1>1. /\ n \in 1..n /\ n \in Nat /\ c \in Checkpoint /\ m \in Record(n)
      /\ m.list \in [1..n -> Checkpoint] /\ m.cursor \in [Names -> Cursor]
      /\ \A i \in 1..n : m.list[i] \in Checkpoint
      /\ \A d \in Names : m.cursor[d] \in Cursor
      /\ LastChk(m) = c
  BY Parts
<1>2. /\ q.list = [m.list EXCEPT ![n] = [c EXCEPT !.mid = [c.mid EXCEPT ![k] = new]]]
      /\ q.mutationCounter = new /\ q.preChkId = m.preChkId
  BY <1>1 DEF QueueItem, Record
<1>3. ASSUME NEW d \in Names
      PROVE  q.cursor[d] = IF m.cursor[d].chk = n /\ c.mid[k] # 0
                           THEN [m.cursor[d] EXCEPT
                                   !.offset = IF c.mid[k] <= c.mid[m.cursor[d].pos]
                                              THEN DecrOffset(m.cursor[d].offset, 1)
                                              ELSE m.cursor[d].offset,
                                   !.pos = IF m.cursor[d].pos = k THEN PrevKey(c, k)
                                           ELSE m.cursor[d].pos]
                           ELSE m.cursor[d]
  BY <1>1 DEF QueueItem, Record, Cursor
<1>4. Len(q.list) = n
  BY QueueItemOK
<1> HIDE DEF q, n, c, new
<1>5. ASSUME NEW d \in Names
      PROVE  /\ q.cursor[d].chk = m.cursor[d].chk
             /\ q.cursor[d].pos = IF m.cursor[d].chk = n /\ m.cursor[d].pos = k /\ c.mid[k] # 0
                                  THEN PrevKey(c, k) ELSE m.cursor[d].pos
  BY <1>1, <1>3 DEF Cursor
<1>6. \A i \in 1..n : i # n => q.list[i] = m.list[i]
  BY <1>1, <1>2
<1>7. q.list[n] = [c EXCEPT !.mid = [c.mid EXCEPT ![k] = new]]
  BY <1>1, <1>2
<1>8. /\ q.list[n].id = c.id /\ q.list[n].cursors = c.cursors /\ q.list[n].open = c.open
      /\ q.list[n].mid = [c.mid EXCEPT ![k] = new]
  BY <1>1, <1>7 DEF Checkpoint
<1>9. \A j \in AllKeys : q.list[n].mid[j] = IF j = k THEN new ELSE c.mid[j]
  BY <1>1, <1>8 DEF Checkpoint
<1> QED
  BY <1>1, <1>2, <1>4, <1>5, <1>6, <1>8, <1>9 DEF ItemQueued, q, n, c, new

\* Its end item is queued to the last checkpoint, and that is closed.
IsClosed(m, q) == /\ LastChk(m).open /\ ItemQueued(m, End, q)
                  /\ ~q.list[Len(m.list)].open

\* closeOpenCheckpoint_UNLOCKED queues an end item, or does nothing.
LEMMA CloseOpenEffect ==
  ASSUME NEW m, ManagerOK(m), NEW id
  PROVE  IF id = LastChk(m).id /\ LastChk(m).open
         THEN IsClosed(m, CloseOpenCheckpoint(m, id))
         ELSE CloseOpenCheckpoint(m, id) = m
<1> DEFINE z == CloseOpenCheckpoint(m, id)
           q == QueueItem(m, End)
           n == Len(m.list)
<1>1. SUFFICES ASSUME id = LastChk(m).id, LastChk(m).open
               PROVE  ItemQueued(m, End, z) /\ ~z.list[n].open
  BY DEF CloseOpenCheckpoint, IsClosed
<1>2. ManagerOK(q) /\ Len(q.list) = n /\ ItemQueued(m, End, q)
  BY QueueItemOK, QueueItemEffect, MetaKeysDiffer DEF MetaFact
<1>3. /\ q \in Record(n) /\ q.list \in [1..n -> Checkpoint] /\ n \in 1..n
      /\ \A i \in 1..n : q.list[i] \in Checkpoint
  BY <1>2, Parts
<1> HIDE DEF q, n
<1>4. z = [q EXCEPT !.numItems = @ + 1, !.list[n].open = FALSE]
  BY <1>1, <1>2 DEF CloseOpenCheckpoint, q, n
<1> HIDE DEF z
<1>5. /\ z.list = [q.list EXCEPT ![n] = [q.list[n] EXCEPT !.open = FALSE]]
      /\ z.cursor = q.cursor /\ z.mutationCounter = q.mutationCounter
      /\ z.preChkId = q.preChkId
  BY <1>3, <1>4 DEF Record
<1>6. z.list[n] = [q.list[n] EXCEPT !.open = FALSE] /\ \A i \in 1..n : i # n => z.list[i] = q.list[i]
  BY <1>3, <1>5
<1>7. /\ z.list[n].open = FALSE /\ z.list[n].mid = q.list[n].mid
      /\ z.list[n].id = q.list[n].id /\ z.list[n].cursors = q.list[n].cursors
  BY <1>3, <1>6 DEF Checkpoint
<1>8. Len(z.list) = n
  BY CloseOpenOK DEF z, n
<1> QED
  BY <1>2, <1>3, <1>5, <1>6, <1>7, <1>8 DEF ItemQueued, n


\* Another set of names at a checkpoint, and nothing else.
LEMMA NamesChange ==
  ASSUME NEW c \in Checkpoint, NEW S, NEW x, x = [c EXCEPT !.cursors = S]
  PROVE  x.mid = c.mid /\ x.open = c.open /\ x.id = c.id /\ x.cursors = S
BY DEF Checkpoint

\* The length of a list is told by its domain.
LEMMA DomainLen ==
  ASSUME NEW q, ShapeOK(q), NEW n \in Nat \ {0}, DOMAIN q.list = 1..n
  PROVE  Len(q.list) = n
<1>1. Len(q.list) \in Nat \ {0} /\ 1..Len(q.list) = 1..n
  BY ShapeFacts
<1>2. n \in 1..Len(q.list) /\ Len(q.list) \in 1..n
  BY <1>1
<1> QED
  BY <1>1, <1>2

\* moveCursorToNextCheckpoint.
MovedOn(m, c, q) ==
  LET here == m.cursor[c].chk
  IN /\ SameMids(m, q) /\ SameIds(m, q)
     /\ here \in 1..(Len(m.list) - 1) /\ ~m.list[here].open
     /\ q.mutationCounter = m.mutationCounter /\ q.preChkId = m.preChkId
     /\ \A i \in 1..Len(m.list) :
          q.list[i].cursors = IF i = here THEN m.list[i].cursors \ {c}
                              ELSE IF i = here + 1 THEN m.list[i].cursors \cup {c}
                              ELSE m.list[i].cursors
     /\ q.cursor[c] \in Cursor
     /\ q.cursor[c].chk = here + 1 /\ q.cursor[c].pos = Dummy
     /\ q.cursor[c].closedOnly = m.cursor[c].closedOnly
     /\ q.cursor[c].openId = m.cursor[c].openId
     /\ \A d \in Names \ {c} : q.cursor[d] = m.cursor[d]

\* moveCursorToNextCheckpoint.
LEMMA MoveCursorEffect ==
  ASSUME NEW m, ManagerOK(m), NEW c \in Registered(m), CanMoveNext(m, c)
  PROVE  MovedOn(m, c, MoveCursorToNextCheckpoint(m, c))
<1> DEFINE q == MoveCursorToNextCheckpoint(m, c)
           n == Len(m.list)
           here == m.cursor[c].chk
<1>1. /\ n \in Nat \ {0} /\ m \in Record(n) /\ DOMAIN m.list = 1..n
      /\ m.cursor \in [Names -> Cursor] /\ m.cursor[c] \in Cursor /\ c \in Names
      /\ \A i \in 1..n : m.list[i] \in Checkpoint
      /\ here \in 1..n
  BY Parts
<1>2. here < n /\ ~m.list[here].open
  BY DEF CanMoveNext, ChkOf
<1>3. /\ q.list = [i \in 1..n |->
                     IF i = here THEN [m.list[i] EXCEPT !.cursors = @ \ {c}]
                     ELSE IF i = here + 1 THEN [m.list[i] EXCEPT !.cursors = @ \cup {c}]
                     ELSE m.list[i]]
      /\ q.cursor = [m.cursor EXCEPT ![c].chk = here + 1, ![c].pos = Dummy]
      /\ q.mutationCounter = m.mutationCounter /\ q.preChkId = m.preChkId
  BY <1>1 DEF MoveCursorToNextCheckpoint, Record
<1>4. ShapeOK(q)
  BY MoveCursorOK DEF ManagerOK
<1> HIDE DEF q, n, here
<1>5. Len(q.list) = n
  BY <1>1, <1>3, <1>4, DomainLen
<1>6. ASSUME NEW i \in 1..n
      PROVE  /\ q.list[i].mid = m.list[i].mid /\ q.list[i].open = m.list[i].open
             /\ q.list[i].id = m.list[i].id
             /\ q.list[i].cursors = IF i = here THEN m.list[i].cursors \ {c}
                                    ELSE IF i = here + 1 THEN m.list[i].cursors \cup {c}
                                    ELSE m.list[i].cursors
  <2>1. CASE i = here
    <3>1. q.list[i] = [m.list[i] EXCEPT !.cursors = m.list[i].cursors \ {c}]
      BY <1>3, <2>1
    <3> QED
      BY <1>1, <2>1, <3>1, NamesChange
  <2>2. CASE i # here /\ i = here + 1
    <3>1. q.list[i] = [m.list[i] EXCEPT !.cursors = m.list[i].cursors \cup {c}]
      BY <1>3, <2>2
    <3> QED
      BY <1>1, <2>2, <3>1, NamesChange
  <2>3. CASE i # here /\ i # here + 1
    BY <1>3, <2>3
  <2> QED
    BY <2>1, <2>2, <2>3
<1>7. /\ q.cursor[c] \in Cursor
      /\ q.cursor[c].chk = here + 1 /\ q.cursor[c].pos = Dummy
      /\ q.cursor[c].closedOnly = m.cursor[c].closedOnly
      /\ q.cursor[c].openId = m.cursor[c].openId
      /\ \A d \in Names \ {c} : q.cursor[d] = m.cursor[d]
  <2>1. q.cursor[c] = [m.cursor[c] EXCEPT !.chk = here + 1, !.pos = Dummy]
        /\ \A d \in Names \ {c} : q.cursor[d] = m.cursor[d]
    BY <1>1, <1>3
  <2>2. Dummy \in AllKeys /\ here + 1 \in Nat
    BY <1>1, MetaKeysDiffer DEF MetaFact
  <2> QED
    BY <1>1, <2>1, <2>2 DEF Cursor
<1>8. here \in 1..(n - 1)
  BY <1>1, <1>2
<1> QED
  BY <1>2, <1>3, <1>5, <1>6, <1>7, <1>8 DEF MovedOn, SameMids, SameIds, q, n, here

\* resetCursors.
IsReset(m, q) ==
   /\ SameMids(m, q) /\ SameIds(m, q)
   /\ q.mutationCounter = m.mutationCounter /\ q.preChkId = m.preChkId
   /\ Registered(q) = Registered(m)
   /\ \A i \in 1..Len(m.list) :
        q.list[i].cursors = IF i = 1 THEN m.list[i].cursors \cup Registered(m)
                            ELSE m.list[i].cursors
   /\ \A d \in Registered(m) : q.cursor[d].chk = 1 /\ q.cursor[d].pos = Dummy
   /\ \A d \in Names \ Registered(m) : q.cursor[d] = m.cursor[d]

\* resetCursors puts every cursor at the first checkpoint's dummy.
LEMMA ResetCursorsEffect ==
  ASSUME NEW m, ShapeOK(m)
  PROVE  IsReset(m, ResetCursors(m))
<1> DEFINE q == ResetCursors(m)
           n == Len(m.list)
           R == Registered(m)
<1>1. /\ n \in Nat \ {0} /\ m \in Record(n) /\ DOMAIN m.list = 1..n
      /\ m.cursor \in [Names -> Cursor] /\ R = {d \in Names : m.cursor[d].chk # 0}
      /\ \A i \in 1..n : m.list[i] \in Checkpoint
  BY ShapeFacts DEF Record
<1>2. /\ q.list = [i \in 1..n |-> IF i = 1 THEN [m.list[i] EXCEPT !.cursors = @ \cup R]
                                  ELSE m.list[i]]
      /\ q.cursor = [c \in Names |->
                       IF c \in R
                       THEN [m.cursor[c] EXCEPT !.chk = 1, !.pos = Dummy, !.offset = 0]
                       ELSE m.cursor[c]]
      /\ q.mutationCounter = m.mutationCounter /\ q.preChkId = m.preChkId
  BY <1>1 DEF ResetCursors, Record
<1>3. ShapeOK(q)
  BY ResetCursorsOK DEF ManagerOK
<1> HIDE DEF q, n, R
<1>4. Len(q.list) = n
  BY <1>1, <1>2, <1>3, DomainLen
<1>5. ASSUME NEW i \in 1..n
      PROVE  /\ q.list[i].mid = m.list[i].mid /\ q.list[i].open = m.list[i].open
             /\ q.list[i].id = m.list[i].id
             /\ q.list[i].cursors = IF i = 1 THEN m.list[i].cursors \cup R
                                    ELSE m.list[i].cursors
  <2>1. CASE i = 1
    <3>1. q.list[i] = [m.list[i] EXCEPT !.cursors = m.list[i].cursors \cup R]
      BY <1>2, <2>1
    <3> QED
      BY <1>1, <2>1, <3>1, NamesChange
  <2>2. CASE i # 1
    BY <1>2, <2>2
  <2> QED
    BY <2>1, <2>2
<1>6. ASSUME NEW d \in Names
      PROVE  /\ d \in R => q.cursor[d].chk = 1 /\ q.cursor[d].pos = Dummy
             /\ d \notin R => q.cursor[d] = m.cursor[d]
  <2>1. m.cursor[d] \in Cursor
    BY <1>1
  <2>2. q.cursor[d] = IF d \in R
                      THEN [m.cursor[d] EXCEPT !.chk = 1, !.pos = Dummy, !.offset = 0]
                      ELSE m.cursor[d]
    BY <1>2
  <2> QED
    BY <2>1, <2>2 DEF Cursor
<1>7. Registered(q) = R
  BY <1>1, <1>6 DEF Registered
<1>8. R \subseteq Names
  BY <1>1
<1> QED
  BY <1>2, <1>4, <1>5, <1>6, <1>7, <1>8 DEF IsReset, SameMids, SameIds, q, n, R

\* setOpenCheckpointId.
IdIsSet(m, id, q) ==
   /\ SameMids(m, q) /\ SameNames(m, q)
   /\ q.cursor = m.cursor /\ q.preChkId = m.preChkId
   /\ q.mutationCounter = m.mutationCounter /\ Registered(q) = Registered(m)
   /\ \A i \in 1..Len(m.list) : q.list[i].id = IF i = Len(m.list) THEN id
                                               ELSE m.list[i].id

\* setOpenCheckpointId changes no item.
LEMMA SetOpenIdEffect ==
  ASSUME NEW m, ShapeOK(m), NEW id \in Nat
  PROVE  IdIsSet(m, id, SetOpenCheckpointId(m, id))
<1> DEFINE q == SetOpenCheckpointId(m, id)
           n == Len(m.list)
<1>1. /\ n \in Nat \ {0} /\ m \in Record(n) /\ DOMAIN m.list = 1..n
      /\ m.list \in [1..n -> Checkpoint]
  BY ShapeFacts DEF Record
<1>2. /\ q.list = [m.list EXCEPT ![n] = [m.list[n] EXCEPT !.id = id]]
      /\ q.cursor = m.cursor /\ q.preChkId = m.preChkId
      /\ q.mutationCounter = m.mutationCounter
  BY <1>1 DEF SetOpenCheckpointId, Record
<1>3. ShapeOK(q)
  BY SetOpenIdOK
<1> HIDE DEF q, n
<1>4. Len(q.list) = n
  BY <1>1, <1>2, <1>3, DomainLen
<1>5. /\ q.list[n] = [m.list[n] EXCEPT !.id = id] /\ m.list[n] \in Checkpoint
      /\ \A i \in 1..n : i # n => q.list[i] = m.list[i]
  BY <1>1, <1>2
<1>6. /\ q.list[n].mid = m.list[n].mid /\ q.list[n].open = m.list[n].open
      /\ q.list[n].id = id /\ q.list[n].cursors = m.list[n].cursors
  BY <1>5 DEF Checkpoint
<1> QED
  BY <1>2, <1>4, <1>5, <1>6 DEF IdIsSet, SameMids, SameNames, Registered, q, n

\* addNewCheckpoint_UNLOCKED's new checkpoint.
IsAppended(m, id, q) ==
  LET n == Len(m.list)
  IN
   /\ Len(q.list) = n + 1 /\ q.cursor = m.cursor /\ q.preChkId = m.preChkId
   /\ q.mutationCounter = m.mutationCounter + 2
   /\ \A i \in 1..n : q.list[i] = m.list[i]
   /\ q.list[n + 1] \in Checkpoint
   /\ q.list[n + 1].id = id /\ q.list[n + 1].open /\ q.list[n + 1].cursors = {}
   /\ \A k \in AllKeys : q.list[n + 1].mid[k] =
        IF k = Dummy THEN m.mutationCounter + 1
        ELSE IF k = Start THEN m.mutationCounter + 2 ELSE 0

\* The new checkpoint of addNewCheckpoint_UNLOCKED comes after all others.
LEMMA AppendedEffect ==
  ASSUME NEW m, ManagerOK(m), NEW id \in Nat
  PROVE  IsAppended(m, id, Appended(m, id))
<1> DEFINE q == Appended(m, id)
           n == Len(m.list)
           c == NewCheckpoint(id, m.mutationCounter)
<1>1. n \in Nat /\ m \in Record(n) /\ m.mutationCounter \in Nat
  BY Parts
<1>2. m.list \in Seq(Checkpoint) /\ c \in Checkpoint
  BY <1>1, NewCheckpointOK DEF ManagerOK, ShapeOK, Manager, ChkOK
<1>3. /\ c.id = id /\ c.open /\ c.cursors = {}
      /\ \A k \in AllKeys : c.mid[k] = IF k = Dummy THEN m.mutationCounter + 1
                                       ELSE IF k = Start THEN m.mutationCounter + 2 ELSE 0
  BY DEF NewCheckpoint
<1> HIDE DEF c
<1>4. /\ q.list = Append(m.list, c) /\ q.cursor = m.cursor /\ q.preChkId = m.preChkId
      /\ q.mutationCounter = m.mutationCounter + 2
  BY <1>1 DEF Appended, Record, c
<1> HIDE DEF q
<1>5. /\ Len(q.list) = n + 1 /\ q.list[n + 1] = c
      /\ \A i \in 1..n : q.list[i] = m.list[i]
  BY <1>2, <1>4, AppendProperties
<1> QED
  BY <1>2, <1>3, <1>4, <1>5 DEF IsAppended, q

\* registerTAPCursor_UNLOCKED.
IsRegistered(m, c, at, q) ==
   /\ SameMids(m, q) /\ SameIds(m, q) /\ at \in 1..Len(m.list)
   /\ q.mutationCounter = m.mutationCounter /\ q.preChkId = m.preChkId
   /\ \A i \in 1..Len(m.list) :
        q.list[i].cursors = IF i = at THEN m.list[i].cursors \cup {c}
                            ELSE IF i = m.cursor[c].chk THEN m.list[i].cursors \ {c}
                            ELSE m.list[i].cursors
   /\ q.cursor[c].chk = at
   /\ \A d \in Names \ {c} : q.cursor[d] = m.cursor[d]

\* registerTAPCursor_UNLOCKED moves the cursor and its name, and nobody else's.
LEMMA RegisterCursorEffect ==
  ASSUME NEW m, ManagerOK(m), NEW c \in Names, NEW id, NEW closedOnly \in BOOLEAN,
         NEW fromBeginning,
         KeepsPosition(m, c, id, fromBeginning) => m.cursor[c].chk = ChkWithId(m, id)
  PROVE  IsRegistered(m, c, ChkWithId(m, id),
                      RegisterCursor(m, c, id, closedOnly, fromBeginning))
<1> DEFINE q == RegisterCursor(m, c, id, closedOnly, fromBeginning)
           n == Len(m.list)
           at == ChkWithId(m, id)
<1>1. /\ n \in Nat \ {0} /\ m \in Record(n) /\ DOMAIN m.list = 1..n
      /\ m.cursor \in [Names -> Cursor] /\ at \in 1..n
      /\ \A i \in 1..n : m.list[i] \in Checkpoint
  BY Parts, ChkWithIdType
<1>2. /\ q.list = [i \in 1..n |->
                     IF i = at THEN [m.list[i] EXCEPT !.cursors = @ \cup {c}]
                     ELSE IF i = m.cursor[c].chk
                     THEN [m.list[i] EXCEPT !.cursors = @ \ {c}]
                     ELSE m.list[i]]
      /\ q.mutationCounter = m.mutationCounter /\ q.preChkId = m.preChkId
  BY <1>1 DEF RegisterCursor, Record
<1>3. \E x : /\ x.chk = at /\ q.cursor = [m.cursor EXCEPT ![c] = x]
  <2> DEFINE y == [chk |-> at,
                   pos |-> IF KeepsPosition(m, c, id, fromBeginning) THEN m.cursor[c].pos
                           ELSE Dummy,
                   offset |-> IF {i \in DOMAIN m.list : m.list[i].id = id} = {}
                              THEN m.numItems - (NumDocs(LastChk(m)) + 1)
                              ELSE IF KeepsPosition(m, c, id, fromBeginning)
                              THEN m.cursor[c].offset
                              ELSE DocsIn(m.list, at - 1) + 2 * (at - 1),
                   closedOnly |-> closedOnly,
                   openId |-> IF closedOnly THEN OpenId(m) ELSE 0]
  <2>1. q.cursor = [m.cursor EXCEPT ![c] = y]
    BY <1>1 DEF RegisterCursor, Record
  <2>2. y.chk = at
    OBVIOUS
  <2> HIDE DEF y
  <2> QED
    BY <2>1, <2>2
<1>4. ShapeOK(q)
  BY RegisterCursorOK DEF ManagerOK
<1> HIDE DEF q, n, at
<1>5. Len(q.list) = n
  BY <1>1, <1>2, <1>4, DomainLen
<1>6. ASSUME NEW i \in 1..n
      PROVE  /\ q.list[i].mid = m.list[i].mid /\ q.list[i].open = m.list[i].open
             /\ q.list[i].id = m.list[i].id
             /\ q.list[i].cursors = IF i = at THEN m.list[i].cursors \cup {c}
                                    ELSE IF i = m.cursor[c].chk THEN m.list[i].cursors \ {c}
                                    ELSE m.list[i].cursors
  <2>1. CASE i = at
    <3>1. q.list[i] = [m.list[i] EXCEPT !.cursors = m.list[i].cursors \cup {c}]
      BY <1>2, <2>1
    <3> QED
      BY <1>1, <2>1, <3>1, NamesChange
  <2>2. CASE i # at /\ i = m.cursor[c].chk
    <3>1. q.list[i] = [m.list[i] EXCEPT !.cursors = m.list[i].cursors \ {c}]
      BY <1>2, <2>2
    <3> QED
      BY <1>1, <2>2, <3>1, NamesChange
  <2>3. CASE i # at /\ i # m.cursor[c].chk
    BY <1>2, <2>3
  <2> QED
    BY <2>1, <2>2, <2>3
<1>7. q.cursor[c].chk = at /\ \A d \in Names \ {c} : q.cursor[d] = m.cursor[d]
  BY <1>1, <1>3
<1> QED
  BY <1>1, <1>2, <1>5, <1>6, <1>7 DEF IsRegistered, SameMids, SameIds, q, n, at

\* removeTAPCursor.
IsRemoved(m, c, q) ==
   /\ SameMids(m, q) /\ SameIds(m, q)
   /\ q.mutationCounter = m.mutationCounter /\ q.preChkId = m.preChkId
   /\ \A i \in 1..Len(m.list) : q.list[i].cursors = m.list[i].cursors \ {c}
   /\ q.cursor[c].chk = 0
   /\ \A d \in Names \ {c} : q.cursor[d] = m.cursor[d]

\* removeTAPCursor.
LEMMA RemoveCursorEffect ==
  ASSUME NEW m, ManagerOK(m), NEW c \in Names, c # Persistence
  PROVE  IsRemoved(m, c, RemoveCursor(m, c))
<1> DEFINE q == RemoveCursor(m, c)
           n == Len(m.list)
<1>1. /\ n \in Nat \ {0} /\ m \in Record(n) /\ DOMAIN m.list = 1..n
      /\ m.cursor \in [Names -> Cursor]
      /\ \A i \in 1..n : /\ m.list[i] \in Checkpoint
                         /\ m.list[i].cursors \subseteq Registered(m)
  BY Parts
<1>2. CASE m.cursor[c].chk = 0
  <2>1. q = m /\ c \notin Registered(m)
    BY <1>2 DEF RemoveCursor, Registered
  <2>2. \A i \in 1..n : m.list[i].cursors = m.list[i].cursors \ {c}
    BY <1>1, <2>1
  <2> QED
    BY <1>2, <2>1, <2>2 DEF IsRemoved, SameMids, SameIds
<1>3. CASE m.cursor[c].chk # 0
  <2>1. /\ q.list = [i \in 1..n |-> [m.list[i] EXCEPT !.cursors = @ \ {c}]]
        /\ q.cursor = [m.cursor EXCEPT ![c] = NoCursor]
        /\ q.mutationCounter = m.mutationCounter /\ q.preChkId = m.preChkId
    BY <1>1, <1>3 DEF RemoveCursor, Record
  <2>2. ShapeOK(q)
    BY RemoveCursorOK DEF ManagerOK
  <2> HIDE DEF q, n
  <2>3. Len(q.list) = n
    BY <1>1, <2>1, <2>2, DomainLen
  <2>4. ASSUME NEW i \in 1..n
        PROVE  /\ q.list[i].mid = m.list[i].mid /\ q.list[i].open = m.list[i].open
               /\ q.list[i].id = m.list[i].id
               /\ q.list[i].cursors = m.list[i].cursors \ {c}
    <3>1. q.list[i] = [m.list[i] EXCEPT !.cursors = m.list[i].cursors \ {c}]
      BY <2>1
    <3> QED
      BY <1>1, <3>1, NamesChange
  <2>5. q.cursor[c].chk = 0 /\ \A d \in Names \ {c} : q.cursor[d] = m.cursor[d]
    BY <1>1, <2>1, NoCursorType
  <2> QED
    BY <2>1, <2>3, <2>4, <2>5 DEF IsRemoved, SameMids, SameIds, q, n
<1> QED
  BY <1>2, <1>3

\* The cursors that a new checkpoint makes move on.
Finished(m, oldId) == {c \in Registered(m) : /\ ChkOf(m, c).id = oldId
                                             /\ AtEnd(m, c) /\ CanMoveNext(m, c)}

HaveMovedOn(m, done, q) ==
   /\ SameMids(m, q) /\ SameIds(m, q)
   /\ q.mutationCounter = m.mutationCounter /\ q.preChkId = m.preChkId
   /\ \A i \in 1..Len(m.list) :
        q.list[i].cursors = (m.list[i].cursors \ {c \in done : m.cursor[c].chk = i})
                              \cup {c \in done : m.cursor[c].chk = i - 1}
   /\ \A c \in done : /\ m.cursor[c].chk \in 1..(Len(m.list) - 1)
                      /\ q.cursor[c].chk = m.cursor[c].chk + 1
                      /\ q.cursor[c].pos = Dummy
   /\ \A c \in Names \ done : q.cursor[c] = m.cursor[c]

\* The cursors that are done with the closed checkpoint go on to the next one.
LEMMA MoveFinishedEffect ==
  ASSUME NEW m, ManagerOK(m), NEW oldId
  PROVE  HaveMovedOn(m, Finished(m, oldId), MoveFinishedCursors(m, oldId))
<1> DEFINE q == MoveFinishedCursors(m, oldId)
           n == Len(m.list)
           done == Finished(m, oldId)
<1>1. /\ n \in Nat \ {0} /\ m \in Record(n) /\ DOMAIN m.list = 1..n
      /\ m.cursor \in [Names -> Cursor] /\ Registered(m) \subseteq Names
      /\ \A i \in 1..n : m.list[i] \in Checkpoint
      /\ \A d \in Registered(m) : m.cursor[d].chk \in 1..n
  BY Parts
<1>2. /\ q.list = [i \in 1..n |->
                     [m.list[i] EXCEPT !.cursors =
                        (@ \ {c \in done : m.cursor[c].chk = i})
                          \cup {c \in done : m.cursor[c].chk = i - 1}]]
      /\ q.cursor = [c \in Names |->
                       IF c \in done
                       THEN [m.cursor[c] EXCEPT !.chk = @ + 1, !.pos = Dummy]
                       ELSE m.cursor[c]]
      /\ q.mutationCounter = m.mutationCounter /\ q.preChkId = m.preChkId
  BY <1>1 DEF MoveFinishedCursors, Record, Finished
<1>3. ShapeOK(q)
  BY MoveFinishedCursorsOK DEF ManagerOK
<1>4. done \subseteq Registered(m) /\ \A c \in done : m.cursor[c].chk < n
  BY DEF CanMoveNext, Finished
<1> HIDE DEF q, n, done
<1>5. Len(q.list) = n
  BY <1>1, <1>2, <1>3, DomainLen
<1>6. ASSUME NEW i \in 1..n
      PROVE  /\ q.list[i].mid = m.list[i].mid /\ q.list[i].open = m.list[i].open
             /\ q.list[i].id = m.list[i].id
             /\ q.list[i].cursors = (m.list[i].cursors \ {c \in done : m.cursor[c].chk = i})
                                       \cup {c \in done : m.cursor[c].chk = i - 1}
  <2> DEFINE C == (m.list[i].cursors \ {c \in done : m.cursor[c].chk = i})
                     \cup {c \in done : m.cursor[c].chk = i - 1}
  <2>1. q.list[i] = [m.list[i] EXCEPT !.cursors = C]
    BY <1>2
  <2> HIDE DEF C
  <2>2. q.list[i].mid = m.list[i].mid /\ q.list[i].open = m.list[i].open
        /\ q.list[i].id = m.list[i].id /\ q.list[i].cursors = C
    BY <1>1, <2>1, NamesChange
  <2> QED
    BY <2>2 DEF C
<1>7. ASSUME NEW c \in done
      PROVE  /\ m.cursor[c].chk \in 1..(n - 1)
             /\ q.cursor[c].chk = m.cursor[c].chk + 1 /\ q.cursor[c].pos = Dummy
  <2>1. m.cursor[c] \in Cursor /\ c \in Names /\ m.cursor[c].chk \in 1..(n - 1)
    BY <1>1, <1>4
  <2>2. q.cursor[c] = [m.cursor[c] EXCEPT !.chk = m.cursor[c].chk + 1, !.pos = Dummy]
    BY <1>2, <2>1
  <2> QED
    BY <2>1, <2>2 DEF Cursor
<1>8. \A c \in Names \ done : q.cursor[c] = m.cursor[c]
  BY <1>2
<1> QED
  BY <1>2, <1>5, <1>6, <1>7, <1>8 DEF HaveMovedOn, SameMids, SameIds, q, n, done

\* The scan of removeClosedUnrefCheckpoints takes r checkpoints off the front.
IsCut(m, r, q) ==
  LET n == Len(m.list)
  IN
   /\ r \in Nat /\ r < n /\ Len(q.list) = n - r
   /\ q.mutationCounter = m.mutationCounter /\ q.preChkId = m.preChkId
   /\ \A i \in 1..(n - r) :
        /\ q.list[i].mid = m.list[i + r].mid /\ q.list[i].open = m.list[i + r].open
        /\ q.list[i].id = m.list[i + r].id
        /\ q.list[i].cursors \subseteq m.list[i + r].cursors
   /\ \A d \in Registered(m) : /\ r < m.cursor[d].chk
                               /\ q.cursor[d].chk = m.cursor[d].chk - r
                               /\ q.cursor[d].pos = m.cursor[d].pos
   /\ \A d \in Names \ Registered(m) : q.cursor[d] = m.cursor[d]

\* What removeClosedUnrefCheckpoints cuts off, and who moves up.
LEMMA DropUnrefEffect ==
  ASSUME NEW m, ManagerOK(m)
  PROVE  IsCut(m, NumUnref(m), DropUnref(m))
<1> DEFINE q == DropUnref(m)
           n == Len(m.list)
           r == NumUnref(m)
           gone == DocsIn(m.list, r) + 2 * r
           Scanned(i) == /\ ~(KeepClosed /\ r > 0 /\ n - r <= MaxCheckpoints)
                         /\ i = FirstReferenced(m)
<1>1. /\ n \in Nat \ {0} /\ m \in Record(n) /\ DOMAIN m.list = 1..n
      /\ m.cursor \in [Names -> Cursor] /\ Registered(m) \subseteq Names
      /\ \A i \in 1..n : m.list[i] \in Checkpoint
      /\ \A d \in Registered(m) : m.cursor[d].chk \in 1..n
  BY Parts
<1>2. r \in Nat /\ r < n /\ \A d \in Registered(m) : r < m.cursor[d].chk
  BY NumUnrefBound
<1>3. /\ q.list = [i \in 1..(n - r) |->
                     IF Scanned(i + r)
                     THEN [m.list[i + r] EXCEPT !.cursors = ValidCursors(m, i + r)]
                     ELSE m.list[i + r]]
      /\ q.cursor = [c \in Names |->
                       IF c \in Registered(m)
                       THEN [m.cursor[c] EXCEPT !.chk = @ - r,
                                                !.offset = DecrOffset(@, gone)]
                       ELSE m.cursor[c]]
      /\ q.mutationCounter = m.mutationCounter /\ q.preChkId = m.preChkId
  BY <1>1 DEF DropUnref, Record
<1>4. ShapeOK(q) /\ gone \in Int
  BY <1>2, DropUnrefOK, DocsInNat DEF ManagerOK
<1> HIDE DEF q, n, r, Scanned, gone
<1>5. Len(q.list) = n - r
  <2>1. n - r \in Nat \ {0}
    BY <1>1, <1>2
  <2>2. DOMAIN q.list = 1..(n - r)
    BY <1>3
  <2> QED
    BY <1>4, <2>1, <2>2, DomainLen
<1>6. ASSUME NEW i \in 1..(n - r)
      PROVE  /\ q.list[i].mid = m.list[i + r].mid /\ q.list[i].open = m.list[i + r].open
             /\ q.list[i].id = m.list[i + r].id
             /\ q.list[i].cursors \subseteq m.list[i + r].cursors
  <2> DEFINE j == i + r
  <2>1. j \in 1..n
    BY <1>1, <1>2
  <2>2. q.list[i] = IF Scanned(j) THEN [m.list[j] EXCEPT !.cursors = ValidCursors(m, j)]
                    ELSE m.list[j]
    BY <1>3
  <2> HIDE DEF j
  <2>3. m.list[j] \in Checkpoint /\ ValidCursors(m, j) \subseteq m.list[j].cursors
    BY <1>1, <2>1 DEF ValidCursors
  <2>4. CASE Scanned(j)
    <3>1. q.list[i] = [m.list[j] EXCEPT !.cursors = ValidCursors(m, j)]
      BY <2>2, <2>4
    <3>2. /\ q.list[i].mid = m.list[j].mid /\ q.list[i].open = m.list[j].open
          /\ q.list[i].id = m.list[j].id /\ q.list[i].cursors = ValidCursors(m, j)
      BY <2>3, <3>1, NamesChange
    <3> QED
      BY <2>3, <3>2 DEF j
  <2>5. CASE ~Scanned(j)
    BY <2>2, <2>5 DEF j
  <2> QED
    BY <2>4, <2>5
<1>7. ASSUME NEW d \in Registered(m)
      PROVE  q.cursor[d].chk = m.cursor[d].chk - r /\ q.cursor[d].pos = m.cursor[d].pos
  <2> DEFINE x == m.cursor[d]
             k == x.chk - r
             o == DecrOffset(x.offset, gone)
  <2>1. x \in Cursor /\ k \in Nat /\ d \in Names /\ o \in Int
    BY <1>1, <1>2, <1>4 DEF DecrOffset, Cursor
  <2>2. q.cursor[d] = [x EXCEPT !.chk = k, !.offset = o]
    BY <1>3, <2>1
  <2> HIDE DEF x, k, o
  <2>3. q.cursor[d].chk = k /\ q.cursor[d].pos = x.pos
    BY <2>1, <2>2 DEF Cursor
  <2> QED
    BY <2>3 DEF x, k
<1>8. \A d \in Names \ Registered(m) : q.cursor[d] = m.cursor[d]
  BY <1>3
<1> QED
  BY <1>2, <1>3, <1>5, <1>6, <1>7, <1>8 DEF IsCut, q, n, r

\* Merging: a key keeps its newest item, the meta items are those of the last one.
LEMMA MergedMidFacts ==
  ASSUME NEW list, NEW to \in Nat \ {0}
  PROVE  /\ \A k \in AllKeys \ Keys : MergedMid(list, to)[k] = list[to].mid[k]
         /\ \A k \in Keys :
              \/ /\ \A i \in 1..to : list[i].mid[k] = 0
                 /\ MergedMid(list, to)[k] = 0
              \/ \E i \in 1..to : /\ list[i].mid[k] # 0
                                  /\ MergedMid(list, to)[k] = list[i].mid[k]
                                  /\ \A j \in 1..to : list[j].mid[k] # 0 => j <= i
<1> DEFINE q == MergedMid(list, to)
<1>1. \A k \in AllKeys \ Keys : q[k] = list[to].mid[k]
  BY DEF MergedMid
<1>2. ASSUME NEW k \in Keys
      PROVE  \/ /\ \A i \in 1..to : list[i].mid[k] = 0
                /\ q[k] = 0
             \/ \E i \in 1..to : /\ list[i].mid[k] # 0
                                 /\ q[k] = list[i].mid[k]
                                 /\ \A j \in 1..to : list[j].mid[k] # 0 => j <= i
  <2> DEFINE holders == {i \in 1..to : list[i].mid[k] # 0}
             top == CHOOSE i \in holders : \A j \in holders : j <= i
             f == [i \in holders |-> i]
  <2>1. q[k] = IF holders # {} THEN list[top].mid[k] ELSE list[to].mid[k]
    BY MetaKeysDiffer, SMTT(30) DEF MergedMid, MetaFact
  <2>2. f \in [holders -> Nat] /\ (\A i \in holders : f[i] <= to) /\ \A i \in holders : f[i] = i
    OBVIOUS
  <2>3. ASSUME holders # {}
        PROVE  top \in holders /\ \A j \in holders : j <= top
    <3>1. \E i \in holders : \A j \in holders : f[j] <= f[i]
      <4> HIDE DEF holders, f
      <4> QED
        BY <2>2, <2>3, RankMax
    <3>2. \E i \in holders : \A j \in holders : j <= i
      BY <2>2, <3>1
    <3> HIDE DEF holders
    <3> QED
      BY <3>2
  <2>4. CASE holders = {}
    <3>1. \A i \in 1..to : list[i].mid[k] = 0
      BY <2>4
    <3> HIDE DEF q, top
    <3> QED
      BY <2>1, <2>4, <3>1
  <2>5. CASE holders # {}
    <3>1. /\ top \in 1..to /\ list[top].mid[k] # 0
          /\ \A j \in 1..to : list[j].mid[k] # 0 => j <= top
      BY <2>3, <2>5
    <3> HIDE DEF q, top
    <3> QED
      BY <2>1, <2>5, <3>1
  <2> QED
    BY <2>4, <2>5
<1> QED
  BY <1>1, <1>2

\* The cursors of the checkpoints that are collapsed into the next.
Slow(m) == (UNION {m.list[i].cursors : i \in 1..(Len(m.list) - 2)}) \cap Registered(m)

\* collapseClosedCheckpoints.
IsCollapsed(m, q) ==
  LET n == Len(m.list)
      t == n - 1
  IN
   /\ t \in 2..n /\ Len(q.list) = 2
   /\ q.mutationCounter = m.mutationCounter /\ q.preChkId = m.preChkId
   /\ q.list[1].mid = MergedMid(m.list, t) /\ q.list[1].open = m.list[t].open
   /\ q.list[1].id = m.list[t].id
   /\ q.list[1].cursors = m.list[t].cursors \cup Slow(m)
   /\ q.list[2] = m.list[n]
   /\ \A d \in Slow(m) : q.cursor[d].chk = 1 /\ q.cursor[d].pos = Dummy
   /\ \A d \in Registered(m) \ Slow(m) :
        /\ m.cursor[d].chk \in {t, n} /\ q.cursor[d].pos = m.cursor[d].pos
        /\ q.cursor[d].chk = IF m.cursor[d].chk = t THEN 1 ELSE 2
   /\ \A d \in Names \ Registered(m) : q.cursor[d].chk = 0

\* collapseClosedCheckpoints: one checkpoint has the newest items of all merged ones.
LEMMA CollapseEffect ==
  ASSUME NEW m, ManagerOK(m), Len(m.list) > 2
  PROVE  IsCollapsed(m, CollapseClosed(m))
<1> DEFINE q == CollapseClosed(m)
           n == Len(m.list)
           t == n - 1
           slow == Slow(m)
           fast == (m.list[t].cursors \cup m.list[n].cursors) \cap Registered(m)
           lost == NumCollapsed(m.list, t)
           Moved(c) ==
             IF c \in slow THEN [m.cursor[c] EXCEPT !.chk = 1, !.pos = Dummy, !.offset = 0]
             ELSE IF c \in Registered(m) THEN [m.cursor[c] EXCEPT !.chk = @ - (t - 1)]
             ELSE m.cursor[c]
           one == [m.list[t] EXCEPT !.mid = MergedMid(m.list, t), !.cursors = @ \cup slow]
<1>1. /\ n \in Nat \ {0} /\ m \in Record(n) /\ DOMAIN m.list = 1..n
      /\ m.cursor \in [Names -> Cursor] /\ Registered(m) \subseteq Names
      /\ \A i \in 1..n : m.list[i] \in Checkpoint
      /\ \A d \in Registered(m) : /\ m.cursor[d].chk \in 1..n
                                  /\ d \in m.list[m.cursor[d].chk].cursors
      /\ \A d \in Names \ Registered(m) : m.cursor[d].chk = 0
  BY Parts
<1>2. t \in 2..n /\ n = t + 1 /\ t \in 1..n
  BY <1>1
<1>3. /\ q.list = <<one, m.list[n]>>
      /\ q.cursor = [c \in Names |->
                       IF c \in fast THEN [Moved(c) EXCEPT !.offset = DecrOffset(@, lost)]
                       ELSE Moved(c)]
      /\ q.mutationCounter = m.mutationCounter /\ q.preChkId = m.preChkId
  <2>1. ~(n <= 2) /\ t - 1 = n - 2
    BY <1>1
  <2>2. slow = (UNION {m.list[i].cursors : i \in 1..(t - 1)}) \cap Registered(m)
    BY <2>1 DEF Slow
  <2> QED
    BY <1>1, <2>1, <2>2 DEF CollapseClosed, Record
<1>4. slow \subseteq Registered(m)
  BY DEF Slow
<1>5. ASSUME NEW c \in Registered(m) \ slow
      PROVE  m.cursor[c].chk \in {t, n}
  <2>1. m.cursor[c].chk \in 1..(n - 2) => c \in slow
    BY <1>1 DEF Slow
  <2> QED
    BY <1>1, <1>2, <2>1
<1> HIDE DEF q, n, t, slow, fast, lost
<1>6. /\ one.mid = MergedMid(m.list, t) /\ one.open = m.list[t].open
      /\ one.id = m.list[t].id /\ one.cursors = m.list[t].cursors \cup slow
  <2>1. m.list[t] \in Checkpoint
    BY <1>1, <1>2
  <2> QED
    BY <2>1 DEF Checkpoint
<1>7. Len(q.list) = 2 /\ q.list[1] = one /\ q.list[2] = m.list[n]
  <2>1. q.list = <<one, m.list[n]>>
    BY <1>3
  <2> HIDE DEF one
  <2> QED
    BY <2>1
<1>8. ASSUME NEW c \in Names
      PROVE  /\ c \in slow => q.cursor[c].chk = 1 /\ q.cursor[c].pos = Dummy
             /\ c \in Registered(m) \ slow => /\ q.cursor[c].chk = m.cursor[c].chk - (t - 1)
                                              /\ q.cursor[c].pos = m.cursor[c].pos
             /\ c \notin Registered(m) => q.cursor[c].chk = 0
  <2> DEFINE x == m.cursor[c]
             y == Moved(c)
  <2>1. x \in Cursor
    BY <1>1
  <2>2. q.cursor[c] = IF c \in fast THEN [y EXCEPT !.offset = DecrOffset(y.offset, lost)]
                      ELSE y
    BY <1>3
  <2>3. y = IF c \in slow THEN [x EXCEPT !.chk = 1, !.pos = Dummy, !.offset = 0]
            ELSE IF c \in Registered(m) THEN [x EXCEPT !.chk = x.chk - (t - 1)]
            ELSE x
    OBVIOUS
  <2> HIDE DEF x, y
  <2>4. /\ c \in slow => y.chk = 1 /\ y.pos = Dummy
        /\ c \in Registered(m) \ slow => y.chk = x.chk - (t - 1) /\ y.pos = x.pos
        /\ c \notin Registered(m) => y.chk = x.chk
        /\ DOMAIN y = DOMAIN x
    BY <1>4, <2>1, <2>3 DEF Cursor
  <2>5. q.cursor[c].chk = y.chk /\ q.cursor[c].pos = y.pos
    BY <2>1, <2>2, <2>4 DEF Cursor
  <2>6. c \notin Registered(m) => x.chk = 0
    BY <1>1 DEF x
  <2> QED
    BY <2>4, <2>5, <2>6 DEF x
<1>9. ASSUME NEW d \in Registered(m) \ slow
      PROVE  /\ m.cursor[d].chk \in {t, n} /\ q.cursor[d].pos = m.cursor[d].pos
             /\ q.cursor[d].chk = IF m.cursor[d].chk = t THEN 1 ELSE 2
  <2>1. d \in Names /\ q.cursor[d].chk = m.cursor[d].chk - (t - 1)
        /\ q.cursor[d].pos = m.cursor[d].pos
    BY <1>1, <1>8
  <2> QED
    BY <1>1, <1>2, <1>5, <2>1
<1>10. \A d \in slow : q.cursor[d].chk = 1 /\ q.cursor[d].pos = Dummy
  BY <1>1, <1>4, <1>8
<1> HIDE DEF one
<1> QED
  BY <1>2, <1>3, <1>6, <1>7, <1>8, <1>9, <1>10 DEF IsCollapsed, q, n, t, slow

\* getAllItemsFromCurrentPosition for the flusher.
IsTaken(m, at, q) ==
  LET n == Len(m.list)
      c == Persistence
      here == m.cursor[c].chk
  IN
   /\ SameMids(m, q) /\ SameIds(m, q)
   /\ here \in 1..n /\ at \in here..n /\ (m.list[at].open \/ at = n)
   /\ \A j \in here..n : m.list[j].open => at <= j
   /\ q.mutationCounter = m.mutationCounter /\ q.preChkId = LastClosedId(m)
   /\ \A i \in 1..n :
        q.list[i].cursors = IF i = at THEN m.list[i].cursors \cup {c}
                            ELSE IF i \in here..(at - 1) THEN m.list[i].cursors \ {c}
                            ELSE m.list[i].cursors
   /\ q.cursor[c].chk = at /\ q.cursor[c].pos = LastKey(m.list[at])
   /\ \A d \in Names \ {c} : q.cursor[d] = m.cursor[d]

\* getAllItemsForPersistence moves the persistence cursor to the last item it takes.
LEMMA TakeAllEffect ==
  ASSUME NEW m, ManagerOK(m)
  PROVE  IsTaken(m, LastToTake(m, Persistence), TakeAllForPersistence(m))
<1> DEFINE q == TakeAllForPersistence(m)
           n == Len(m.list)
           c == Persistence
           here == m.cursor[c].chk
           at == LastToTake(m, c)
           stops == {i \in here..n : m.list[i].open \/ i = n}
           p == LastKey(m.list[at])
<1>1. /\ n \in Nat \ {0} /\ m \in Record(n) /\ DOMAIN m.list = 1..n
      /\ m.cursor \in [Names -> Cursor] /\ c \in Names /\ m.cursor[c] \in Cursor
      /\ \A i \in 1..n : m.list[i] \in Checkpoint
      /\ here \in 1..n
  BY Parts
<1>2. /\ q.list = [i \in 1..n |->
                     IF i = at THEN [m.list[i] EXCEPT !.cursors = @ \cup {c}]
                     ELSE IF i \in here..(at - 1)
                     THEN [m.list[i] EXCEPT !.cursors = @ \ {c}]
                     ELSE m.list[i]]
      /\ q.cursor = [m.cursor EXCEPT ![c].chk = at, ![c].pos = p, ![c].offset = m.numItems]
      /\ q.mutationCounter = m.mutationCounter /\ q.preChkId = LastClosedId(m)
  BY <1>1 DEF TakeAllForPersistence, Record
<1>3. at \in stops /\ \A j \in stops : at <= j
  <2>1. stops # {} /\ stops \subseteq Nat
    BY <1>1
  <2>2. at = CHOOSE i \in stops : \A j \in stops : i <= j
    BY DEF LastToTake
  <2> HIDE DEF stops, at
  <2>3. \E i \in stops : \A j \in stops : i <= j
    BY <2>1, NatMin
  <2> QED
    BY <2>2, <2>3
<1>4. ShapeOK(q)
  BY TakeAllOK DEF ManagerOK
<1>5. /\ at \in here..n /\ (m.list[at].open \/ at = n)
      /\ \A j \in here..n : m.list[j].open => at <= j
  BY <1>3
<1> HIDE DEF q, n, c, here, at, stops, p
<1>6. Len(q.list) = n
  BY <1>1, <1>2, <1>4, DomainLen
<1>7. ASSUME NEW i \in 1..n
      PROVE  /\ q.list[i].mid = m.list[i].mid /\ q.list[i].open = m.list[i].open
             /\ q.list[i].id = m.list[i].id
             /\ q.list[i].cursors = IF i = at THEN m.list[i].cursors \cup {c}
                                    ELSE IF i \in here..(at - 1) THEN m.list[i].cursors \ {c}
                                    ELSE m.list[i].cursors
  <2> DEFINE passed == i \in here..(at - 1)
  <2>0. q.list[i] = IF i = at THEN [m.list[i] EXCEPT !.cursors = @ \cup {c}]
                    ELSE IF passed THEN [m.list[i] EXCEPT !.cursors = @ \ {c}]
                    ELSE m.list[i]
    BY <1>2
  <2> HIDE DEF passed
  <2>1. CASE i = at
    <3>1. q.list[i] = [m.list[i] EXCEPT !.cursors = m.list[i].cursors \cup {c}]
      BY <2>0, <2>1
    <3> QED
      BY <1>1, <2>1, <3>1, NamesChange
  <2>2. CASE i # at /\ passed
    <3>1. q.list[i] = [m.list[i] EXCEPT !.cursors = m.list[i].cursors \ {c}]
      BY <2>0, <2>2
    <3>2. /\ q.list[i].mid = m.list[i].mid /\ q.list[i].open = m.list[i].open
          /\ q.list[i].id = m.list[i].id /\ q.list[i].cursors = m.list[i].cursors \ {c}
      BY <1>1, <3>1, NamesChange
    <3> QED
      BY <2>2, <3>2 DEF passed
  <2>3. CASE i # at /\ ~passed
    BY <2>0, <2>3 DEF passed
  <2> QED
    BY <2>1, <2>2, <2>3
<1>8. /\ q.cursor[c].chk = at /\ q.cursor[c].pos = p
      /\ \A d \in Names \ {c} : q.cursor[d] = m.cursor[d]
  <2>1. q.cursor[c] = [m.cursor[c] EXCEPT !.chk = at, !.pos = p, !.offset = m.numItems]
        /\ \A d \in Names \ {c} : q.cursor[d] = m.cursor[d]
    BY <1>1, <1>2
  <2> QED
    BY <1>1, <2>1 DEF Cursor
<1> QED
  BY <1>1, <1>2, <1>5, <1>6, <1>7, <1>8 DEF IsTaken, SameMids, SameIds, q, n, c, here, at, p

\* One cursor takes another place in its checkpoint.
Moves(m, c, p, q) ==
  /\ q.list = m.list /\ q.mutationCounter = m.mutationCounter /\ q.preChkId = m.preChkId
  /\ q.cursor[c].chk = m.cursor[c].chk /\ q.cursor[c].pos = p
  /\ q.cursor[c].closedOnly = m.cursor[c].closedOnly
  /\ q.cursor[c].openId = m.cursor[c].openId
  /\ \A d \in Names \ {c} : q.cursor[d] = m.cursor[d]

\* Placing a cursor moves nothing else.
LEMMA PlacedEffect ==
  ASSUME NEW m, ManagerOK(m), NEW c \in Names, NEW p, NEW o
  PROVE  Moves(m, c, p, Placed(m, c, p, o))
<1> DEFINE q == Placed(m, c, p, o)
           x == [m.cursor[c] EXCEPT !.pos = p, !.offset = o]
<1>1. m \in Record(Len(m.list)) /\ m.cursor \in [Names -> Cursor] /\ m.cursor[c] \in Cursor
  BY Parts
<1>2. /\ x.chk = m.cursor[c].chk /\ x.pos = p /\ x.closedOnly = m.cursor[c].closedOnly
      /\ x.openId = m.cursor[c].openId
  BY <1>1 DEF Cursor
<1>3. q = [m EXCEPT !.cursor = [m.cursor EXCEPT ![c] = x]]
  BY DEF Placed
<1> HIDE DEF x
<1>4. /\ q.list = m.list /\ q.mutationCounter = m.mutationCounter /\ q.preChkId = m.preChkId
      /\ q.cursor = [m.cursor EXCEPT ![c] = x]
  BY <1>1, <1>3 DEF Record
<1> HIDE DEF q
<1>5. q.cursor[c] = x /\ \A d \in Names \ {c} : q.cursor[d] = m.cursor[d]
  BY <1>1, <1>4
<1> QED
  BY <1>2, <1>4, <1>5 DEF Moves, q

\* Stepping a cursor moves nothing else.
LEMMA StepCursorEffect ==
  ASSUME NEW m, ManagerOK(m), NEW c \in Names
  PROVE  Moves(m, c, NextKey(ChkOf(m, c), m.cursor[c].pos), StepCursor(m, c))
<1> DEFINE p == NextKey(ChkOf(m, c), m.cursor[c].pos)
           o == m.cursor[c].offset + 1
<1>1. m \in Record(Len(m.list)) /\ m.cursor \in [Names -> Cursor] /\ m.cursor[c] \in Cursor
  BY Parts
<1>2. StepCursor(m, c) = Placed(m, c, p, o)
  BY <1>1 DEF StepCursor, Placed, Record, Cursor
<1> HIDE DEF p, o
<1>3. Moves(m, c, p, Placed(m, c, p, o))
  BY PlacedEffect
<1> QED
  BY <1>2, <1>3 DEF p

\* decrTapCursorFromCheckpointEnd moves a cursor before the end item, or nothing.
LEMMA DecrTapCursorEffect ==
  ASSUME NEW m, ManagerOK(m), NEW c \in Names
  PROVE  IF m.cursor[c].chk # 0 /\ m.cursor[c].pos = End
         THEN Moves(m, c, PrevKey(ChkOf(m, c), End), DecrTapCursorFromCheckpointEnd(m, c))
         ELSE DecrTapCursorFromCheckpointEnd(m, c) = m
<1> DEFINE p == PrevKey(ChkOf(m, c), End)
           o == DecrOffset(m.cursor[c].offset, 1)
<1>1. m \in Record(Len(m.list)) /\ m.cursor \in [Names -> Cursor] /\ m.cursor[c] \in Cursor
  BY Parts
<1>2. m.cursor[c].chk # 0 /\ m.cursor[c].pos = End =>
        DecrTapCursorFromCheckpointEnd(m, c) = Placed(m, c, p, o)
  BY <1>1 DEF DecrTapCursorFromCheckpointEnd, Placed, Record, Cursor
<1> HIDE DEF p, o
<1>3. Moves(m, c, p, Placed(m, c, p, o))
  BY PlacedEffect
<1> QED
  BY <1>2, <1>3 DEF p, DecrTapCursorFromCheckpointEnd

\* The second half of addNewCheckpoint_UNLOCKED: the persistence cursor may skip the
\* end item, and then may go to the next checkpoint.
Skips(m, p) ==
  LET c == Persistence
  IN \/ p = m.cursor[c].pos
     \/ ~AtEnd(m, c) /\ NextKey(ChkOf(m, c), m.cursor[c].pos) = End /\ p = End

IsAdvanced(m, q) ==
  LET c == Persistence
      here == m.cursor[c].chk
  IN
   /\ SameMids(m, q) /\ SameIds(m, q) /\ q.mutationCounter = m.mutationCounter
   /\ \A d \in Names \ {c} : q.cursor[d] = m.cursor[d]
   /\ \/ /\ q.list = m.list /\ q.preChkId = m.preChkId
         /\ q.cursor[c].chk = here /\ Skips(m, q.cursor[c].pos)
      \/ /\ here \in 1..(Len(m.list) - 1) /\ ~m.list[here].open
         /\ q.preChkId = m.list[here].id
         /\ \A i \in 1..Len(m.list) :
              q.list[i].cursors = IF i = here THEN m.list[i].cursors \ {c}
                                  ELSE IF i = here + 1 THEN m.list[i].cursors \cup {c}
                                  ELSE m.list[i].cursors
         /\ q.cursor[c].chk = here + 1 /\ q.cursor[c].pos = Dummy
         /\ \E p \in AllKeys : Skips(m, p) /\ After(ChkOf(m, c), p) = {}

\* The persistence cursor goes on past the checkpoints that it is done with.
LEMMA AdvanceEffect ==
  ASSUME NEW m, ManagerOK(m)
  PROVE  IsAdvanced(m, AdvancePersistenceCursor(m))
<1> DEFINE c == Persistence
           p == m.cursor[c].pos
           o == m.cursor[c].offset + 1
           skip == ~AtEnd(m, c) /\ NextKey(ChkOf(m, c), p) = End
           mm == IF skip THEN [m EXCEPT !.cursor[c].pos = End, !.cursor[c].offset = @ + 1]
                         ELSE m
           y == MoveCursorToNextCheckpoint(mm, c)
           go == AtEnd(mm, c) /\ CanMoveNext(mm, c)
           z == [y EXCEPT !.preChkId = ChkOf(mm, c).id]
           here == m.cursor[c].chk
<1>0. AdvancePersistenceCursor(m) = IF go THEN z ELSE mm
  BY DEF AdvancePersistenceCursor
<1>1. /\ m \in Record(Len(m.list)) /\ c \in Registered(m) /\ c \in Names
      /\ m.cursor \in [Names -> Cursor] /\ m.cursor[c] \in Cursor
      /\ c = Persistence
  BY Parts
<1>2. /\ ManagerOK(mm) /\ Moves(m, c, mm.cursor[c].pos, mm) /\ Skips(m, mm.cursor[c].pos)
  <2>1. CASE skip
    <3>1. ChkOf(m, c).mid[End] # 0 /\ End \in AllKeys /\ o \in Int
      BY <1>1, <2>1, NextFacts DEF Cursor
    <3>2. mm = Placed(m, c, End, o)
      BY <1>1, <2>1 DEF Placed, Record, Cursor
    <3> HIDE DEF mm, o
    <3>3. ManagerOK(mm) /\ Moves(m, c, End, mm)
      BY <1>1, <3>1, <3>2, PlacedOK, PlacedEffect
    <3> QED
      BY <2>1, <3>3 DEF Moves, Skips
  <2>2. CASE ~skip
    <3>1. mm = m
      BY <2>2
    <3> QED
      BY <3>1 DEF Moves, Skips
  <2> QED
    BY <2>1, <2>2
<1>3. /\ mm.list = m.list /\ mm.mutationCounter = m.mutationCounter
      /\ mm.preChkId = m.preChkId /\ mm.cursor[c].chk = here
      /\ \A d \in Names \ {c} : mm.cursor[d] = m.cursor[d]
  BY <1>2 DEF Moves
<1> HIDE DEF mm, here, c, p, skip
<1>4. CASE ~go
  BY <1>0, <1>2, <1>3, <1>4 DEF IsAdvanced, SameMids, SameIds, here, c
<1>5. CASE go
  <2>1. c \in Registered(mm) /\ mm.cursor[c].pos \in AllKeys
    BY <1>2, Parts DEF c
  <2>2. ManagerOK(y)
    BY <1>2, <1>5, <2>1, MoveCursorOK
  <2>3. /\ SameMids(mm, y) /\ SameIds(mm, y) /\ here \in 1..(Len(mm.list) - 1)
        /\ ~mm.list[here].open
        /\ y.mutationCounter = mm.mutationCounter
        /\ \A i \in 1..Len(mm.list) :
             y.list[i].cursors = IF i = here THEN mm.list[i].cursors \ {c}
                                 ELSE IF i = here + 1 THEN mm.list[i].cursors \cup {c}
                                 ELSE mm.list[i].cursors
        /\ y.cursor[c].chk = here + 1 /\ y.cursor[c].pos = Dummy
        /\ \A d \in Names \ {c} : y.cursor[d] = mm.cursor[d]
    <3>1. MovedOn(mm, c, y)
      BY <1>2, <1>5, <2>1, MoveCursorEffect
    <3> HIDE DEF y
    <3> QED
      BY <1>3, <3>1 DEF MovedOn
  <2>4. y \in Record(Len(y.list)) /\ ChkOf(mm, c).id = m.list[here].id
    BY <1>3, <2>2, Parts DEF ChkOf
  <2> HIDE DEF y
  <2>5. /\ z.list = y.list /\ z.cursor = y.cursor /\ z.mutationCounter = y.mutationCounter
        /\ z.preChkId = m.list[here].id
    BY <2>4 DEF Record
  <2> HIDE DEF z
  <2>6. After(ChkOf(m, c), mm.cursor[c].pos) = {}
    BY <1>3, <1>5 DEF AtEnd, ChkOf, here
  <2>7. AdvancePersistenceCursor(m) = z
    BY <1>0, <1>5
  <2>8. SameMids(m, z) /\ SameIds(m, z)
    BY <1>3, <2>3, <2>5 DEF SameMids, SameIds
  <2>9. \E k \in AllKeys : Skips(m, k) /\ After(ChkOf(m, c), k) = {}
    BY <1>2, <2>1, <2>6
  <2>10. /\ here \in 1..(Len(m.list) - 1) /\ ~m.list[here].open
         /\ \A i \in 1..Len(m.list) :
              z.list[i].cursors = IF i = here THEN m.list[i].cursors \ {c}
                                  ELSE IF i = here + 1 THEN m.list[i].cursors \cup {c}
                                  ELSE m.list[i].cursors
         /\ z.cursor[c].chk = here + 1 /\ z.cursor[c].pos = Dummy
         /\ z.mutationCounter = m.mutationCounter
         /\ \A d \in Names \ {c} : z.cursor[d] = m.cursor[d]
    BY <1>3, <2>3, <2>5
  <2> QED
    BY <1>5, <2>5, <2>7, <2>8, <2>9, <2>10 DEF IsAdvanced, here, c
<1> QED
  BY <1>4, <1>5

\* A rollback: one open checkpoint with everybody at its first item.
IsRolledBack(m, id, q) ==
  /\ Len(q.list) = 1
  /\ q.mutationCounter = m.mutationCounter /\ q.preChkId = m.preChkId
  /\ \A k \in AllKeys : q.list[1].mid[k] = IF k = End THEN 0
                                           ELSE MergedMid(m.list, Len(m.list))[k]
  /\ q.list[1].open /\ q.list[1].id = id
  /\ q.list[1].cursors = Registered(m) /\ Registered(q) = Registered(m)
  /\ \A d \in Registered(m) : q.cursor[d].chk = 1 /\ q.cursor[d].pos = Dummy
  /\ \A d \in Names \ Registered(m) : q.cursor[d] = m.cursor[d]

\* A rollback makes the last checkpoints one, which is open again.
LEMMA RollbackEffect ==
  ASSUME NEW m, ManagerOK(m), NEW id \in Nat
  PROVE  IsRolledBack(m, id, Rollback(m, id))
<1> DEFINE n == Len(m.list)
           back == LastChk(m)
           mid == [MergedMid(m.list, n) EXCEPT ![End] = 0]
           one == [back EXCEPT !.mid = mid, !.open = TRUE]
           list == <<one>>
           items == m.numItems - NumCollapsed(m.list, n) - (IF back.open THEN 0 ELSE 1)
           z == Rebuilt(m, list, m.cursor, items, m.mutationCounter)
           y == SetOpenCheckpointId(z, id)
           q == ResetCursors(y)
<1>1. /\ m \in Record(n) /\ n \in Nat \ {0} /\ n \in 1..n /\ m.mutationCounter \in Nat
      /\ back \in Checkpoint /\ back.cursors \subseteq Registered(m) /\ m.numItems \in Int
      /\ ShapeOK(m) /\ m.cursor \in [Names -> Cursor]
      /\ back.mid[Dummy] # 0 /\ back.mid[Start] # 0 /\ back = m.list[n]
  BY Parts DEF Record, ManagerOK
<1>2. items \in Int
  BY <1>1, NumCollapsedInt
<1>3. Rollback(m, id) = q
  <2>1. z = [m EXCEPT !.list = <<one>>, !.numItems = items]
    BY <1>1 DEF Rebuilt, Record
  <2>2. items = m.numItems - NumCollapsed(m.list, n) - (IF back.open THEN 0 ELSE 1)
    OBVIOUS
  <2> HIDE DEF z, items
  <2> QED
    BY <2>1, <2>2 DEF Rollback
<1>4. /\ MergedMid(m.list, n) \in [AllKeys -> Nat]
      /\ \A k \in AllKeys : MergedMid(m.list, n)[k] <= m.mutationCounter
      /\ MergedMid(m.list, n)[Dummy] # 0 /\ MergedMid(m.list, n)[Start] # 0
  <2>1. \A i \in 1..n : ChkOK(m.list[i], m.mutationCounter)
    BY <1>1 DEF ShapeOK
  <2>2. /\ MergedMid(m.list, n) \in [AllKeys -> Nat]
        /\ \A k \in AllKeys : MergedMid(m.list, n)[k] <= m.mutationCounter
        /\ \A k \in AllKeys : m.list[n].mid[k] # 0 => MergedMid(m.list, n)[k] # 0
    BY <1>1, <2>1, MergedMidOK
  <2> QED
    BY <1>1, <2>2, MetaKeysDiffer DEF MetaFact
<1> HIDE DEF back, items
<1>5. /\ mid \in [AllKeys -> Nat] /\ \A k \in AllKeys : mid[k] <= m.mutationCounter
      /\ mid[Dummy] # 0 /\ mid[Start] # 0
      /\ \A k \in AllKeys : mid[k] = IF k = End THEN 0 ELSE MergedMid(m.list, n)[k]
  BY <1>1, <1>4, MetaKeysDiffer DEF MetaFact
<1> HIDE DEF mid, n
<1>6. one = [back EXCEPT !.mid = mid, !.open = TRUE]
  OBVIOUS
<1> HIDE DEF one
<1>61. /\ one.mid = mid /\ one.open = TRUE /\ one.id = back.id /\ one.cursors = back.cursors
       /\ one \in Checkpoint
  BY <1>1, <1>5, <1>6 DEF Checkpoint
<1>7. list \in [1..1 -> Checkpoint] /\ list[1] = one /\ Len(list) = 1
  BY <1>61
<1>8. ShapeOK(z)
  <2>1. ChkOK(one, m.mutationCounter) /\ one.cursors \subseteq Registered(m)
    BY <1>1, <1>5, <1>61 DEF ChkOK
  <2> QED
    BY <1>1, <1>2, <2>1, SingleOK
<1> HIDE DEF list
<1>9. z.list = list /\ z.cursor = m.cursor /\ z.mutationCounter = m.mutationCounter
      /\ z.preChkId = m.preChkId
  BY <1>1 DEF Rebuilt, Record
<1> HIDE DEF z
<1>10. ShapeOK(y) /\ IdIsSet(z, id, y)
  BY <1>8, SetOpenIdOK, SetOpenIdEffect
<1> HIDE DEF y
<1>11. IsReset(y, q)
  BY <1>10, ResetCursorsEffect
<1> HIDE DEF q
<1>12. Registered(z) = Registered(m)
  BY <1>9 DEF Registered
<1>13. /\ Len(q.list) = 1 /\ q.list[1].mid = mid /\ q.list[1].open /\ q.list[1].id = id
       /\ q.list[1].cursors = back.cursors \cup Registered(m)
  BY <1>61, <1>7, <1>9, <1>10, <1>11, <1>12 DEF IdIsSet, IsReset, SameMids, SameIds, SameNames
<1>14. /\ Registered(q) = Registered(m) /\ q.preChkId = m.preChkId
       /\ q.mutationCounter = m.mutationCounter
       /\ \A d \in Registered(m) : q.cursor[d].chk = 1 /\ q.cursor[d].pos = Dummy
       /\ \A d \in Names \ Registered(m) : q.cursor[d] = m.cursor[d]
  BY <1>9, <1>10, <1>11, <1>12 DEF IdIsSet, IsReset
<1>15. q.list[1].cursors = Registered(m)
  BY <1>1, <1>13
<1> QED
  BY <1>3, <1>5, <1>13, <1>14, <1>15 DEF IsRolledBack, n

\* An empty open checkpoint gets the master's id.
IsRenumbered(m, id, q) ==
  /\ SameMids(m, q) /\ SameNames(m, q)
  /\ q.mutationCounter = m.mutationCounter /\ q.preChkId = m.preChkId
  /\ \A i \in 1..Len(m.list) : q.list[i].id = IF i = Len(m.list) THEN id ELSE m.list[i].id
  /\ \A d \in Names : /\ q.cursor[d].chk = m.cursor[d].chk
                      /\ q.cursor[d].pos \in {m.cursor[d].pos, Dummy}

\* Renumbering an empty open checkpoint.
LEMMA RenumberEffect ==
  ASSUME NEW m, ManagerOK(m), NEW id \in Nat
  PROVE  IsRenumbered(m, id, Renumber(m, id))
<1> DEFINE n == Len(m.list)
           named == LastChk(m).cursors
           cursor == [c \in Names |->
                        IF c \in named THEN [m.cursor[c] EXCEPT !.pos = Dummy]
                        ELSE m.cursor[c]]
           z == [m EXCEPT !.cursor = cursor]
           q == SetOpenCheckpointId(z, id)
<1>1. /\ m \in Record(n) /\ ShapeOK(m) /\ n \in Nat \ {0}
      /\ m.cursor \in [Names -> Cursor]
  BY Parts DEF Record, ManagerOK
<1>2. Renumber(m, id) = q
  BY DEF Renumber
<1> HIDE DEF named
<1>3. ASSUME NEW c \in Names
      PROVE  /\ cursor[c] \in Cursor
             /\ cursor[c].chk = m.cursor[c].chk
             /\ cursor[c].pos \in {m.cursor[c].pos, Dummy}
  <2>1. m.cursor[c] \in Cursor
        /\ cursor[c] = IF c \in named THEN [m.cursor[c] EXCEPT !.pos = Dummy] ELSE m.cursor[c]
    BY <1>1
  <2> HIDE DEF cursor
  <2> QED
    BY <2>1, MetaKeysDiffer DEF Cursor, MetaFact
<1>4. cursor \in [Names -> Cursor]
  BY <1>3
<1> HIDE DEF cursor, n
<1>5. /\ z \in Record(n) /\ z.list = m.list /\ z.cursor = cursor
      /\ z.mutationCounter = m.mutationCounter /\ z.preChkId = m.preChkId
  BY <1>1, <1>4 DEF Record
<1> HIDE DEF z
<1>6. Registered(z) = Registered(m)
  BY <1>3, <1>5 DEF Registered
<1>7. ShapeOK(z)
  <2>1. \A i \in 1..n : ChkOK(m.list[i], m.mutationCounter) /\ m.list[i].cursors \subseteq Registered(m)
    BY <1>1 DEF ShapeOK, n
  <2>2. Persistence \in Registered(z)
    BY <1>1, <1>6 DEF ShapeOK
  <2> QED
    BY <1>1, <1>5, <1>6, <2>1, <2>2, ShapeIntro
<1>8. IdIsSet(z, id, q)
  BY <1>7, SetOpenIdEffect
<1> HIDE DEF q
<1> QED
  BY <1>2, <1>3, <1>5, <1>8 DEF IdIsSet, IsRenumbered, SameMids, SameNames, n

\* A manager with one open checkpoint, nothing in it, everybody at its first item.
IsFresh(q, id, names) ==
  /\ Len(q.list) = 1 /\ q.mutationCounter = 2
  /\ \A k \in AllKeys : q.list[1].mid[k] = IF k = Dummy THEN 1 ELSE IF k = Start THEN 2 ELSE 0
  /\ q.list[1].open /\ q.list[1].id = id
  /\ q.list[1].cursors = names /\ Registered(q) = names
  /\ \A d \in names : q.cursor[d].chk = 1 /\ q.cursor[d].pos = Dummy

\* A new checkpoint has its two meta items and nothing else.
LEMMA FreshMids ==
  ASSUME NEW id \in Nat
  PROVE  /\ NewCheckpoint(id, 0) \in Checkpoint
         /\ NewCheckpoint(id, 0).id = id /\ NewCheckpoint(id, 0).open
         /\ NewCheckpoint(id, 0).cursors = {} /\ ChkOK(NewCheckpoint(id, 0), 2)
         /\ \A k \in AllKeys : NewCheckpoint(id, 0).mid[k] =
              IF k = Dummy THEN 1 ELSE IF k = Start THEN 2 ELSE 0
<1>1. ChkOK(NewCheckpoint(id, 0), 2)
  BY NewCheckpointOK
<1> QED
  BY <1>1 DEF NewCheckpoint, ChkOK

\* A new manager has one empty checkpoint with all its cursors.
LEMMA NewManagerEffect ==
  ASSUME NEW id \in Nat, NEW names \in SUBSET Names
  PROVE  /\ IsFresh(NewManager(id, names), id, names)
         /\ NewManager(id, names).preChkId = 0
<1> DEFINE q == NewManager(id, names)
           new == NewCheckpoint(id, 0)
           one == [new EXCEPT !.cursors = names]
           list == <<one>>
           there == [NoCursor EXCEPT !.chk = 1]
           cursor == [c \in Names |-> IF c \in names THEN there ELSE NoCursor]
<1>1. q.list = list /\ q.cursor = cursor /\ q.mutationCounter = 2 /\ q.preChkId = 0
  BY DEF NewManager
<1>2. there.chk = 1 /\ there.pos = Dummy /\ NoCursor.chk = 0
  BY FirstItemCursor, NoCursorType
<1>3. /\ new \in Checkpoint /\ new.id = id /\ new.open
      /\ \A k \in AllKeys : new.mid[k] = IF k = Dummy THEN 1 ELSE IF k = Start THEN 2 ELSE 0
  BY FreshMids
<1> HIDE DEF q, new, there
<1>4. one = [new EXCEPT !.cursors = names]
  OBVIOUS
<1> HIDE DEF one
<1>41. one.mid = new.mid /\ one.open = new.open /\ one.id = new.id /\ one.cursors = names
  BY <1>3, <1>4 DEF Checkpoint
<1>5. Len(q.list) = 1 /\ q.list[1] = one
  BY <1>1
<1>6. Registered(q) = names /\ \A d \in names : q.cursor[d].chk = 1 /\ q.cursor[d].pos = Dummy
  BY <1>1, <1>2 DEF Registered
<1> HIDE DEF cursor, list
<1>7. /\ \A k \in AllKeys : q.list[1].mid[k] = IF k = Dummy THEN 1 ELSE IF k = Start THEN 2 ELSE 0
      /\ q.list[1].open /\ q.list[1].id = id /\ q.list[1].cursors = names
  BY <1>3, <1>41, <1>5
<1>8. IsFresh(q, id, names) /\ q.preChkId = 0
  BY <1>1, <1>5, <1>6, <1>7 DEF IsFresh
<1> QED
  BY <1>8 DEF q

\* flush_all.
Cleared(m, id) == ResetCursors([m EXCEPT !.list = <<NewCheckpoint(id, 0)>>,
                                         !.mutationCounter = 2, !.numItems = 1])

\* clear leaves one empty checkpoint with all the cursors there were.
LEMMA ClearEffect ==
  ASSUME NEW m, ManagerOK(m), NEW id \in Nat
  PROVE  /\ IsFresh(Cleared(m, id), id, Registered(m))
         /\ Cleared(m, id).preChkId = m.preChkId
<1> DEFINE one == NewCheckpoint(id, 0)
           list == <<one>>
           y == [m EXCEPT !.list = list, !.mutationCounter = 2, !.numItems = 1]
           q == ResetCursors(y)
<1>1. m \in Record(Len(m.list)) /\ ShapeOK(m) /\ m.cursor \in [Names -> Cursor]
  BY Parts DEF ManagerOK
<1>2. /\ one \in Checkpoint /\ one.id = id /\ one.open /\ ChkOK(one, 2) /\ one.cursors = {}
      /\ \A k \in AllKeys : one.mid[k] = IF k = Dummy THEN 1 ELSE IF k = Start THEN 2 ELSE 0
  BY FreshMids
<1>3. y = Rebuilt(m, <<one>>, m.cursor, 1, 2)
  BY <1>1 DEF Rebuilt, Record
<1>4. Cleared(m, id) = q
  BY DEF Cleared
<1> HIDE DEF one
<1>5. ShapeOK(y)
  BY <1>1, <1>2, <1>3, SingleOK, SMTT(30)
<1>6. Len(list) = 1 /\ list[1] = one
  OBVIOUS
<1> HIDE DEF list
<1>7. y.list = list /\ y.cursor = m.cursor /\ y.mutationCounter = 2 /\ y.preChkId = m.preChkId
  BY <1>1 DEF Record
<1> HIDE DEF y
<1>8. IsReset(y, q)
  BY <1>5, ResetCursorsEffect
<1> HIDE DEF q
<1>9. Registered(y) = Registered(m)
  BY <1>7 DEF Registered
<1>90. y.list[1] = one /\ Len(y.list) = 1
  BY <1>6, <1>7, Zenon
<1>91. 1 \in 1..Len(y.list)
  BY <1>90
<1>10. /\ Len(q.list) = 1 /\ q.list[1].mid = one.mid /\ q.list[1].open = one.open
       /\ q.list[1].id = one.id /\ q.list[1].cursors = one.cursors \cup Registered(y)
  BY <1>90, <1>91, <1>8 DEF IsReset, SameMids, SameIds
<1>11. /\ \A k \in AllKeys : q.list[1].mid[k] = IF k = Dummy THEN 1 ELSE IF k = Start THEN 2 ELSE 0
       /\ q.list[1].open /\ q.list[1].id = id /\ q.list[1].cursors = Registered(m)
  BY <1>2, <1>9, <1>10
<1>12. /\ q.mutationCounter = 2 /\ q.preChkId = m.preChkId /\ Registered(q) = Registered(m)
       /\ \A d \in Registered(m) : q.cursor[d].chk = 1 /\ q.cursor[d].pos = Dummy
  BY <1>7, <1>8, <1>9 DEF IsReset
<1>13. IsFresh(q, id, Registered(m)) /\ q.preChkId = m.preChkId
  BY <1>10, <1>11, <1>12 DEF IsFresh
<1> QED
  BY <1>4, <1>13
-----------------------------------------------------------------------------
(***************************************************************************)
(* What the operations that are composed of these do.                      *)
(***************************************************************************)

\* addNewCheckpoint_UNLOCKED.
IsOpened(m, id, q) ==
  \E a, b : /\ ManagerOK(a) /\ ManagerOK(b) /\ ManagerOK(q)
            /\ IF LastChk(m).open THEN IsClosed(m, a) ELSE a = m
            /\ IsAppended(a, id, b)
            /\ IsAdvanced(b, q)

\* addNewCheckpoint_UNLOCKED closes the last checkpoint and appends one.
LEMMA AddNewEffect ==
  ASSUME NEW m, ManagerOK(m), NEW id \in Nat
  PROVE  IsOpened(m, id, AddNewCheckpoint(m, id))
<1> DEFINE a == CloseOpenCheckpoint(m, LastChk(m).id)
           b == Appended(a, id)
           q == AdvancePersistenceCursor(b)
<1>1. ManagerOK(a) /\ IF LastChk(m).open THEN IsClosed(m, a) ELSE a = m
  BY CloseOpenOK, CloseOpenEffect
<1>2. AddNewCheckpoint(m, id) = q
  BY DEF AddNewCheckpoint, Appended
<1> HIDE DEF a
<1>3. ManagerOK(b) /\ IsAppended(a, id, b)
  BY <1>1, AppendedOK, AppendedEffect
<1> HIDE DEF b
<1>4. ManagerOK(q) /\ IsAdvanced(b, q)
  BY <1>3, AdvancePersistenceCursorOK, AdvanceEffect
<1> HIDE DEF q
<1> QED
  BY <1>1, <1>2, <1>3, <1>4 DEF IsOpened

\* checkOpenCheckpoint_UNLOCKED adds the next checkpoint, or does nothing.
LEMMA CheckOpenEffect ==
  ASSUME NEW m, ManagerOK(m), NEW force, NEW timeUp
  PROVE  \/ CheckOpenCheckpoint(m, force, timeUp) = m
         \/ IsOpened(m, LastChk(m).id + 1, CheckOpenCheckpoint(m, force, timeUp))
<1>1. LastChk(m).id + 1 \in Nat
  BY LastFacts
<1> QED
  BY <1>1, AddNewEffect DEF CheckOpenCheckpoint

\* removeClosedUnrefCheckpoints: only a master opens a checkpoint, and only the others
\* collapse theirs.
IsReduced(m, q) ==
  \E x, y, z, oldId :
    /\ ManagerOK(x) /\ ManagerOK(y) /\ ManagerOK(z)
    /\ x = m \/ (IsMaster /\ IsOpened(m, LastChk(m).id + 1, x))
    /\ y = x \/ HaveMovedOn(x, Finished(x, oldId), y)
    /\ z = y \/ IsCut(y, NumUnref(y), z)
    /\ q = z \/ (~IsMaster /\ IsCollapsed(z, q))

\* removeClosedUnrefCheckpoints, with the checkpoint it opens and the collapsing.
LEMMA RemoveEffect ==
  ASSUME NEW m, ManagerOK(m), NEW forced, NEW memHigh, NEW timeUp
  PROVE  IsReduced(m, RemoveClosedUnref(m, forced, memHigh, timeUp))
<1> DEFINE q == RemoveClosedUnref(m, forced, memHigh, timeUp)
           oldId == LastChk(m).id
<1>1. PICK x : /\ ManagerOK(x)
               /\ x = m \/ (IsMaster /\ IsOpened(m, oldId + 1, x))
               /\ \E y : /\ y = x \/ y = MoveFinishedCursors(x, oldId)
                         /\ \/ q = y \/ q = DropUnref(y)
                            \/ ~IsMaster /\ q = CollapseClosed(DropUnref(y))
  <2> DEFINE force  == /\ forced /\ memHigh
                       /\ Cardinality(Registered(m)) = Cardinality(LastChk(m).cursors)
             create == /\ IsMaster /\ CanCreateNewCheckpoint(m)
                       /\ NeedsNewCheckpoint(m, force, timeUp)
             x == IF create THEN CheckOpenCheckpoint(m, force, timeUp) ELSE m
             y == IF create /\ oldId # 0 THEN MoveFinishedCursors(x, oldId) ELSE x
             mayCollapse == /\ ~KeepClosed
                            /\ vbState = "replica" \/ (vbState = "active" /\ InconsistentSlave)
  <2>1. q = IF KeepClosed /\ ~memHigh /\ Len(y.list) <= MaxCheckpoints
            THEN y
            ELSE IF mayCollapse THEN CollapseClosed(DropUnref(y)) ELSE DropUnref(y)
    BY DEF RemoveClosedUnref
  <2>2. mayCollapse => ~IsMaster
    BY DEF IsMaster
  <2>3. ManagerOK(x) /\ (x = m \/ (IsMaster /\ IsOpened(m, oldId + 1, x)))
    BY CheckOpenCheckpointOK, CheckOpenEffect
  <2>4. y = x \/ y = MoveFinishedCursors(x, oldId)
    OBVIOUS
  <2> HIDE DEF q, x, y, mayCollapse
  <2> QED
    BY <2>1, <2>2, <2>3, <2>4
<1>2. PICK y : /\ y = x \/ y = MoveFinishedCursors(x, oldId)
               /\ \/ q = y \/ q = DropUnref(y)
                  \/ ~IsMaster /\ q = CollapseClosed(DropUnref(y))
  BY <1>1
<1>3. ManagerOK(y) /\ (y = x \/ HaveMovedOn(x, Finished(x, oldId), y))
  BY <1>1, <1>2, MoveFinishedCursorsOK, MoveFinishedEffect
<1>4. PICK z : /\ z = y \/ z = DropUnref(y)
               /\ q = z \/ (~IsMaster /\ q = CollapseClosed(z))
  BY <1>2
<1>5. ManagerOK(z) /\ (z = y \/ IsCut(y, NumUnref(y), z))
  BY <1>3, <1>4, DropUnrefOK, DropUnrefEffect
<1>6. q = z \/ (~IsMaster /\ IsCollapsed(z, q))
  <2>1. ~(Len(z.list) > 2) => CollapseClosed(z) = z
    <3>1. Len(z.list) \in Nat
      BY <1>5, Parts
    <3> QED
      BY <3>1 DEF CollapseClosed
  <2> QED
    BY <1>4, <1>5, <2>1, CollapseEffect
<1> HIDE DEF q
<1> QED
  BY <1>1, <1>3, <1>5, <1>6 DEF IsReduced, q

\* checkAndAddNewCheckpoint.
Accepted(m, id, q) ==
  \/ q = m
  \/ /\ LastChk(m).id = 0 /\ id # 0
     /\ \E y : ShapeOK(y) /\ IdIsSet(m, id, y) /\ IsReset(y, q)
  \/ IsRolledBack(m, id, q)
  \/ /\ ~IsOld(m, id) /\ LastChk(m).open /\ LastChk(m).id # 0
     /\ NumDocs(LastChk(m)) = 0
     /\ IsRenumbered(m, id, q)
  \/ /\ ~IsOld(m, id)
     /\ \E z : ManagerOK(z) /\ OnlyCounters(m, z) /\ z.preChkId = m.preChkId
               /\ IsOpened(z, id, q)

\* checkAndAddNewCheckpoint: what becomes of the list, case by case.
LEMMA CheckAndAddEffect ==
  ASSUME NEW m, ManagerOK(m), NEW id \in Nat
  PROVE  Accepted(m, id, CheckAndAddNewCheckpoint(m, id))
<1> DEFINE gap == LastChk(m).id + 1 < id
           closed == IF gap THEN OpenId(m) - 1 ELSE 0
           z == [m EXCEPT !.collapsed = gap, !.lastClosedId = closed]
           q == CheckAndAddNewCheckpoint(m, id)
<1>1. ShapeOK(m) /\ m \in Record(Len(m.list)) /\ OpenId(m) \in Nat
  BY ShapeFacts, LastFacts DEF ManagerOK
<1>2. OnlyCounters(m, z) /\ z.preChkId = m.preChkId
  <2>1. gap \in BOOLEAN /\ closed \in Int
    BY <1>1
  <2> HIDE DEF gap, closed
  <2>2. z \in Record(Len(m.list))
    BY <1>1, <2>1 DEF Record
  <2>3. z.list = m.list /\ z.cursor = m.cursor /\ z.mutationCounter = m.mutationCounter
        /\ z.preChkId = m.preChkId
    BY <1>1 DEF Record
  <2> HIDE DEF z
  <2> QED
    BY <2>2, <2>3 DEF OnlyCounters
<1>3. q = IF id = 0 THEN m
          ELSE IF LastChk(m).id = 0 THEN ResetCursors(SetOpenCheckpointId(m, id))
          ELSE IF IsOld(m, id) THEN Rollback(m, id)
          ELSE IF LastChk(m).open /\ NumDocs(LastChk(m)) = 0 THEN Renumber(z, id)
          ELSE AddNewCheckpoint(z, id)
  BY DEF CheckAndAddNewCheckpoint
<1> HIDE DEF z, q
<1>4. ManagerOK(z)
  BY <1>1, <1>2, SameCursors
<1>5. /\ ShapeOK(SetOpenCheckpointId(m, id)) /\ IdIsSet(m, id, SetOpenCheckpointId(m, id))
      /\ IsReset(SetOpenCheckpointId(m, id), ResetCursors(SetOpenCheckpointId(m, id)))
  BY <1>1, SetOpenIdOK, SetOpenIdEffect, ResetCursorsEffect
<1>6. IsRolledBack(m, id, Rollback(m, id)) /\ IsOpened(z, id, AddNewCheckpoint(z, id))
  BY <1>4, RollbackEffect, AddNewEffect
<1>7. IsRenumbered(m, id, Renumber(z, id))
  <2>1. IsRenumbered(z, id, Renumber(z, id))
    BY <1>4, RenumberEffect
  <2> QED
    BY <1>2, <2>1 DEF OnlyCounters, IsRenumbered, SameMids, SameNames
<1> QED
  BY <1>2, <1>3, <1>4, <1>5, <1>6, <1>7 DEF Accepted, q

\* nextItem: the cursor stays, or goes to the next item of its checkpoint, or, at the
\* end of a closed one, to the next checkpoint, and there perhaps to the first item.
IsRead(m, c, q) ==
  \/ q = m
  \/ /\ ~AtEnd(m, c)
     /\ m.cursor[c].closedOnly => /\ ~ChkOf(m, c).open
                                  /\ ChkOf(m, c).id < m.cursor[c].openId
     /\ Moves(m, c, NextKey(ChkOf(m, c), m.cursor[c].pos), q)
  \/ /\ AtEnd(m, c)
     /\ \E y : /\ ManagerOK(y) /\ MovedOn(m, c, y)
               /\ q = y \/ Moves(y, c, NextKey(ChkOf(y, c), Dummy), q)

\* nextItem: the cursor steps, skips meta items, or goes on to the next checkpoint.
LEMMA AdvanceTapEffect ==
  ASSUME NEW m, ManagerOK(m), NEW c \in Registered(m)
  PROVE  IsRead(m, c, AdvanceTapCursor(m, c))
<1> DEFINE q == AdvanceTapCursor(m, c)
           y == MoveCursorToNextCheckpoint(m, c)
<1>1. /\ c \in Names /\ m.cursor[c] \in Cursor /\ ChkOf(m, c) \in Checkpoint
      /\ m.cursor[c].openId \in Nat /\ ChkOf(m, c).id \in Nat
  BY Parts DEF ChkOf, Cursor, Checkpoint
<1>2. Moves(m, c, NextKey(ChkOf(m, c), m.cursor[c].pos), StepCursor(m, c))
  BY <1>1, StepCursorEffect
<1>3. CASE ~AtEnd(m, c)
  <2>1. q = m \/ (q = StepCursor(m, c) /\ ~m.cursor[c].closedOnly)
              \/ (q = StepCursor(m, c) /\ ~ChkOf(m, c).open /\ ~PastClosedOnly(m, c))
    BY <1>3 DEF AdvanceTapCursor, NextFromOpen, NextFromClosed
  <2>2. ~PastClosedOnly(m, c) /\ m.cursor[c].closedOnly => ChkOf(m, c).id < m.cursor[c].openId
    BY <1>1 DEF PastClosedOnly
  <2> HIDE DEF q
  <2>3. CASE q = m
    BY <2>3 DEF IsRead, q
  <2>4. CASE q # m
    <3>1. q = StepCursor(m, c)
      BY <2>1, <2>4
    <3>2. m.cursor[c].closedOnly => ~ChkOf(m, c).open /\ ChkOf(m, c).id < m.cursor[c].openId
      BY <2>1, <2>2, <2>4
    <3> QED
      BY <1>2, <1>3, <3>1, <3>2 DEF IsRead, q
  <2> QED
    BY <2>3, <2>4
<1>4. CASE AtEnd(m, c)
  <2>1. \/ q = m
        \/ CanMoveNext(m, c) /\ (q = y \/ q = StepCursor(y, c))
    BY <1>4 DEF AdvanceTapCursor, NextFromOpen, NextFromClosed
  <2>2. CanMoveNext(m, c) => /\ ManagerOK(y) /\ MovedOn(m, c, y)
    BY MoveCursorOK, MoveCursorEffect
  <2> HIDE DEF q, y
  <2>3. CanMoveNext(m, c) => Moves(y, c, NextKey(ChkOf(y, c), Dummy), StepCursor(y, c))
    <3>1. CanMoveNext(m, c) => y.cursor[c].pos = Dummy
      BY <2>2 DEF MovedOn
    <3> QED
      BY <1>1, <2>2, <3>1, StepCursorEffect
  <2>4. CASE q = m
    BY <2>4 DEF IsRead, q
  <2>5. CASE q # m
    BY <1>4, <2>1, <2>2, <2>3, <2>5 DEF IsRead, q
  <2> QED
    BY <2>4, <2>5
<1> QED
  BY <1>3, <1>4

-----------------------------------------------------------------------------
(***************************************************************************)
(* The order of mutation ids.                                              *)
(***************************************************************************)

\* No two items of a checkpoint have the same id, a closed checkpoint and no other
\* has an end item, and that is its last.  The documents' ids are above 2, which a
\* new manager's meta items take, so that they come after both meta items.
Sorted(c) ==
  /\ \A k, l \in AllKeys : k # l /\ c.mid[k] # 0 => c.mid[k] # c.mid[l]
  /\ (c.open) <=> (c.mid[End] = 0)
  /\ ~c.open => \A k \in AllKeys \ {End} : c.mid[k] < c.mid[End]
  /\ \A k \in AllKeys \ {Dummy, Start} : c.mid[k] # 0 => c.mid[k] > 2

\* All items of the one were queued before any of the other.
Below(c, d) == \A k, l \in AllKeys : d.mid[k] # 0 => c.mid[l] < d.mid[k]

OrderOK(m) ==
  /\ m.mutationCounter >= 2
  /\ \A i \in 1..Len(m.list) : Sorted(m.list[i])
  /\ \A i \in 1..Len(m.list) : m.list[i].open => i = Len(m.list)
  /\ \A i, j \in 1..Len(m.list) : i < j => Below(m.list[i], m.list[j])

\* The order within a checkpoint is one of its items and state only,
LEMMA SortedSame ==
  ASSUME NEW c, NEW d, c.mid = d.mid, c.open = d.open
  PROVE  Sorted(c) <=> Sorted(d)
BY DEF Sorted

\* and so is that between two checkpoints.
LEMMA BelowSame ==
  ASSUME NEW c, NEW d, NEW x, NEW y, c.mid = x.mid, d.mid = y.mid, Below(c, d)
  PROVE  Below(x, y)
BY DEF Below

\* The checkpoints stay as they are.
LEMMA OrderSame ==
  ASSUME NEW m, OrderOK(m), NEW q, SameMids(m, q), q.mutationCounter = m.mutationCounter
  PROVE  OrderOK(q)
<1>1. /\ Len(q.list) = Len(m.list)
      /\ \A i \in 1..Len(m.list) : /\ q.list[i].mid = m.list[i].mid
                                   /\ q.list[i].open = m.list[i].open
  BY DEF SameMids
<1>2. \A i \in 1..Len(m.list) : Sorted(q.list[i])
  BY <1>1, SortedSame DEF OrderOK
<1>3. \A i, j \in 1..Len(m.list) : i < j => Below(q.list[i], q.list[j])
  BY <1>1, BelowSame DEF OrderOK
<1> QED
  BY <1>1, <1>2, <1>3 DEF OrderOK

\* An item is queued behind all others: a document to the open checkpoint, or the end
\* item that closes it.
LEMMA OrderQueued ==
  ASSUME NEW m, ManagerOK(m), OrderOK(m), LastChk(m).open,
         NEW k \in AllKeys \ {Dummy, Start}, NEW q, ItemQueued(m, k, q),
         q.list[Len(m.list)].open = (k # End)
  PROVE  OrderOK(q)
<1> DEFINE n == Len(m.list)
           new == m.mutationCounter + 1
           c == m.list[n]
           d == q.list[n]
<1>1. /\ n \in Nat \ {0} /\ n \in 1..n /\ m.mutationCounter \in Nat /\ m.mutationCounter >= 2
      /\ new \in Nat /\ c.open
      /\ \A j \in AllKeys : c.mid[j] \in Nat /\ c.mid[j] <= m.mutationCounter
      /\ \A i \in 1..n : \A j \in AllKeys : /\ m.list[i].mid[j] \in Nat
                                            /\ m.list[i].mid[j] <= m.mutationCounter
  BY Parts DEF OrderOK
<1>2. /\ Len(q.list) = n /\ q.mutationCounter = new
      /\ \A i \in 1..n : i # n => q.list[i] = m.list[i]
      /\ \A j \in AllKeys : d.mid[j] = IF j = k THEN new ELSE c.mid[j]
      /\ (d.open) <=> (k # End)
  BY DEF ItemQueued
<1>3. /\ Sorted(c) /\ \A i \in 1..n : Sorted(m.list[i])
      /\ \A i \in 1..n : m.list[i].open => i = n
      /\ \A i, j \in 1..n : i < j => Below(m.list[i], m.list[j])
  BY <1>1 DEF OrderOK
<1> HIDE DEF n, c, d, new
<1>4. Sorted(d)
  <2>1. new > m.mutationCounter /\ new > 2
    BY <1>1 DEF new
  <2>2. /\ \A j, l \in AllKeys : j # l /\ c.mid[j] # 0 => c.mid[j] # c.mid[l]
        /\ c.mid[End] = 0
        /\ \A j \in AllKeys \ {Dummy, Start} : c.mid[j] # 0 => c.mid[j] > 2
    BY <1>1, <1>3 DEF Sorted
  <2>3. \A j, l \in AllKeys : j # l /\ d.mid[j] # 0 => d.mid[j] # d.mid[l]
    BY <1>1, <1>2, <2>1, <2>2
  <2>4. (d.open) <=> (d.mid[End] = 0)
    BY <1>1, <1>2, <2>1, <2>2, MetaKeysDiffer DEF MetaFact
  <2>5. ~d.open => \A j \in AllKeys \ {End} : d.mid[j] < d.mid[End]
    BY <1>1, <1>2, <2>1
  <2>6. \A j \in AllKeys \ {Dummy, Start} : d.mid[j] # 0 => d.mid[j] > 2
    BY <1>2, <2>1, <2>2
  <2> QED
    BY <2>3, <2>4, <2>5, <2>6 DEF Sorted
<1>5. ASSUME NEW i \in 1..n, i # n
      PROVE  Below(m.list[i], d)
  <2>1. Below(m.list[i], c) /\ m.mutationCounter < new
    BY <1>1, <1>3, <1>5 DEF new, c
  <2> QED
    BY <1>1, <1>2, <2>1 DEF Below
<1>6. \A i \in 1..n : Sorted(q.list[i])
  BY <1>2, <1>3, <1>4 DEF d
<1>7. \A i \in 1..n : q.list[i].open => i = n
  BY <1>2, <1>3
<1>8. ASSUME NEW i \in 1..n, NEW j \in 1..n, i < j
      PROVE  Below(q.list[i], q.list[j])
  <2>1. i # n /\ q.list[i] = m.list[i]
    BY <1>1, <1>2, <1>8
  <2> QED
    BY <1>2, <1>3, <1>5, <1>8, <2>1 DEF d
<1> QED
  BY <1>1, <1>2, <1>6, <1>7, <1>8 DEF OrderOK, new

\* The end item of the open checkpoint.
LEMMA OrderClosed ==
  ASSUME NEW m, ManagerOK(m), OrderOK(m), NEW q, IsClosed(m, q), ManagerOK(q)
  PROVE  OrderOK(q)
<1>1. Len(q.list) = Len(m.list) /\ Len(m.list) \in 1..Len(m.list)
      /\ \A i \in 1..Len(q.list) : q.list[i].open \in BOOLEAN
  BY Parts DEF IsClosed, ItemQueued
<1>2. q.list[Len(m.list)].open = (End # End)
  BY <1>1 DEF IsClosed
<1>3. End \in AllKeys \ {Dummy, Start}
  BY MetaKeysDiffer DEF MetaFact
<1> QED
  BY <1>2, <1>3, OrderQueued DEF IsClosed

\* A new checkpoint behind a closed one.
LEMMA OrderAppended ==
  ASSUME NEW m, ManagerOK(m), OrderOK(m), ~LastChk(m).open, NEW id, NEW q,
         IsAppended(m, id, q)
  PROVE  OrderOK(q)
<1> DEFINE n == Len(m.list)
           cnt == m.mutationCounter
           d == q.list[n + 1]
<1>0. /\ n \in Nat \ {0} /\ cnt \in Nat /\ LastChk(m) = m.list[n]
      /\ \A i \in 1..n : \A j \in AllKeys : m.list[i].mid[j] \in Nat /\ m.list[i].mid[j] <= cnt
  BY Parts
<1>1. n \in 1..n /\ cnt >= 2
  BY <1>0 DEF OrderOK
<1>2. /\ Len(q.list) = n + 1 /\ q.mutationCounter = cnt + 2
      /\ \A i \in 1..n : q.list[i] = m.list[i]
      /\ d.open
      /\ \A k \in AllKeys : d.mid[k] = IF k = Dummy THEN cnt + 1
                                       ELSE IF k = Start THEN cnt + 2 ELSE 0
  BY DEF IsAppended
<1>3. /\ \A i \in 1..n : Sorted(m.list[i])
      /\ \A i \in 1..n : ~m.list[i].open
      /\ \A i, j \in 1..n : i < j => Below(m.list[i], m.list[j])
  BY <1>0, <1>1 DEF OrderOK
<1> HIDE DEF n, cnt, d
<1>4. Sorted(d)
  <2>1. /\ Dummy # Start /\ Dummy # End /\ Start # End
        /\ Dummy \in AllKeys /\ Start \in AllKeys /\ End \in AllKeys
    BY MetaKeysDiffer DEF MetaFact
  <2>2. \A k, l \in AllKeys : k # l /\ d.mid[k] # 0 => d.mid[k] # d.mid[l]
    BY <1>0, <1>2, <2>1
  <2>3. d.mid[End] = 0 /\ \A k \in AllKeys \ {Dummy, Start} : d.mid[k] = 0
    BY <1>2, <2>1
  <2> QED
    BY <1>2, <2>2, <2>3 DEF Sorted
<1>5. \A i \in 1..n : Below(m.list[i], d)
  BY <1>0, <1>2 DEF Below
<1>6. ASSUME NEW i \in 1..(n + 1)
      PROVE  Sorted(q.list[i]) /\ (q.list[i].open => i = n + 1)
  BY <1>0, <1>2, <1>3, <1>4 DEF d
<1>7. ASSUME NEW i \in 1..(n + 1), NEW j \in 1..(n + 1), i < j
      PROVE  Below(q.list[i], q.list[j])
  <2>1. i \in 1..n /\ q.list[i] = m.list[i]
    BY <1>0, <1>2, <1>7
  <2>2. CASE j = n + 1
    BY <1>5, <2>1, <2>2 DEF d
  <2>3. CASE j \in 1..n
    BY <1>2, <1>3, <1>7, <2>1, <2>3
  <2> QED
    BY <1>0, <2>2, <2>3
<1> QED
  BY <1>0, <1>1, <1>2, <1>6, <1>7 DEF OrderOK

\* Checkpoints are dropped at the front.
LEMMA OrderCut ==
  ASSUME NEW m, ManagerOK(m), OrderOK(m), NEW r, NEW q, IsCut(m, r, q)
  PROVE  OrderOK(q)
<1> DEFINE n == Len(m.list)
<1>1. /\ n \in Nat /\ r \in Nat /\ r < n /\ Len(q.list) = n - r
      /\ q.mutationCounter = m.mutationCounter
      /\ \A i \in 1..(n - r) : /\ q.list[i].mid = m.list[i + r].mid
                               /\ q.list[i].open = m.list[i + r].open
  BY Parts DEF IsCut
<1>2. /\ \A i \in 1..n : Sorted(m.list[i]) /\ (m.list[i].open => i = n)
      /\ \A i, j \in 1..n : i < j => Below(m.list[i], m.list[j])
      /\ m.mutationCounter >= 2
  BY DEF OrderOK
<1> HIDE DEF n
<1>3. ASSUME NEW i \in 1..(n - r)
      PROVE  i + r \in 1..n /\ Sorted(q.list[i]) /\ (q.list[i].open => i = n - r)
  <2>1. i + r \in 1..n
    BY <1>1
  <2>2. Sorted(q.list[i])
    BY <1>1, <1>2, <2>1, SortedSame
  <2>3. q.list[i].open => m.list[i + r].open
    BY <1>1
  <2>4. q.list[i].open => i + r = n
    BY <1>2, <2>1, <2>3
  <2>5. i + r = n => i = n - r
    BY <1>1
  <2> QED
    BY <2>1, <2>2, <2>4, <2>5
<1>4. ASSUME NEW i \in 1..(n - r), NEW j \in 1..(n - r), i < j
      PROVE  Below(q.list[i], q.list[j])
  <2>1. i + r \in 1..n /\ j + r \in 1..n /\ i + r < j + r
    BY <1>1, <1>3, <1>4
  <2>2. Below(m.list[i + r], m.list[j + r])
    BY <1>2, <2>1
  <2>3. m.list[i + r].mid = q.list[i].mid /\ m.list[j + r].mid = q.list[j].mid
    BY <1>1
  <2> QED
    BY <2>2, <2>3, BelowSame
<1> QED
  BY <1>1, <1>2, <1>3, <1>4 DEF OrderOK

\* Merging sorted checkpoints gives a sorted one.
LEMMA MergedSorted ==
  ASSUME NEW m, ManagerOK(m), OrderOK(m), NEW t \in 1..Len(m.list)
  PROVE  /\ \A k \in AllKeys : MergedMid(m.list, t)[k] \in Nat
         /\ \A k, l \in AllKeys : k # l /\ MergedMid(m.list, t)[k] # 0
              => MergedMid(m.list, t)[k] # MergedMid(m.list, t)[l]
         /\ \A k \in AllKeys \ {Dummy, Start} :
              MergedMid(m.list, t)[k] # 0 => MergedMid(m.list, t)[k] > 2
         /\ \A k \in AllKeys : MergedMid(m.list, t)[k] # 0 =>
              \E i \in 1..t : m.list[i].mid[k] = MergedMid(m.list, t)[k]
         /\ \A k \in AllKeys : m.list[t].mid[k] # 0 => MergedMid(m.list, t)[k] = m.list[t].mid[k]
<1> DEFINE mid == MergedMid(m.list, t)
<1>1. /\ t \in Nat \ {0} /\ 1..t \subseteq 1..Len(m.list) /\ t \in 1..t
      /\ \A i \in 1..t : \A k \in AllKeys : m.list[i].mid[k] \in Nat
      /\ \A i \in 1..t : Sorted(m.list[i])
      /\ \A i, j \in 1..t : i < j => Below(m.list[i], m.list[j])
  BY Parts, SMTT(30) DEF OrderOK
<1>2. /\ \A k \in AllKeys \ Keys : mid[k] = m.list[t].mid[k]
      /\ \A k \in Keys :
           \/ /\ \A i \in 1..t : m.list[i].mid[k] = 0
              /\ mid[k] = 0
           \/ \E i \in 1..t : /\ m.list[i].mid[k] # 0 /\ mid[k] = m.list[i].mid[k]
                              /\ \A j \in 1..t : m.list[j].mid[k] # 0 => j <= i
  BY <1>1, MergedMidFacts
<1> HIDE DEF mid
<1>3. ASSUME NEW k \in AllKeys
      PROVE  \E i \in 1..t : m.list[i].mid[k] = mid[k]
  BY <1>1, <1>2
<1>4. ASSUME NEW k \in AllKeys, m.list[t].mid[k] # 0
      PROVE  mid[k] = m.list[t].mid[k]
  <2>1. CASE k \in Keys
    <3>1. PICK i \in 1..t : /\ mid[k] = m.list[i].mid[k]
                            /\ \A j \in 1..t : m.list[j].mid[k] # 0 => j <= i
      BY <1>1, <1>2, <1>4, <2>1
    <3>2. i = t
      BY <1>1, <1>4, <3>1
    <3> QED
      BY <3>1, <3>2
  <2> QED
    BY <1>2, <2>1
<1>5. ASSUME NEW k \in AllKeys, NEW l \in AllKeys, k # l, mid[k] # 0
      PROVE  mid[k] # mid[l]
  <2>1. PICK i \in 1..t : m.list[i].mid[k] = mid[k]
    BY <1>3
  <2>2. PICK j \in 1..t : m.list[j].mid[l] = mid[l]
    BY <1>3
  <2>3. CASE i = j
    <3>1. Sorted(m.list[i])
      BY <1>1
    <3> QED
      BY <1>5, <2>1, <2>2, <2>3, <3>1 DEF Sorted
  <2>4. CASE j < i
    <3>1. Below(m.list[j], m.list[i]) /\ m.list[j].mid[l] \in Nat /\ m.list[i].mid[k] \in Nat
      BY <1>1, <2>4
    <3> QED
      BY <1>5, <2>1, <2>2, <3>1 DEF Below
  <2>5. CASE i < j /\ mid[l] # 0
    <3>1. Below(m.list[i], m.list[j]) /\ m.list[j].mid[l] \in Nat /\ m.list[i].mid[k] \in Nat
      BY <1>1, <2>5
    <3> QED
      BY <2>1, <2>2, <2>5, <3>1 DEF Below
  <2> QED
    BY <1>1, <1>5, <2>3, <2>4, <2>5
<1>6. ASSUME NEW k \in AllKeys \ {Dummy, Start}, mid[k] # 0
      PROVE  mid[k] > 2
  <2>1. PICK i \in 1..t : m.list[i].mid[k] = mid[k]
    BY <1>3
  <2>2. Sorted(m.list[i])
    BY <1>1
  <2> QED
    BY <1>6, <2>1, <2>2 DEF Sorted
<1>7. \A k \in AllKeys : mid[k] \in Nat
  BY <1>1, <1>3
<1> QED
  BY <1>3, <1>4, <1>5, <1>6, <1>7 DEF mid

\* The merged checkpoint stays below those that are not merged.
LEMMA OrderCollapsed ==
  ASSUME NEW m, ManagerOK(m), OrderOK(m), NEW q, IsCollapsed(m, q), ManagerOK(q)
  PROVE  OrderOK(q)
<1> DEFINE n == Len(m.list)
           t == n - 1
           mid == MergedMid(m.list, t)
           c == m.list[t]
           d == q.list[1]
<1>1. /\ n \in Nat /\ t \in 2..n /\ t \in 1..n /\ t < n /\ n \in 1..n
      /\ Len(q.list) = 2 /\ q.mutationCounter = m.mutationCounter
      /\ d.mid = mid /\ d.open = c.open /\ q.list[2] = m.list[n]
  <2>1. n \in Nat
    BY Parts
  <2>2. /\ t \in 2..n /\ Len(q.list) = 2 /\ q.mutationCounter = m.mutationCounter
        /\ d.mid = mid /\ d.open = c.open /\ q.list[2] = m.list[n]
    BY ZenonT(60) DEF IsCollapsed
  <2>3. t \in 1..n /\ t < n /\ n \in 1..n
    BY <2>1, <2>2
  <2> QED
    BY <2>1, <2>2, <2>3
<1>2. /\ \A i \in 1..n : Sorted(m.list[i]) /\ (m.list[i].open => i = n)
      /\ \A i, j \in 1..n : i < j => Below(m.list[i], m.list[j])
      /\ m.mutationCounter >= 2
  BY DEF OrderOK
<1>3. /\ \A k \in AllKeys : mid[k] \in Nat
      /\ \A k, l \in AllKeys : k # l /\ mid[k] # 0 => mid[k] # mid[l]
      /\ \A k \in AllKeys \ {Dummy, Start} : mid[k] # 0 => mid[k] > 2
      /\ \A k \in AllKeys : mid[k] # 0 => \E i \in 1..t : m.list[i].mid[k] = mid[k]
      /\ \A k \in AllKeys : c.mid[k] # 0 => mid[k] = c.mid[k]
  BY <1>1, MergedSorted, SMTT(30)
<1>4. /\ End \in AllKeys /\ \A i \in 1..n : \A k \in AllKeys : m.list[i].mid[k] \in Nat
      /\ \A i \in 1..n : \E k \in AllKeys : m.list[i].mid[k] # 0
  BY Parts, MetaKeysDiffer DEF MetaFact
<1> HIDE DEF n, t, mid, d
<1>5. Sorted(c) /\ ~c.open /\ c.mid[End] # 0 /\ mid[End] = c.mid[End]
  <2>1. Sorted(c) /\ ~c.open
    BY <1>1, <1>2
  <2> QED
    BY <1>3, <1>4, <2>1 DEF Sorted
<1>6. ASSUME NEW k \in AllKeys \ {End}
      PROVE  mid[k] < mid[End]
  <2>1. CASE mid[k] # 0
    <3>1. PICK i \in 1..t : m.list[i].mid[k] = mid[k]
      BY <1>3, <2>1
    <3>2. CASE i = t
      BY <1>5, <3>1, <3>2 DEF Sorted
    <3>3. CASE i # t
      <4>1. Below(m.list[i], c)
        BY <1>1, <1>2, <3>3
      <4> QED
        BY <1>4, <1>5, <3>1, <4>1 DEF Below
    <3> QED
      BY <3>2, <3>3
  <2>2. CASE mid[k] = 0
    BY <1>3, <1>4, <1>5, <2>2
  <2> QED
    BY <2>1, <2>2
<1>7. Sorted(d)
  BY <1>1, <1>3, <1>5, <1>6 DEF Sorted
<1>8. Below(d, m.list[n])
  <2>1. SUFFICES ASSUME NEW k \in AllKeys, NEW l \in AllKeys, m.list[n].mid[k] # 0
                 PROVE  mid[l] < m.list[n].mid[k]
    BY <1>1 DEF Below
  <2>2. CASE mid[l] # 0
    <3>1. PICK i \in 1..t : m.list[i].mid[l] = mid[l]
      BY <1>3, <2>2
    <3>2. Below(m.list[i], m.list[n])
      BY <1>1, <1>2
    <3> QED
      BY <2>1, <3>1, <3>2 DEF Below
  <2>3. CASE mid[l] = 0
    BY <1>1, <1>4, <2>1, <2>3
  <2> QED
    BY <2>2, <2>3
<1>9. ASSUME NEW i \in 1..2
      PROVE  Sorted(q.list[i]) /\ (q.list[i].open => i = 2)
  <2>1. CASE i = 1
    BY <1>1, <1>5, <1>7, <2>1 DEF d
  <2>2. CASE i = 2
    BY <1>1, <1>2, <2>2
  <2> QED
    BY <2>1, <2>2
<1>10. ASSUME NEW i \in 1..2, NEW j \in 1..2, i < j
       PROVE  Below(q.list[i], q.list[j])
  BY <1>1, <1>8, <1>10 DEF d
<1> QED
  BY <1>1, <1>2, <1>9, <1>10 DEF OrderOK

\* A manager with one open checkpoint.
LEMMA OrderSingle ==
  ASSUME NEW q, Len(q.list) = 1, q.mutationCounter >= 2, Sorted(q.list[1])
  PROVE  OrderOK(q)
<1>1. \A i \in 1..1 : i = 1
  OBVIOUS
<1> QED
  BY <1>1 DEF OrderOK

\* The merged checkpoints are the last ones and open again.
LEMMA OrderRolledBack ==
  ASSUME NEW m, ManagerOK(m), OrderOK(m), NEW id, NEW q, IsRolledBack(m, id, q)
  PROVE  OrderOK(q)
<1> DEFINE n == Len(m.list)
           mid == MergedMid(m.list, n)
           d == q.list[1]
<1>1. /\ n \in 1..n /\ m.mutationCounter >= 2
      /\ Len(q.list) = 1 /\ q.mutationCounter = m.mutationCounter /\ d.open
      /\ \A k \in AllKeys : d.mid[k] = IF k = End THEN 0 ELSE mid[k]
  BY Parts DEF IsRolledBack, OrderOK
<1>2. /\ \A k, l \in AllKeys : k # l /\ mid[k] # 0 => mid[k] # mid[l]
      /\ \A k \in AllKeys \ {Dummy, Start} : mid[k] # 0 => mid[k] > 2
  BY <1>1, MergedSorted
<1>3. End \in AllKeys
  BY MetaKeysDiffer DEF MetaFact
<1> HIDE DEF n, mid, d
<1>4. Sorted(d)
  <2>1. \A k, l \in AllKeys : k # l /\ d.mid[k] # 0 => d.mid[k] # d.mid[l]
    BY <1>1, <1>2
  <2>2. \A k \in AllKeys \ {Dummy, Start} : d.mid[k] # 0 => d.mid[k] > 2
    BY <1>1, <1>2
  <2> QED
    BY <1>1, <1>3, <2>1, <2>2 DEF Sorted
<1> QED
  BY <1>1, <1>4, OrderSingle DEF d

\* A manager with one new checkpoint.
LEMMA OrderFresh ==
  ASSUME NEW q, NEW id, NEW names, IsFresh(q, id, names)
  PROVE  OrderOK(q)
<1> DEFINE d == q.list[1]
<1>1. /\ Len(q.list) = 1 /\ q.mutationCounter = 2 /\ d.open
      /\ \A k \in AllKeys : d.mid[k] = IF k = Dummy THEN 1 ELSE IF k = Start THEN 2 ELSE 0
  BY DEF IsFresh
<1>2. /\ Dummy # Start /\ Dummy # End /\ Start # End
      /\ Dummy \in AllKeys /\ Start \in AllKeys /\ End \in AllKeys
  BY MetaKeysDiffer DEF MetaFact
<1> HIDE DEF d
<1>3. \A k, l \in AllKeys : k # l /\ d.mid[k] # 0 => d.mid[k] # d.mid[l]
  BY <1>1, <1>2
<1>4. Sorted(d)
  BY <1>1, <1>2, <1>3 DEF Sorted
<1> QED
  BY <1>1, <1>4, OrderSingle DEF d
-----------------------------------------------------------------------------
(***************************************************************************)
(* Checkpoint ids and registered names, in a vbucket whose manager is made *)
(* anew for every backfill, and the first items of a checkpoint that no    *)
(* other was merged into, which is so in a vbucket that is always a master.*)
(***************************************************************************)

IdsOK(m) == \A i, j \in 1..Len(m.list) : i < j => m.list[i].id < m.list[j].id

NamesOK(m) == \A i \in 1..Len(m.list) : \A c \in m.list[i].cursors : m.cursor[c].chk = i

\* The meta items are the oldest of their checkpoint.
MetaFirst(c) ==
  \A k \in AllKeys \ {Dummy} : c.mid[k] # 0 =>
    /\ c.mid[Dummy] < c.mid[k]
    /\ k # Start => c.mid[Start] < c.mid[k]

MetaOK(m) == \A i \in 1..Len(m.list) : MetaFirst(m.list[i])

AlwaysMaster == VBStates = {"active"} /\ ~InconsistentSlave

Orderly(m) ==
  /\ OrderOK(m)
  /\ ~MayBeEmpty => IdsOK(m) /\ NamesOK(m)
  /\ AlwaysMaster => MetaOK(m)

\* Where meta items are depends on the items only,
LEMMA MetaSame ==
  ASSUME NEW m, MetaOK(m), NEW q, SameMids(m, q)
  PROVE  MetaOK(q)
<1>1. ASSUME NEW i \in 1..Len(m.list)
      PROVE  MetaFirst(q.list[i])
  BY DEF MetaOK, MetaFirst, SameMids
<1> QED
  BY <1>1 DEF MetaOK, SameMids

\* the order of ids on the ids,
LEMMA IdsSame ==
  ASSUME NEW m, IdsOK(m), NEW q, Len(q.list) = Len(m.list), SameIds(m, q)
  PROVE  IdsOK(q)
BY DEF IdsOK, SameIds

\* and whose checkpoint a name is in on names and cursors.
LEMMA NamesSame ==
  ASSUME NEW m, ManagerOK(m), NamesOK(m), NEW q, Len(q.list) = Len(m.list), SameNames(m, q),
         \A d \in Names : q.cursor[d].chk = m.cursor[d].chk
  PROVE  NamesOK(q)
<1>1. \A i \in 1..Len(m.list) : m.list[i].cursors \subseteq Names
  BY Parts
<1> QED
  BY <1>1 DEF NamesOK, SameNames

\* The checkpoints keep their items and ids.
LEMMA KeepOrder ==
  ASSUME NEW m, Orderly(m), NEW q, SameMids(m, q), SameIds(m, q),
         q.mutationCounter = m.mutationCounter,
         NamesOK(m) => NamesOK(q)
  PROVE  Orderly(q)
<1>1. Len(q.list) = Len(m.list)
  BY DEF SameMids
<1> QED
  BY <1>1, OrderSame, MetaSame, IdsSame DEF Orderly

\* An item is queued to the open checkpoint.
LEMMA OrderlyQueued ==
  ASSUME NEW m, ManagerOK(m), Orderly(m), LastChk(m).open,
         NEW k \in AllKeys \ {Dummy, Start}, NEW q, ItemQueued(m, k, q), ManagerOK(q),
         q.list[Len(m.list)].open = (k # End)
  PROVE  Orderly(q)
<1> DEFINE n == Len(m.list)
           d == q.list[n]
<1>1. OrderOK(q)
  BY OrderQueued DEF Orderly
<1>2. /\ Len(q.list) = n
      /\ \A i \in 1..n : /\ q.list[i].id = m.list[i].id
                         /\ q.list[i].cursors = m.list[i].cursors
      /\ \A c \in Names : q.cursor[c].chk = m.cursor[c].chk
  BY DEF ItemQueued
<1>3. IdsOK(m) => IdsOK(q)
  BY <1>2, IdsSame DEF SameIds
<1>4. NamesOK(m) => NamesOK(q)
  BY <1>2, NamesSame DEF SameNames
<1>5. ASSUME MetaOK(m)
      PROVE  MetaOK(q)
  <2>0. n \in Nat \ {0} /\ n \in 1..n
    BY Parts
  <2>1. /\ n \in 1..n /\ m.mutationCounter \in Nat
        /\ \A j \in AllKeys : m.list[n].mid[j] \in Nat /\ m.list[n].mid[j] <= m.mutationCounter
    BY <2>0, Parts
  <2>2. /\ q.mutationCounter = m.mutationCounter + 1
        /\ \A i \in 1..n : i # n => q.list[i] = m.list[i]
        /\ \A j \in AllKeys : d.mid[j] = IF j = k THEN q.mutationCounter ELSE m.list[n].mid[j]
    BY DEF ItemQueued
  <2>3. MetaFirst(m.list[n])
    BY <1>5, <2>1 DEF MetaOK
  <2>4. Dummy # Start /\ Dummy \in AllKeys /\ Start \in AllKeys
    BY MetaKeysDiffer DEF MetaFact
  <2> HIDE DEF n, d
  <2>5. MetaFirst(d)
    BY <2>1, <2>2, <2>3, <2>4, SMTT(30) DEF MetaFirst
  <2>6. \A i \in 1..n : MetaFirst(q.list[i])
    BY <1>5, <2>2, <2>5 DEF MetaOK, n, d
  <2> QED
    BY <1>2, <2>6 DEF MetaOK
<1> QED
  BY <1>1, <1>3, <1>4, <1>5 DEF Orderly

\* The open checkpoint is closed.
LEMMA OrderlyClosed ==
  ASSUME NEW m, ManagerOK(m), Orderly(m), NEW q, IsClosed(m, q), ManagerOK(q)
  PROVE  Orderly(q)
<1>1. Len(q.list) = Len(m.list) /\ Len(m.list) \in 1..Len(m.list)
      /\ \A i \in 1..Len(q.list) : q.list[i].open \in BOOLEAN
  BY Parts DEF IsClosed, ItemQueued
<1>2. q.list[Len(m.list)].open = (End # End)
  BY <1>1 DEF IsClosed
<1>3. End \in AllKeys \ {Dummy, Start}
  BY MetaKeysDiffer DEF MetaFact
<1> QED
  BY <1>2, <1>3, OrderlyQueued DEF IsClosed

\* A checkpoint with a greater id is appended.
LEMMA OrderlyAppended ==
  ASSUME NEW m, ManagerOK(m), Orderly(m), ~LastChk(m).open, NEW id \in Nat, NEW q,
         IsAppended(m, id, q), ~MayBeEmpty => LastChk(m).id < id
  PROVE  Orderly(q)
<1> DEFINE n == Len(m.list)
           d == q.list[n + 1]
<1>1. OrderOK(q)
  BY OrderAppended DEF Orderly
<1>2. /\ Len(q.list) = n + 1 /\ \A i \in 1..n : q.list[i] = m.list[i]
      /\ d.id = id /\ d.cursors = {} /\ q.cursor = m.cursor
      /\ \A k \in AllKeys : d.mid[k] = IF k = Dummy THEN m.mutationCounter + 1
                                       ELSE IF k = Start THEN m.mutationCounter + 2 ELSE 0
  BY DEF IsAppended
<1>3. /\ n \in Nat \ {0} /\ n \in 1..n /\ m.mutationCounter \in Nat /\ LastChk(m) = m.list[n]
      /\ \A i \in 1..n : m.list[i].id \in Nat
  BY Parts
<1> HIDE DEF n, d
<1>4. ASSUME ~MayBeEmpty
      PROVE  IdsOK(q)
  <2>1. m.list[n].id < id /\ \A i, j \in 1..n : i < j => m.list[i].id < m.list[j].id
    BY <1>3, <1>4 DEF Orderly, IdsOK, n
  <2>2. ASSUME NEW i \in 1..n
        PROVE  m.list[i].id < id
    <3>1. CASE i = n
      BY <2>1, <3>1
    <3>2. CASE i # n
      BY <1>3, <2>1, <3>2
    <3> QED
      BY <3>1, <3>2
  <2>3. ASSUME NEW i \in 1..(n + 1), NEW j \in 1..(n + 1), i < j
        PROVE  q.list[i].id < q.list[j].id
    <3>1. i \in 1..n
      BY <1>3, <2>3
    <3>2. CASE j = n + 1
      BY <1>2, <2>2, <3>1, <3>2 DEF d
    <3>3. CASE j \in 1..n
      BY <1>2, <2>1, <2>3, <3>1, <3>3
    <3> QED
      BY <1>3, <3>2, <3>3
  <2> QED
    BY <1>2, <2>3 DEF IdsOK
<1>5. ASSUME NamesOK(m)
      PROVE  NamesOK(q)
  <2>1. ASSUME NEW i \in 1..(n + 1), NEW c \in q.list[i].cursors
        PROVE  q.cursor[c].chk = i
    <3>1. i \in 1..n
      BY <1>2, <1>3, <2>1 DEF d
    <3> QED
      BY <1>2, <1>5, <2>1, <3>1 DEF NamesOK, n
  <2> QED
    BY <1>2, <2>1 DEF NamesOK
<1>6. ASSUME MetaOK(m)
      PROVE  MetaOK(q)
  <2>1. MetaFirst(d)
    BY <1>2, <1>3, MetaKeysDiffer DEF MetaFirst, MetaFact
  <2>2. \A i \in 1..(n + 1) : MetaFirst(q.list[i])
    BY <1>2, <1>3, <1>6, <2>1 DEF MetaOK, n, d
  <2> QED
    BY <1>2, <2>2 DEF MetaOK
<1> QED
  BY <1>1, <1>4, <1>5, <1>6 DEF Orderly

\* The persistence cursor goes on.
LEMMA OrderlyAdvanced ==
  ASSUME NEW m, ManagerOK(m), Orderly(m), NEW q, IsAdvanced(m, q)
  PROVE  Orderly(q)
<1>1. SameMids(m, q) /\ SameIds(m, q) /\ q.mutationCounter = m.mutationCounter
  BY DEF IsAdvanced
<1>2. ASSUME NamesOK(m)
      PROVE  NamesOK(q)
  <2> DEFINE c == Persistence
             here == m.cursor[c].chk
  <2>1. Len(q.list) = Len(m.list) /\ \A d \in Names \ {c} : q.cursor[d] = m.cursor[d]
    BY DEF IsAdvanced, SameMids
  <2>2. /\ \A i \in 1..Len(m.list) : m.list[i].cursors \subseteq Names
        /\ Len(m.list) \in Nat /\ here \in 1..Len(m.list)
    BY Parts
  <2>3. CASE q.list = m.list /\ q.cursor[c].chk = here
    BY <1>2, <2>1, <2>2, <2>3 DEF NamesOK
  <2>4. CASE /\ \A i \in 1..Len(m.list) :
                  q.list[i].cursors = IF i = here THEN m.list[i].cursors \ {c}
                                      ELSE IF i = here + 1 THEN m.list[i].cursors \cup {c}
                                      ELSE m.list[i].cursors
             /\ q.cursor[c].chk = here + 1
    <3>1. ASSUME NEW i \in 1..Len(m.list), NEW d \in q.list[i].cursors
          PROVE  q.cursor[d].chk = i
      <4>1. CASE d = c
        <5>1. i = here + 1
          BY <1>2, <2>4, <3>1, <4>1 DEF NamesOK
        <5> QED
          BY <2>4, <4>1, <5>1
      <4>2. CASE d # c
        <5>0. q.list[i].cursors \subseteq m.list[i].cursors \cup {c}
          BY <2>4
        <5>1. d \in m.list[i].cursors
          BY <5>0, <3>1, <4>2
        <5> QED
          BY <1>2, <2>1, <2>2, <4>2, <5>1 DEF NamesOK
      <4> QED
        BY <4>1, <4>2
    <3> QED
      BY <2>1, <3>1 DEF NamesOK
  <2> QED
    BY <2>3, <2>4 DEF IsAdvanced
<1> QED
  BY <1>1, <1>2, KeepOrder

\* addNewCheckpoint_UNLOCKED with a greater id.
LEMMA OrderlyOpened ==
  ASSUME NEW m, ManagerOK(m), Orderly(m), NEW id \in Nat, NEW q, IsOpened(m, id, q),
         ~MayBeEmpty => LastChk(m).id < id
  PROVE  Orderly(q)
<1>1. PICK a, b : /\ ManagerOK(a) /\ ManagerOK(b)
                  /\ IF LastChk(m).open THEN IsClosed(m, a) ELSE a = m
                  /\ IsAppended(a, id, b) /\ IsAdvanced(b, q)
  BY DEF IsOpened
<1>2. Orderly(a) /\ ~LastChk(a).open /\ LastChk(a).id = LastChk(m).id
  <2>1. CASE LastChk(m).open
    <3>1. IsClosed(m, a)
      BY <1>1, <2>1
    <3>2. /\ Len(a.list) = Len(m.list) /\ LastChk(a) = a.list[Len(a.list)]
          /\ LastChk(m) = m.list[Len(m.list)] /\ Len(m.list) \in 1..Len(m.list)
      BY <1>1, <3>1, Parts DEF IsClosed, ItemQueued
    <3>3. a.list[Len(m.list)].id = m.list[Len(m.list)].id /\ ~a.list[Len(m.list)].open
      BY <3>1, <3>2 DEF IsClosed, ItemQueued
    <3> QED
      BY <1>1, <3>1, <3>2, <3>3, OrderlyClosed
  <2> QED
    BY <1>1, <2>1
<1>3. Orderly(b)
  BY <1>1, <1>2, OrderlyAppended
<1> QED
  BY <1>1, <1>3, OrderlyAdvanced

\* The cursors that are done with a closed checkpoint go on.
LEMMA OrderlyMovedOn ==
  ASSUME NEW m, ManagerOK(m), Orderly(m), NEW oldId, NEW q,
         HaveMovedOn(m, Finished(m, oldId), q)
  PROVE  Orderly(q)
<1> DEFINE done == Finished(m, oldId)
<1>1. /\ SameMids(m, q) /\ SameIds(m, q) /\ q.mutationCounter = m.mutationCounter
      /\ \A i \in 1..Len(m.list) :
           q.list[i].cursors = (m.list[i].cursors \ {c \in done : m.cursor[c].chk = i})
                                 \cup {c \in done : m.cursor[c].chk = i - 1}
      /\ \A c \in done : /\ m.cursor[c].chk \in 1..(Len(m.list) - 1)
                         /\ q.cursor[c].chk = m.cursor[c].chk + 1
      /\ \A c \in Names \ done : q.cursor[c] = m.cursor[c]
  BY DEF HaveMovedOn
<1>2. Len(q.list) = Len(m.list) /\ Len(m.list) \in Nat
      /\ \A i \in 1..Len(m.list) : m.list[i].cursors \subseteq Names
  BY <1>1, Parts DEF SameMids
<1> HIDE DEF done
<1>3. ASSUME NamesOK(m)
      PROVE  NamesOK(q)
  <2>1. ASSUME NEW i \in 1..Len(m.list), NEW d \in q.list[i].cursors
        PROVE  q.cursor[d].chk = i
    <3>1. CASE d \in done /\ m.cursor[d].chk = i - 1
      BY <1>1, <1>2, <3>1
    <3>2. CASE ~(d \in done /\ m.cursor[d].chk = i - 1)
      <4>1. d \in m.list[i].cursors /\ ~(d \in done /\ m.cursor[d].chk = i)
        BY <1>1, <2>1, <3>2
      <4>2. m.cursor[d].chk = i
        BY <1>3, <4>1 DEF NamesOK
      <4> QED
        BY <1>1, <1>2, <4>1, <4>2
    <3> QED
      BY <3>1, <3>2
  <2> QED
    BY <1>2, <2>1 DEF NamesOK
<1> QED
  BY <1>1, <1>3, KeepOrder

\* Unreferenced checkpoints are dropped.
LEMMA OrderlyCut ==
  ASSUME NEW m, ManagerOK(m), Orderly(m), NEW r, NEW q, IsCut(m, r, q)
  PROVE  Orderly(q)
<1> DEFINE n == Len(m.list)
<1>1. OrderOK(q)
  BY OrderCut DEF Orderly
<1>2. /\ n \in Nat /\ r \in Nat /\ r < n /\ Len(q.list) = n - r
      /\ \A i \in 1..(n - r) : /\ q.list[i].mid = m.list[i + r].mid
                               /\ q.list[i].id = m.list[i + r].id
                               /\ q.list[i].cursors \subseteq m.list[i + r].cursors
      /\ \A d \in Registered(m) : q.cursor[d].chk = m.cursor[d].chk - r
  BY Parts DEF IsCut
<1>3. \A i \in 1..n : m.list[i].cursors \subseteq Registered(m)
  BY Parts
<1> HIDE DEF n
<1>4. \A i \in 1..(n - r) : i + r \in 1..n
  BY <1>2
<1>5. ASSUME IdsOK(m)
      PROVE  IdsOK(q)
  <2>1. ASSUME NEW i \in 1..(n - r), NEW j \in 1..(n - r), i < j
        PROVE  q.list[i].id < q.list[j].id
    <3>1. i + r \in 1..n /\ j + r \in 1..n /\ i + r < j + r
      BY <1>2, <1>4, <2>1
    <3>2. m.list[i + r].id < m.list[j + r].id
      BY <1>5, <3>1 DEF IdsOK, n
    <3> QED
      BY <1>2, <3>2
  <2> QED
    BY <1>2, <2>1 DEF IdsOK
<1>6. ASSUME NamesOK(m)
      PROVE  NamesOK(q)
  <2>1. ASSUME NEW i \in 1..(n - r), NEW d \in q.list[i].cursors
        PROVE  q.cursor[d].chk = i
    <3>1. i + r \in 1..n /\ d \in m.list[i + r].cursors
      BY <1>2, <1>4, <2>1
    <3>2. m.cursor[d].chk = i + r /\ d \in Registered(m)
      BY <1>3, <1>6, <3>1 DEF NamesOK, n
    <3>3. q.cursor[d].chk = (i + r) - r
      BY <1>2, <3>2
    <3> QED
      BY <1>2, <3>3
  <2> QED
    BY <1>2, <2>1 DEF NamesOK
<1>7. ASSUME MetaOK(m)
      PROVE  MetaOK(q)
  <2>1. ASSUME NEW i \in 1..(n - r)
        PROVE  MetaFirst(q.list[i])
    <3>1. MetaFirst(m.list[i + r]) /\ q.list[i].mid = m.list[i + r].mid
      BY <1>2, <1>4, <1>7 DEF MetaOK, n
    <3> QED
      BY <3>1 DEF MetaFirst
  <2> QED
    BY <1>2, <2>1 DEF MetaOK
<1> QED
  BY <1>1, <1>5, <1>6, <1>7 DEF Orderly

\* Closed checkpoints are collapsed, on a replica.
LEMMA OrderlyCollapsed ==
  ASSUME NEW m, ManagerOK(m), Orderly(m), NEW q, IsCollapsed(m, q), ManagerOK(q),
         ~AlwaysMaster
  PROVE  Orderly(q)
<1> DEFINE n == Len(m.list)
           t == n - 1
           slow == Slow(m)
<1>1. OrderOK(q)
  BY OrderCollapsed DEF Orderly
<1>2. /\ n \in Nat /\ t \in 1..n /\ t < n /\ n \in 1..n /\ t >= 2
      /\ Len(q.list) = 2 /\ q.list[1].id = m.list[t].id /\ q.list[2] = m.list[n]
      /\ q.list[1].cursors = m.list[t].cursors \cup slow
      /\ \A d \in slow : q.cursor[d].chk = 1
      /\ \A d \in Registered(m) \ slow :
           q.cursor[d].chk = IF m.cursor[d].chk = t THEN 1 ELSE 2
  <2>1. n \in Nat
    BY Parts
  <2>2. /\ t \in 2..n /\ Len(q.list) = 2 /\ q.list[1].id = m.list[t].id
        /\ q.list[2] = m.list[n] /\ q.list[1].cursors = m.list[t].cursors \cup slow
        /\ \A d \in slow : q.cursor[d].chk = 1
        /\ \A d \in Registered(m) \ slow :
             q.cursor[d].chk = IF m.cursor[d].chk = t THEN 1 ELSE 2
    BY ZenonT(60) DEF IsCollapsed
  <2>3. t \in 1..n /\ t < n /\ n \in 1..n /\ t >= 2
    BY <2>1, <2>2
  <2> QED
    BY <2>1, <2>2, <2>3
<1>3. /\ \A i \in 1..n : m.list[i].cursors \subseteq Registered(m)
      /\ \A d \in slow : \E i \in 1..(n - 2) : d \in m.list[i].cursors
  BY Parts DEF Slow
<1> HIDE DEF slow
<1>4. ASSUME IdsOK(m)
      PROVE  IdsOK(q)
  <2>1. m.list[t].id < m.list[n].id
    BY <1>2, <1>4 DEF IdsOK
  <2>2. \A i, j \in 1..2 : i < j => i = 1 /\ j = 2
    OBVIOUS
  <2> QED
    BY <1>2, <2>1, <2>2 DEF IdsOK
<1>5. ASSUME NamesOK(m)
      PROVE  NamesOK(q)
  <2>1. ASSUME NEW i \in 1..n, NEW d \in m.list[i].cursors
        PROVE  d \in Registered(m) /\ m.cursor[d].chk = i
    BY <1>3, <1>5, <2>1 DEF NamesOK
  <2>2. \A d \in slow : m.cursor[d].chk \in 1..(n - 2)
    <3>1. ASSUME NEW d \in slow
          PROVE  m.cursor[d].chk \in 1..(n - 2)
      <4>1. PICK i \in 1..(n - 2) : d \in m.list[i].cursors
        BY <1>3
      <4>2. i \in 1..n
        BY <1>2
      <4> QED
        BY <2>1, <4>1, <4>2
    <3> QED
      BY <3>1
  <2>3. ASSUME NEW d \in q.list[1].cursors
        PROVE  q.cursor[d].chk = 1
    <3>1. CASE d \in slow
      BY <1>2, <3>1
    <3>2. CASE d \notin slow
      <4>1. d \in m.list[t].cursors
        BY <1>2, <2>3, <3>2
      <4>2. d \in Registered(m) /\ m.cursor[d].chk = t
        BY <1>2, <2>1, <4>1
      <4> QED
        BY <1>2, <3>2, <4>2
    <3> QED
      BY <3>1, <3>2
  <2>4. ASSUME NEW d \in q.list[2].cursors
        PROVE  q.cursor[d].chk = 2
    <3>1. d \in Registered(m) /\ m.cursor[d].chk = n
      BY <1>2, <2>1, <2>4
    <3>2. d \notin slow
      BY <1>2, <2>2, <3>1
    <3> QED
      BY <1>2, <3>1, <3>2
  <2> QED
    BY <1>2, <2>3, <2>4 DEF NamesOK
<1> QED
  BY <1>1, <1>4, <1>5 DEF Orderly

\* A cursor that registers anew, or no longer.
LEMMA OrderlyRegistered ==
  ASSUME NEW m, ManagerOK(m), Orderly(m), NEW c \in Names, NEW at, NEW q,
         IsRegistered(m, c, at, q)
  PROVE  Orderly(q)
<1>1. /\ SameMids(m, q) /\ SameIds(m, q) /\ q.mutationCounter = m.mutationCounter
      /\ Len(q.list) = Len(m.list)
      /\ \A i \in 1..Len(m.list) :
           q.list[i].cursors = IF i = at THEN m.list[i].cursors \cup {c}
                               ELSE IF i = m.cursor[c].chk THEN m.list[i].cursors \ {c}
                               ELSE m.list[i].cursors
      /\ q.cursor[c].chk = at
      /\ \A d \in Names \ {c} : q.cursor[d] = m.cursor[d]
  BY DEF IsRegistered, SameMids
<1>2. \A i \in 1..Len(m.list) : m.list[i].cursors \subseteq Names
  BY Parts
<1>3. ASSUME NamesOK(m), NEW i \in 1..Len(m.list), NEW d \in q.list[i].cursors
      PROVE  q.cursor[d].chk = i
  <2>1. CASE d = c
    <3>1. i # at => d \in m.list[i].cursors /\ i # m.cursor[c].chk
      BY <1>1, <1>3, <2>1
    <3>2. i = at
      BY <1>3, <2>1, <3>1 DEF NamesOK
    <3> QED
      BY <1>1, <2>1, <3>2
  <2>2. CASE d # c
    <3>1. q.list[i].cursors \subseteq m.list[i].cursors \cup {c}
      BY <1>1
    <3>2. d \in m.list[i].cursors
      BY <1>3, <2>2, <3>1
    <3> QED
      BY <1>1, <1>2, <1>3, <2>2, <3>2 DEF NamesOK
  <2> QED
    BY <2>1, <2>2
<1>4. NamesOK(m) => NamesOK(q)
  BY <1>1, <1>3 DEF NamesOK
<1> QED
  BY <1>1, <1>4, KeepOrder

\* A cursor is removed.
LEMMA OrderlyRemoved ==
  ASSUME NEW m, ManagerOK(m), Orderly(m), NEW c \in Names, NEW q, IsRemoved(m, c, q)
  PROVE  Orderly(q)
<1>1. /\ SameMids(m, q) /\ SameIds(m, q) /\ q.mutationCounter = m.mutationCounter
      /\ Len(q.list) = Len(m.list)
      /\ \A i \in 1..Len(m.list) : q.list[i].cursors = m.list[i].cursors \ {c}
      /\ \A d \in Names \ {c} : q.cursor[d] = m.cursor[d]
  BY DEF IsRemoved, SameMids
<1>2. \A i \in 1..Len(m.list) : m.list[i].cursors \subseteq Names
  BY Parts
<1>3. ASSUME NamesOK(m), NEW i \in 1..Len(m.list), NEW d \in q.list[i].cursors
      PROVE  q.cursor[d].chk = i
  <2>1. d \in m.list[i].cursors /\ d # c
    BY <1>1
  <2> QED
    BY <1>1, <1>2, <1>3, <2>1 DEF NamesOK
<1>4. NamesOK(m) => NamesOK(q)
  BY <1>1, <1>3 DEF NamesOK
<1> QED
  BY <1>1, <1>4, KeepOrder

\* The flusher takes everything.
LEMMA OrderlyTaken ==
  ASSUME NEW m, ManagerOK(m), Orderly(m), NEW at, NEW q, IsTaken(m, at, q)
  PROVE  Orderly(q)
<1> DEFINE c == Persistence
           n == Len(m.list)
           here == m.cursor[c].chk
<1>1. /\ SameMids(m, q) /\ SameIds(m, q) /\ q.mutationCounter = m.mutationCounter
      /\ Len(q.list) = n /\ here \in 1..n /\ at \in here..n
      /\ \A i \in 1..n :
           q.list[i].cursors = IF i = at THEN m.list[i].cursors \cup {c}
                               ELSE IF i \in here..(at - 1) THEN m.list[i].cursors \ {c}
                               ELSE m.list[i].cursors
      /\ q.cursor[c].chk = at
      /\ \A d \in Names \ {c} : q.cursor[d] = m.cursor[d]
  BY DEF IsTaken, SameMids
<1>2. n \in Nat /\ \A i \in 1..n : m.list[i].cursors \subseteq Names
  BY Parts
<1>3. ASSUME NamesOK(m), NEW i \in 1..n, NEW d \in q.list[i].cursors
      PROVE  q.cursor[d].chk = i
  <2>1. CASE d = c
    <3>1. i # at => d \in m.list[i].cursors /\ i \notin here..(at - 1)
      BY <1>1, <1>3, <2>1
    <3>2. i # at => i = here
      BY <1>3, <2>1, <3>1 DEF NamesOK
    <3>3. i = at
      BY <1>1, <1>2, <3>1, <3>2
    <3> QED
      BY <1>1, <2>1, <3>3
  <2>2. CASE d # c
    <3>1. q.list[i].cursors \subseteq m.list[i].cursors \cup {c}
      BY <1>1
    <3>2. d \in m.list[i].cursors
      BY <1>3, <2>2, <3>1
    <3> QED
      BY <1>1, <1>2, <1>3, <2>2, <3>2 DEF NamesOK
  <2> QED
    BY <2>1, <2>2
<1>4. NamesOK(m) => NamesOK(q)
  BY <1>1, <1>3 DEF NamesOK
<1> QED
  BY <1>1, <1>4, KeepOrder

\* A cursor takes another place in its checkpoint, or goes to the next.
LEMMA OrderlyMoves ==
  ASSUME NEW m, ManagerOK(m), Orderly(m), NEW c \in Names, NEW p, NEW q, Moves(m, c, p, q)
  PROVE  Orderly(q)
<1>1. /\ q.list = m.list /\ q.mutationCounter = m.mutationCounter
      /\ \A d \in Names : q.cursor[d].chk = m.cursor[d].chk
  BY DEF Moves
<1>2. SameMids(m, q) /\ SameIds(m, q)
  BY <1>1 DEF SameMids, SameIds
<1>3. NamesOK(m) => NamesOK(q)
  BY <1>1, NamesSame DEF SameNames
<1> QED
  BY <1>1, <1>2, <1>3, KeepOrder

\* A cursor goes on to the next checkpoint.
LEMMA OrderlyNext ==
  ASSUME NEW m, ManagerOK(m), Orderly(m), NEW c \in Names, NEW q, MovedOn(m, c, q)
  PROVE  Orderly(q)
<1> DEFINE here == m.cursor[c].chk
<1>1. /\ SameMids(m, q) /\ SameIds(m, q) /\ q.mutationCounter = m.mutationCounter
      /\ Len(q.list) = Len(m.list) /\ here \in 1..(Len(m.list) - 1)
      /\ \A i \in 1..Len(m.list) :
           q.list[i].cursors = IF i = here THEN m.list[i].cursors \ {c}
                               ELSE IF i = here + 1 THEN m.list[i].cursors \cup {c}
                               ELSE m.list[i].cursors
      /\ q.cursor[c].chk = here + 1
      /\ \A d \in Names \ {c} : q.cursor[d] = m.cursor[d]
  BY DEF MovedOn, SameMids
<1>2. \A i \in 1..Len(m.list) : m.list[i].cursors \subseteq Names
  BY Parts
<1> HIDE DEF here
<1>3. ASSUME NamesOK(m), NEW i \in 1..Len(m.list), NEW d \in q.list[i].cursors
      PROVE  q.cursor[d].chk = i
  <2>1. CASE d = c
    <3>1. i # here + 1 => d \in m.list[i].cursors /\ i # here
      BY <1>1, <1>3, <2>1
    <3>2. i = here + 1
      BY <1>3, <2>1, <3>1 DEF NamesOK, here
    <3> QED
      BY <1>1, <2>1, <3>2
  <2>2. CASE d # c
    <3>1. q.list[i].cursors \subseteq m.list[i].cursors \cup {c}
      BY <1>1
    <3>2. d \in m.list[i].cursors
      BY <1>3, <2>2, <3>1
    <3> QED
      BY <1>1, <1>2, <1>3, <2>2, <3>2 DEF NamesOK
  <2> QED
    BY <2>1, <2>2
<1>4. NamesOK(m) => NamesOK(q)
  BY <1>1, <1>3 DEF NamesOK
<1> QED
  BY <1>1, <1>4, KeepOrder

\* A manager with one checkpoint.
LEMMA OrderlySingle ==
  ASSUME NEW q, OrderOK(q), Len(q.list) = 1, \A d \in q.list[1].cursors : q.cursor[d].chk = 1,
         AlwaysMaster => MetaFirst(q.list[1])
  PROVE  Orderly(q)
<1>1. \A i \in 1..1 : i = 1
  OBVIOUS
<1>2. IdsOK(q) /\ NamesOK(q)
  BY <1>1 DEF IdsOK, NamesOK
<1> QED
  BY <1>1, <1>2 DEF Orderly, MetaOK

\* A manager with one new checkpoint.
LEMMA OrderlyFresh ==
  ASSUME NEW q, NEW id, NEW names, IsFresh(q, id, names)
  PROVE  Orderly(q)
<1>1. /\ Len(q.list) = 1 /\ \A d \in q.list[1].cursors : q.cursor[d].chk = 1
      /\ \A k \in AllKeys : q.list[1].mid[k] = IF k = Dummy THEN 1 ELSE IF k = Start THEN 2 ELSE 0
  BY DEF IsFresh
<1>2. MetaFirst(q.list[1])
  BY <1>1, MetaKeysDiffer DEF MetaFirst, MetaFact
<1> QED
  BY <1>1, <1>2, OrderFresh, OrderlySingle

\* A rollback, on a replica.
LEMMA OrderlyRolledBack ==
  ASSUME NEW m, ManagerOK(m), Orderly(m), NEW id, NEW q, IsRolledBack(m, id, q),
         ~AlwaysMaster
  PROVE  Orderly(q)
<1>1. Len(q.list) = 1 /\ \A d \in q.list[1].cursors : q.cursor[d].chk = 1
  BY DEF IsRolledBack
<1> QED
  BY <1>1, OrderRolledBack, OrderlySingle DEF Orderly

\* The open checkpoint gets a later id, or is alone.
LEMMA OrderlyIdSet ==
  ASSUME NEW m, ShapeOK(m), Orderly(m), NEW id \in Nat, NEW q, SameMids(m, q),
         q.mutationCounter = m.mutationCounter,
         \A i \in 1..Len(m.list) : q.list[i].id = IF i = Len(m.list) THEN id
                                                  ELSE m.list[i].id,
         ~MayBeEmpty => Len(m.list) = 1 \/ LastChk(m).id <= id,
         NamesOK(m) => NamesOK(q)
  PROVE  Orderly(q)
<1> DEFINE n == Len(m.list)
<1>1. OrderOK(q) /\ (AlwaysMaster => MetaOK(q))
  BY OrderSame, MetaSame DEF Orderly
<1>2. /\ n \in Nat \ {0} /\ LastChk(m) = m.list[n] /\ Len(q.list) = n
      /\ \A i \in 1..n : m.list[i] \in Checkpoint
  BY ShapeFacts DEF SameMids, Record
<1>3. \A i \in 1..n : m.list[i].id \in Nat
  BY <1>2 DEF Checkpoint
<1>4. ASSUME ~MayBeEmpty, NEW i \in 1..n, NEW j \in 1..n, i < j
      PROVE  q.list[i].id < q.list[j].id
  <2>1. i # n /\ n # 1
    BY <1>2, <1>4
  <2>2. q.list[i].id = m.list[i].id /\ m.list[i].id < m.list[j].id
    BY <1>4, <2>1 DEF Orderly, IdsOK
  <2>3. CASE j = n
    <3>1. q.list[j].id = id /\ m.list[n].id <= id
      BY <1>2, <1>4, <2>1, <2>3
    <3> QED
      BY <1>2, <1>3, <2>2, <2>3, <3>1
  <2>4. CASE j # n
    BY <2>2, <2>4
  <2> QED
    BY <2>3, <2>4
<1> QED
  BY <1>1, <1>2, <1>4 DEF Orderly, IdsOK

\* The open checkpoint gets an id that is not smaller.
LEMMA OrderlyRenumbered ==
  ASSUME NEW m, ManagerOK(m), Orderly(m), NEW id \in Nat, NEW q, IsRenumbered(m, id, q),
         ~MayBeEmpty => LastChk(m).id <= id
  PROVE  Orderly(q)
<1>1. /\ SameMids(m, q) /\ SameNames(m, q) /\ q.mutationCounter = m.mutationCounter
      /\ \A i \in 1..Len(m.list) : q.list[i].id = IF i = Len(m.list) THEN id
                                                  ELSE m.list[i].id
      /\ \A d \in Names : q.cursor[d].chk = m.cursor[d].chk
      /\ ShapeOK(m)
  BY DEF IsRenumbered, ManagerOK
<1>2. NamesOK(m) => NamesOK(q)
  BY <1>1, NamesSame DEF SameMids
<1> QED
  BY <1>1, <1>2, OrderlyIdSet

\* The same for a call of setOpenCheckpointId alone.
LEMMA OrderlySetId ==
  ASSUME NEW m, ManagerOK(m), Orderly(m), NEW id \in Nat,
         ~MayBeEmpty => Len(m.list) = 1 \/ LastChk(m).id <= id
  PROVE  Orderly(SetOpenCheckpointId(m, id))
<1> DEFINE q == SetOpenCheckpointId(m, id)
<1>1. ShapeOK(m) /\ IdIsSet(m, id, q)
  BY SetOpenIdEffect DEF ManagerOK
<1> HIDE DEF q
<1>2. /\ SameMids(m, q) /\ SameNames(m, q) /\ q.mutationCounter = m.mutationCounter
      /\ \A i \in 1..Len(m.list) : q.list[i].id = IF i = Len(m.list) THEN id
                                                  ELSE m.list[i].id
      /\ \A d \in Names : q.cursor[d].chk = m.cursor[d].chk
  BY <1>1 DEF IdIsSet
<1>3. NamesOK(m) => NamesOK(q)
  BY <1>2, NamesSame DEF SameMids
<1>4. Orderly(q)
  BY <1>1, <1>2, <1>3, OrderlyIdSet
<1> QED
  BY <1>4 DEF q

\* Counts and flags do not matter.
LEMMA OrderlyCounters ==
  ASSUME NEW m, Orderly(m), NEW q, OnlyCounters(m, q)
  PROVE  Orderly(q)
BY DEF OnlyCounters, Orderly, OrderOK, IdsOK, NamesOK, MetaOK
-----------------------------------------------------------------------------
(***************************************************************************)
(* The composed operations.                                                *)
(***************************************************************************)

\* CHECKPOINT_START from the master.
LEMMA OrderlyAccepted ==
  ASSUME NEW m, ManagerOK(m), Orderly(m), NEW id \in Nat, NEW q, Accepted(m, id, q),
         ~AlwaysMaster
  PROVE  Orderly(q)
<1>1. /\ Len(m.list) \in Nat \ {0} /\ DOMAIN m.list = 1..Len(m.list)
      /\ LastChk(m) = m.list[Len(m.list)] /\ LastChk(m).id \in Nat
      /\ \A i \in 1..Len(m.list) : m.list[i].id \in Nat
      /\ Registered(m) \subseteq Names
      /\ \A i \in 1..Len(m.list) : m.list[i].cursors \subseteq Registered(m)
  BY Parts
<1>2. ~IsOld(m, id) => LastChk(m).id < id
  BY <1>1 DEF IsOld
<1>3. CASE q = m
  BY <1>3
<1>4. ASSUME LastChk(m).id = 0, NEW y, ShapeOK(y), IdIsSet(m, id, y), IsReset(y, q)
      PROVE  Orderly(q)
  <2>1. /\ SameMids(m, y) /\ SameNames(m, y) /\ y.mutationCounter = m.mutationCounter
        /\ \A i \in 1..Len(m.list) : y.list[i].id = IF i = Len(m.list) THEN id
                                                    ELSE m.list[i].id
        /\ Registered(y) = Registered(m) /\ Len(y.list) = Len(m.list)
    BY <1>4 DEF IdIsSet, SameMids
  <2>2. /\ SameMids(y, q) /\ SameIds(y, q) /\ q.mutationCounter = y.mutationCounter
        /\ \A i \in 1..Len(y.list) :
             q.list[i].cursors = IF i = 1 THEN y.list[i].cursors \cup Registered(m)
                                 ELSE y.list[i].cursors
        /\ \A d \in Registered(m) : q.cursor[d].chk = 1
    BY <1>4, <2>1 DEF IsReset
  <2>3. SameMids(m, q) /\ q.mutationCounter = m.mutationCounter /\ Len(q.list) = Len(m.list)
        /\ \A i \in 1..Len(m.list) : q.list[i].id = IF i = Len(m.list) THEN id
                                                    ELSE m.list[i].id
    BY <2>1, <2>2 DEF SameMids, SameIds
  <2>4. IdsOK(m) => Len(m.list) = 1
    <3>1. SUFFICES ASSUME IdsOK(m), Len(m.list) # 1
                   PROVE  FALSE
      OBVIOUS
    <3>0. Len(m.list) \in Nat \ {0}
      BY <1>1
    <3>2. 1 \in 1..Len(m.list) /\ Len(m.list) \in 1..Len(m.list) /\ 1 < Len(m.list)
      <4> DEFINE n == Len(m.list)
      <4>1. n \in Nat \ {0} /\ n # 1
        BY <3>0, <3>1
      <4> HIDE DEF n
      <4>2. 1 \in 1..n /\ n \in 1..n /\ 1 < n
        BY <4>1
      <4> QED
        BY <4>2 DEF n
    <3>3. m.list[1].id < m.list[Len(m.list)].id
      BY <3>1, <3>2 DEF IdsOK
    <3> QED
      BY <1>1, <1>4, <3>2, <3>3
  <2>5. ASSUME ~MayBeEmpty
        PROVE  NamesOK(q) /\ IdsOK(q)
    <3>1. Len(m.list) = 1 /\ Len(q.list) = 1
      BY <2>3, <2>4, <2>5 DEF Orderly
    <3>2. \A i \in 1..1 : i = 1
      OBVIOUS
    <3>3. q.list[1].cursors \subseteq Registered(m)
      BY <1>1, <2>1, <2>2, <3>1 DEF SameNames
    <3> QED
      BY <2>2, <3>1, <3>2, <3>3 DEF NamesOK, IdsOK
  <2>6. OrderOK(q)
    BY <2>3, OrderSame DEF Orderly
  <2> QED
    BY <2>5, <2>6 DEF Orderly
<1>5. CASE IsRolledBack(m, id, q)
  BY <1>5, OrderlyRolledBack
<1>6. CASE ~IsOld(m, id) /\ IsRenumbered(m, id, q)
  BY <1>1, <1>2, <1>6, OrderlyRenumbered
<1>7. ASSUME ~IsOld(m, id), NEW z, ManagerOK(z), OnlyCounters(m, z), IsOpened(z, id, q)
      PROVE  Orderly(q)
  <2>1. Orderly(z) /\ LastChk(z).id < id
    BY <1>2, <1>7, OrderlyCounters DEF OnlyCounters, LastChk
  <2> QED
    BY <1>7, <2>1, OrderlyOpened
<1> QED
  BY <1>3, <1>4, <1>5, <1>6, <1>7 DEF Accepted

\* The checkpoint remover.
LEMMA OrderlyReduced ==
  ASSUME NEW m, ManagerOK(m), Orderly(m), NEW q, IsReduced(m, q), ManagerOK(q),
         AlwaysMaster => IsMaster
  PROVE  Orderly(q)
<1>1. PICK x, y, z, oldId :
        /\ ManagerOK(x) /\ ManagerOK(y) /\ ManagerOK(z)
        /\ x = m \/ IsOpened(m, LastChk(m).id + 1, x)
        /\ y = x \/ HaveMovedOn(x, Finished(x, oldId), y)
        /\ z = y \/ IsCut(y, NumUnref(y), z)
        /\ q = z \/ (~IsMaster /\ IsCollapsed(z, q))
  BY DEF IsReduced
<1>2. Orderly(x)
  <2>1. LastChk(m).id + 1 \in Nat /\ LastChk(m).id < LastChk(m).id + 1
    BY LastFacts
  <2> QED
    BY <1>1, <2>1, OrderlyOpened
<1>3. Orderly(y)
  BY <1>1, <1>2, OrderlyMovedOn
<1>4. Orderly(z)
  BY <1>1, <1>3, OrderlyCut
<1> QED
  BY <1>1, <1>4, OrderlyCollapsed

\* A TAP connection reads an item.
LEMMA OrderlyRead ==
  ASSUME NEW m, ManagerOK(m), Orderly(m), NEW c \in Names, NEW q, IsRead(m, c, q)
  PROVE  Orderly(q)
<1>1. ASSUME NEW y, ManagerOK(y), MovedOn(m, c, y),
             q = y \/ Moves(y, c, NextKey(ChkOf(y, c), Dummy), q)
      PROVE  Orderly(q)
  BY <1>1, OrderlyNext, OrderlyMoves
<1> QED
  BY <1>1, OrderlyMoves DEF IsRead
-----------------------------------------------------------------------------
(***************************************************************************)
(* The specification.                                                      *)
(***************************************************************************)

OInv ==
  /\ IInv
  /\ Orderly(cm)
  /\ ~MayBeEmpty => failure # "stray cursor"

\* A vbucket that is always a master.
LEMMA MasterFact ==
  ASSUME IInv, AlwaysMaster
  PROVE  IsMaster /\ ~AcceptsCheckpointMessages
BY DEF AlwaysMaster, IsMaster, AcceptsCheckpointMessages, IInv, OthersOK

\* The manager of a new vbucket or of one that was warmed up.
LEMMA OrderInit ==
  ASSUME Init
  PROVE  OInv
<1>1. PICK id \in {StartId(vbState)} \cup 1..MaxCheckpointId : cm = FreshManager(id)
  BY DEF Init
<1>2. id \in Nat /\ {Persistence} \in SUBSET Names
  BY BoundsAssumption, MetaKeysDiffer DEF StartId, MetaFact
<1>3. Orderly(cm)
  BY <1>1, <1>2, NewManagerEffect, OrderlyFresh DEF FreshManager
<1> QED
  BY <1>3, InitOK DEF Init, OInv

\* The manager that a document is queued to.
LEMMA OrderlyBefore ==
  ASSUME IInv, Orderly(cm), NEW timeUp
  PROVE  ManagerOK(BeforeQueueing(timeUp)) /\ Orderly(BeforeQueueing(timeUp))
<1>1. ManagerOK(cm)
  BY DEF IInv
<1>2. LastChk(cm).id + 1 \in Nat /\ LastChk(cm).id < LastChk(cm).id + 1
  BY <1>1, LastFacts
<1>3. BeforeQueueing(timeUp) = cm
      \/ IsOpened(cm, LastChk(cm).id + 1, BeforeQueueing(timeUp))
  BY <1>1, CheckOpenEffect DEF BeforeQueueing
<1>4. ManagerOK(BeforeQueueing(timeUp))
  BY <1>1, CheckOpenCheckpointOK DEF BeforeQueueing
<1> QED
  BY <1>1, <1>2, <1>3, <1>4, OrderlyOpened

\* What QueueDirty does to the manager.
IsQueued(m, k, z) ==
  \E q : /\ ManagerOK(q) /\ ItemQueued(m, k, q) /\ q.list[Len(m.list)].open
         /\ OnlyCounters(q, z) /\ z.preChkId = m.preChkId

\* queueDirty: maybe a new checkpoint, then the item.
LEMMA QueueEffect ==
  ASSUME IInv, NEW k \in Keys, QueueDirty(k)
  PROVE  \E timeUp \in BOOLEAN : /\ LastChk(BeforeQueueing(timeUp)).open
                                 /\ IsQueued(BeforeQueueing(timeUp), k, cm')
<1>1. PICK timeUp \in BOOLEAN :
        LET m == BeforeQueueing(timeUp)
            q == QueueItem(m, k)
        IN LastChk(m).open /\ Becomes([q EXCEPT !.numItems =
                                IF LastChk(m).mid[k] = 0 THEN @ + 1 ELSE @])
  BY DEF QueueDirty
<1> DEFINE m == BeforeQueueing(timeUp)
           q == QueueItem(m, k)
           items == IF LastChk(m).mid[k] = 0 THEN q.numItems + 1 ELSE q.numItems
           z == [q EXCEPT !.numItems = items]
<1>2. ManagerOK(m)
  BY CheckOpenCheckpointOK DEF IInv, BeforeQueueing
<1>3. cm' = z /\ LastChk(m).open
  BY <1>1 DEF Becomes
<1> HIDE DEF m
<1>4. k \in AllKeys \ {Dummy}
  BY MetaKeysDiffer DEF MetaFact
<1>5. /\ ManagerOK(q) /\ ItemQueued(m, k, q)
      /\ q.list[Len(m.list)].open = LastChk(m).open
  BY <1>2, <1>4, QueueItemOK, QueueItemEffect
<1> HIDE DEF q
<1>6. q \in Record(Len(q.list)) /\ ShapeOK(q)
  BY <1>5, ShapeFacts DEF ManagerOK
<1>7. items \in Int
  BY <1>6 DEF Record
<1> HIDE DEF items
<1>8. z \in Record(Len(q.list)) /\ z.list = q.list /\ z.cursor = q.cursor
      /\ z.mutationCounter = q.mutationCounter /\ z.preChkId = q.preChkId
  BY <1>6, <1>7 DEF Record
<1> HIDE DEF z
<1>9. OnlyCounters(q, z) /\ z.preChkId = m.preChkId
  BY <1>5, <1>8 DEF OnlyCounters, ItemQueued
<1>10. IsQueued(m, k, cm')
  BY <1>3, <1>5, <1>9 DEF IsQueued
<1> QED
  BY <1>3, <1>10 DEF m

\* A client's mutation keeps the order.
LEMMA QueueOrder ==
  ASSUME IInv, Orderly(cm), NEW k \in Keys, QueueDirty(k)
  PROVE  Orderly(cm')
<1>1. PICK timeUp \in BOOLEAN : /\ LastChk(BeforeQueueing(timeUp)).open
                                /\ IsQueued(BeforeQueueing(timeUp), k, cm')
  BY QueueEffect
<1> DEFINE m == BeforeQueueing(timeUp)
<1>2. ManagerOK(m) /\ Orderly(m) /\ LastChk(m).open
  BY <1>1, OrderlyBefore
<1> HIDE DEF m
<1>3. PICK q : /\ ManagerOK(q) /\ ItemQueued(m, k, q) /\ q.list[Len(m.list)].open
               /\ OnlyCounters(q, cm')
  BY <1>1 DEF IsQueued, m
<1>4. k \in AllKeys \ {Dummy, Start} /\ k # End
  BY MetaKeysDiffer DEF MetaFact
<1>5. Len(m.list) \in 1..Len(q.list)
  BY <1>2, <1>3, Parts DEF ItemQueued
<1>6. q.list[Len(m.list)].open = (k # End)
  BY <1>3, <1>4, <1>5, Parts
<1>7. Orderly(q)
  BY <1>2, <1>3, <1>4, <1>6, OrderlyQueued
<1> QED
  BY <1>3, <1>7, OrderlyCounters

\* The calls of a TAP connection keep it.
LEMMA TapOrder ==
  ASSUME IInv, Orderly(cm), NEW t \in TapNames,
         NextItem(t) \/ WaitAtCheckpointEnd(t) \/ RegisterTAPCursor(t) \/ RemoveTAPCursor(t)
  PROVE  Orderly(cm')
<1>1. ManagerOK(cm) /\ t \in Names /\ t # Persistence
  BY MetaKeysDiffer, NamesAssumption DEF IInv, MetaFact
<1>2. CASE NextItem(t)
  <2>1. cm' = AdvanceTapCursor(cm, t)
    BY <1>2 DEF NextItem, Becomes
  <2>2. CASE t \in Registered(cm)
    BY <1>1, <2>1, <2>2, AdvanceTapEffect, OrderlyRead
  <2>3. CASE t \notin Registered(cm)
    BY <1>1, <2>1, <2>3 DEF AdvanceTapCursor, Registered
  <2> QED
    BY <2>2, <2>3
<1>3. CASE WaitAtCheckpointEnd(t)
  BY <1>1, <1>3, DecrTapCursorEffect, OrderlyMoves DEF WaitAtCheckpointEnd, Becomes
<1>4. CASE RegisterTAPCursor(t)
  <2>1. PICK id \in 1..(MaxCheckpointId + 1), fromBeginning \in BOOLEAN :
          /\ ~RegisterStrays(t, id, fromBeginning)
          /\ Becomes(RegisterCursor(cm, t, id, t \in BackupTaps, fromBeginning))
    BY <1>4 DEF RegisterTAPCursor
  <2> DEFINE closedOnly == t \in BackupTaps
  <2>2. closedOnly \in BOOLEAN /\ cm' = RegisterCursor(cm, t, id, closedOnly, fromBeginning)
    BY <2>1 DEF Becomes
  <2> HIDE DEF closedOnly
  <2>3. KeepsPosition(cm, t, id, fromBeginning) => cm.cursor[t].chk = ChkWithId(cm, id)
    BY <2>1 DEF RegisterStrays
  <2>4. IsRegistered(cm, t, ChkWithId(cm, id), cm')
    BY <1>1, <2>2, <2>3, RegisterCursorEffect
  <2> QED
    BY <1>1, <2>4, OrderlyRegistered
<1>5. CASE RemoveTAPCursor(t)
  BY <1>1, <1>5, RemoveCursorEffect, OrderlyRemoved DEF RemoveTAPCursor, Becomes
<1> QED
  BY <1>2, <1>3, <1>4, <1>5

\* The flusher's and the remover's calls keep it.
LEMMA BackgroundOrder ==
  ASSUME IInv, Orderly(cm), GetAllItemsForPersistence \/ RemoveClosedUnrefCheckpoints
  PROVE  Orderly(cm')
<1>1. ManagerOK(cm)
  BY DEF IInv
<1>2. CASE GetAllItemsForPersistence
  BY <1>1, <1>2, TakeAllEffect, OrderlyTaken DEF GetAllItemsForPersistence, Becomes
<1>3. CASE RemoveClosedUnrefCheckpoints
  <2>1. PICK forced \in BOOLEAN, memHigh \in BOOLEAN, timeUp \in BOOLEAN :
          cm' = RemoveClosedUnref(cm, forced, memHigh, timeUp)
    BY <1>3 DEF RemoveClosedUnrefCheckpoints, Becomes
  <2>2. IsReduced(cm, cm') /\ ManagerOK(cm')
    BY <1>1, <2>1, RemoveEffect, RemoveClosedUnrefOK
  <2> QED
    BY <1>1, <2>2, MasterFact, OrderlyReduced
<1> QED
  BY <1>2, <1>3

\* The master's checkpoint messages keep it.
LEMMA MasterOrder ==
  ASSUME IInv, Orderly(cm), NEW id \in Nat, CheckpointStart(id) \/ CheckpointEnd(id)
  PROVE  Orderly(cm')
<1>1. ManagerOK(cm) /\ ~AlwaysMaster
  BY MasterFact DEF IInv, CheckpointStart, CheckpointEnd
<1>2. CASE CheckpointStart(id)
  <2>1. Accepted(cm, id, cm')
    BY <1>1, <1>2, CheckAndAddEffect DEF CheckpointStart, Becomes
  <2> QED
    BY <1>1, <2>1, OrderlyAccepted
<1>3. CASE CheckpointEnd(id)
  <2>1. cm' = CloseOpenCheckpoint(cm, id)
    BY <1>3 DEF CheckpointEnd, Becomes
  <2> QED
    BY <1>1, <2>1, CloseOpenOK, CloseOpenEffect, OrderlyClosed
<1> QED
  BY <1>2, <1>3

\* Tasks and commands that close or empty checkpoints keep it.
LEMMA AdministrationOrder ==
  ASSUME IInv, Orderly(cm),
         CheckVBOpenCheckpoint \/ CreateNewCheckpoint \/ SetCheckpointExtension \/ Clear
  PROVE  Orderly(cm')
<1>1. ManagerOK(cm) /\ LastChk(cm).id + 1 \in Nat /\ LastChk(cm).id < LastChk(cm).id + 1
  BY LastFacts DEF IInv
<1>2. CASE CheckVBOpenCheckpoint
  <2>1. PICK timeUp \in BOOLEAN : cm' = CheckOpenCheckpoint(cm, FALSE, timeUp)
    BY <1>2 DEF CheckVBOpenCheckpoint, Becomes
  <2> QED
    BY <1>1, <2>1, CheckOpenEffect, OrderlyOpened
<1>3. CASE CreateNewCheckpoint
  BY <1>1, <1>3, AddNewEffect, OrderlyOpened DEF CreateNewCheckpoint, Becomes
<1>4. CASE SetCheckpointExtension
  <2>1. PICK extend \in BOOLEAN : cm' = [cm EXCEPT !.extension = extend]
    BY <1>4 DEF SetCheckpointExtension, Becomes
  <2>2. cm \in Record(Len(cm.list))
    BY <1>1, Parts
  <2>3. OnlyCounters(cm, cm')
    BY <2>1, <2>2 DEF OnlyCounters, Record
  <2> QED
    BY <2>3, OrderlyCounters
<1>5. CASE Clear
  <2> DEFINE id == IF vbState = "active" THEN 1 ELSE 0
  <2>1. cm' = Cleared(cm, id) /\ id \in Nat
    BY <1>5 DEF Clear, Becomes, Cleared
  <2> HIDE DEF id
  <2> QED
    BY <1>1, <2>1, ClearEffect, OrderlyFresh
<1> QED
  BY <1>2, <1>3, <1>4, <1>5

\* resetVBucket, and the id 0 of a backfill.
LEMMA ResetEffect ==
  ASSUME NEW m, NEW state
  PROVE  \E z, id : /\ ManagerOK(z) /\ IsFresh(z, id, Registered(m) \cup {Persistence})
                    /\ z.preChkId = 0 /\ z = ResetManager(m, state)
<1> DEFINE names == Registered(m) \cup {Persistence}
<1>1. StartId(state) \in Nat /\ names \in SUBSET Names
  BY MetaKeysDiffer DEF StartId, MetaFact, Registered
<1> HIDE DEF names
<1>2. /\ IsFresh(NewManager(StartId(state), names), StartId(state), names)
      /\ NewManager(StartId(state), names).preChkId = 0
  BY <1>1, NewManagerEffect
<1>3. ResetManager(m, state) = NewManager(StartId(state), names)
  BY DEF ResetManager, names
<1> QED
  BY <1>2, <1>3, ResetManagerOK DEF names

\* The vbucket's changes of state and its backfills keep it.
LEMMA VBucketOrder ==
  ASSUME IInv, Orderly(cm),
         \/ InitialVBucketStream \/ CloseBackfill
         \/ \E to \in VBStates : SetVBucketState(to)
  PROVE  Orderly(cm')
<1>1. ManagerOK(cm)
  BY DEF IInv
<1>2. CASE InitialVBucketStream
  <2>1. CASE cm' = SetOpenCheckpointId(ResetManager(cm, vbState), 0)
    <3>1. PICK z, id : /\ ManagerOK(z) /\ z = ResetManager(cm, vbState)
                       /\ IsFresh(z, id, Registered(cm) \cup {Persistence})
      BY ResetEffect
    <3>2. Orderly(z) /\ Len(z.list) = 1
      BY <3>1, OrderlyFresh, ZenonT(60) DEF IsFresh
    <3> QED
      BY <2>1, <3>1, <3>2, OrderlySetId
  <2>2. CASE MayBeEmpty /\ cm' = SetOpenCheckpointId(cm, 0)
    BY <1>1, <2>2, OrderlySetId
  <2> QED
    BY <1>2, <2>1, <2>2 DEF InitialVBucketStream, Becomes
<1>3. CASE CloseBackfill
  BY <1>3 DEF CloseBackfill, Becomes
<1>4. ASSUME NEW to \in VBStates, SetVBucketState(to)
      PROVE  Orderly(cm')
  <2>1. CASE OpenId(cm) < 2 /\ cm' = SetOpenCheckpointId(cm, 2)
    <3>1. LastChk(cm).id \in Nat
      BY <1>1, LastFacts
    <3>2. LastChk(cm).id <= 2
      BY <2>1, <3>1 DEF OpenId
    <3> QED
      BY <1>1, <2>1, <3>2, OrderlySetId
  <2>2. CASE cm' = cm
    BY <2>2
  <2> QED
    BY <1>4, <2>1, <2>2 DEF SetVBucketState, Becomes
<1> QED
  BY <1>2, <1>3, <1>4

\* Where ids grow and names are exact, no cursor goes astray.
LEMMA NothingStrays ==
  ASSUME IInv, Orderly(cm), ~MayBeEmpty
  PROVE  /\ \A t \in TapNames : ~RegisterTAPCursorStrays(t)
         /\ \A id \in Nat : ~CheckpointStartStrays(id)
<1>1. ManagerOK(cm) /\ IdsOK(cm) /\ NamesOK(cm)
  BY DEF IInv, Orderly
<1>2. /\ Len(cm.list) \in Nat \ {0} /\ DOMAIN cm.list = 1..Len(cm.list)
      /\ LastChk(cm) = cm.list[Len(cm.list)]
      /\ \A i \in 1..Len(cm.list) : cm.list[i].id \in Nat
      /\ \A d \in Registered(cm) : cm.cursor[d].chk \in 1..Len(cm.list)
      /\ \A i \in 1..Len(cm.list) : cm.list[i].cursors \subseteq Registered(cm)
  BY <1>1, Parts
<1>3. ASSUME NEW t \in TapNames, NEW id \in 1..(MaxCheckpointId + 1),
             RegisterStrays(t, id, FALSE)
      PROVE  FALSE
  <2> DEFINE at == cm.cursor[t].chk
             hits == {i \in 1..Len(cm.list) : cm.list[i].id = id}
  <2>1. t \in Registered(cm) /\ cm.list[at].id = id /\ at # ChkWithId(cm, id)
    BY <1>3, MetaKeysDiffer DEF RegisterStrays, KeepsPosition, ChkOf, Registered, MetaFact
  <2>2. at \in 1..Len(cm.list)
    BY <1>2, <2>1
  <2>3. \A i \in hits : i = at
    BY <1>1, <1>2, <2>1, <2>2, SMTT(30) DEF IdsOK
  <2>4. hits = {at}
    BY <2>1, <2>2, <2>3
  <2>5. ChkWithId(cm, id) = CHOOSE i \in {at} : \A j \in {at} : i <= j
    BY <1>2, <2>4 DEF ChkWithId
  <2>6. \A j \in {at} : at <= j
    BY <1>2, <2>2
  <2> HIDE DEF at, hits
  <2>7. ChkWithId(cm, id) = at
    BY <2>5, <2>6
  <2> QED
    BY <2>1, <2>7
<1>4. ASSUME NEW id \in Nat, RenumberStrays(cm, id)
      PROVE  FALSE
  <2>1. Len(cm.list) \in 1..Len(cm.list)
    BY <1>2
  <2> QED
    BY <1>1, <1>2, <1>4, <2>1 DEF RenumberStrays, NamesOK
<1> QED
  BY <1>3, <1>4 DEF RegisterTAPCursorStrays, CheckpointStartStrays

\* Every step keeps the inductive invariant.
LEMMA OrderNext ==
  ASSUME OInv, [Next]_vars
  PROVE  OInv'
<1>1. IInv'
  BY NextOK DEF OInv
<1>2. CASE UNCHANGED vars
  BY <1>1, <1>2 DEF vars, OInv
<1>3. CASE Next
  <2>1. 0..MaxCheckpointId \subseteq Nat /\ 1..MaxCheckpointId \subseteq Nat
    BY BoundsAssumption
  <2>2. \/ \E k \in Keys : QueueDirty(k)
        \/ \E t \in TapNames : \/ NextItem(t) \/ WaitAtCheckpointEnd(t)
                               \/ RegisterTAPCursor(t) \/ RemoveTAPCursor(t)
        \/ GetAllItemsForPersistence \/ RemoveClosedUnrefCheckpoints
        \/ \E id \in Nat : CheckpointStart(id) \/ CheckpointEnd(id)
        \/ CheckVBOpenCheckpoint \/ CreateNewCheckpoint \/ SetCheckpointExtension \/ Clear
        \/ InitialVBucketStream \/ CloseBackfill
        \/ \E to \in VBStates : SetVBucketState(to)
        \/ QueueDirtyAborts
        \/ \E t \in TapNames : RegisterTAPCursorStrays(t)
        \/ \E id \in Nat : CheckpointStartStrays(id)
    BY <1>3, <2>1 DEF Next
  <2>3. CASE \/ QueueDirtyAborts
             \/ \E t \in TapNames : RegisterTAPCursorStrays(t)
             \/ \E id \in Nat : CheckpointStartStrays(id)
    <3>1. cm' = cm /\ failure' \in {"assertion", "stray cursor"}
      BY <2>3 DEF QueueDirtyAborts, RegisterTAPCursorStrays, CheckpointStartStrays
    <3>2. ~MayBeEmpty => failure' # "stray cursor"
      BY <2>3, NothingStrays DEF OInv, QueueDirtyAborts
    <3> QED
      BY <1>1, <3>1, <3>2 DEF OInv
  <2>4. CASE ~(\/ QueueDirtyAborts
               \/ \E t \in TapNames : RegisterTAPCursorStrays(t)
               \/ \E id \in Nat : CheckpointStartStrays(id))
    <3>1. Orderly(cm')
      BY <2>2, <2>4, QueueOrder, TapOrder, BackgroundOrder, MasterOrder,
         AdministrationOrder, VBucketOrder DEF OInv
    <3>2. failure' = "none"
      BY <2>2, <2>4 DEF Becomes, QueueDirty, NextItem, WaitAtCheckpointEnd,
         RegisterTAPCursor, RemoveTAPCursor, GetAllItemsForPersistence,
         RemoveClosedUnrefCheckpoints, CheckpointStart, CheckpointEnd,
         CheckVBOpenCheckpoint, CreateNewCheckpoint, SetCheckpointExtension, Clear,
         InitialVBucketStream, CloseBackfill, SetVBucketState
    <3> QED
      BY <1>1, <3>1, <3>2 DEF OInv
  <2> QED
    BY <2>3, <2>4
<1> QED
  BY <1>2, <1>3

(***************************************************************************)
(* The inductive invariant: beside IInv, the order of checkpoints and      *)
(* items, and under the assumptions on the constants the ids, the names    *)
(* and the places of meta items.                                           *)
(***************************************************************************)
THEOREM OrderInvariance == Spec => []OInv
<1>1. Init => OInv
  BY OrderInit
<1>2. OInv /\ [Next]_vars => OInv'
  BY OrderNext
<1> QED
  BY <1>1, <1>2, PTL DEF Spec
-----------------------------------------------------------------------------
(***************************************************************************)
(* What the order of mutation ids says about positions in a checkpoint.    *)
(***************************************************************************)

LEMMA RankFacts ==
  ASSUME NEW m, ManagerOK(m), OrderOK(m), NEW i \in 1..Len(m.list)
  PROVE  /\ ChkOK(m.list[i], m.mutationCounter) /\ m.mutationCounter \in Nat
         /\ \A k \in AllKeys : Rank(m.list[i], k) \in Nat /\ m.list[i].mid[k] \in Nat
         /\ Rank(m.list[i], Dummy) = 0 /\ Rank(m.list[i], Start) = 1
         /\ \A k \in AllKeys \ {Dummy, Start} :
              /\ Rank(m.list[i], k) = m.list[i].mid[k]
              /\ m.list[i].mid[k] # 0 => Rank(m.list[i], k) > 2
         /\ \A k, l \in Present(m.list[i]) : k # l => Rank(m.list[i], k) # Rank(m.list[i], l)
         /\ Present(m.list[i]) \subseteq AllKeys
         /\ Dummy \in Present(m.list[i]) /\ Start \in Present(m.list[i])
<1> DEFINE c == m.list[i]
<1>1. ChkOK(c, m.mutationCounter) /\ m.mutationCounter \in Nat
  BY Parts DEF ManagerOK, ShapeOK
<1>2. Sorted(c)
  BY DEF OrderOK
<1>3. /\ Dummy # Start /\ Dummy \in AllKeys /\ Start \in AllKeys
  BY MetaKeysDiffer DEF MetaFact
<1> HIDE DEF c
<1>4. \A k \in AllKeys : Rank(c, k) \in Nat /\ c.mid[k] \in Nat
  BY <1>1, RankType
<1>5. Rank(c, Dummy) = 0 /\ Rank(c, Start) = 1
  BY <1>3 DEF Rank
<1>6. \A k \in AllKeys \ {Dummy, Start} : /\ Rank(c, k) = c.mid[k]
                                          /\ c.mid[k] # 0 => Rank(c, k) > 2
  BY <1>2 DEF Rank, Sorted
<1>7. ASSUME NEW k \in Present(c), NEW l \in Present(c), k # l
      PROVE  Rank(c, k) # Rank(c, l)
  <2>1. k \in AllKeys /\ l \in AllKeys /\ c.mid[k] # 0 /\ c.mid[l] # 0
    BY DEF Present
  <2>2. c.mid[k] # c.mid[l]
    BY <1>2, <1>7, <2>1 DEF Sorted
  <2>3. CASE k \in {Dummy, Start} \/ l \in {Dummy, Start}
    BY <1>3, <1>4, <1>5, <1>6, <1>7, <2>1, <2>3
  <2>4. CASE k \notin {Dummy, Start} /\ l \notin {Dummy, Start}
    BY <1>6, <2>1, <2>2, <2>4
  <2> QED
    BY <2>3, <2>4
<1>8. Dummy \in Present(c) /\ Start \in Present(c) /\ Present(c) \subseteq AllKeys
  BY <1>1, <1>3 DEF Present, ChkOK
<1> QED
  BY <1>1, <1>4, <1>5, <1>6, <1>7, <1>8 DEF c

\* The start item follows the dummy item.
LEMMA NextOfDummy ==
  ASSUME NEW m, ManagerOK(m), OrderOK(m), NEW i \in 1..Len(m.list)
  PROVE  NextKey(m.list[i], Dummy) = Start
<1> DEFINE c == m.list[i]
           j == NextKey(c, Dummy)
<1>1. /\ ChkOK(c, m.mutationCounter)
      /\ \A k \in AllKeys : Rank(c, k) \in Nat
      /\ Rank(c, Dummy) = 0 /\ Rank(c, Start) = 1
      /\ \A k \in AllKeys \ {Dummy, Start} : c.mid[k] # 0 => Rank(c, k) > 2
      /\ Dummy \in AllKeys /\ Start \in Present(c)
  BY RankFacts, MetaKeysDiffer DEF MetaFact
<1> HIDE DEF c
<1>2. Start \in After(c, Dummy)
  BY <1>1 DEF After
<1>3. j \in After(c, Dummy) /\ Rank(c, j) <= Rank(c, Start)
  BY <1>1, <1>2, NextKeyPresent
<1>4. j \in AllKeys /\ c.mid[j] # 0 /\ Rank(c, j) > 0
  BY <1>1, <1>3 DEF After, Present
<1> HIDE DEF j
<1>5. j = Start
  BY <1>1, <1>3, <1>4
<1> QED
  BY <1>5 DEF j, c

\* A closed checkpoint ends with its end item.
LEMMA LastOfClosed ==
  ASSUME NEW m, ManagerOK(m), OrderOK(m), NEW i \in 1..Len(m.list), ~m.list[i].open
  PROVE  LastKey(m.list[i]) = End
<1> DEFINE c == m.list[i]
           j == LastKey(c)
<1>1. /\ ChkOK(c, m.mutationCounter) /\ m.mutationCounter \in Nat
      /\ \A k \in AllKeys : Rank(c, k) \in Nat /\ c.mid[k] \in Nat
      /\ Rank(c, Dummy) = 0 /\ Rank(c, Start) = 1
      /\ \A k \in AllKeys \ {Dummy, Start} : /\ Rank(c, k) = c.mid[k]
                                             /\ c.mid[k] # 0 => Rank(c, k) > 2
  BY RankFacts
<1>2. Sorted(c) /\ ~c.open
  BY DEF OrderOK
<1>3. End \in AllKeys /\ End # Dummy /\ End # Start
  BY MetaKeysDiffer DEF MetaFact
<1> HIDE DEF c
<1>4. c.mid[End] # 0 /\ \A k \in AllKeys \ {End} : c.mid[k] < c.mid[End]
  BY <1>2 DEF Sorted
<1>5. End \in Present(c)
  BY <1>3, <1>4 DEF Present
<1>6. j \in Present(c) /\ Rank(c, End) <= Rank(c, j)
  BY <1>1, <1>5, LastKeyPresent
<1>7. j \in AllKeys
  BY <1>6 DEF Present
<1> HIDE DEF j
<1>8. j = End
  BY <1>1, <1>3, <1>4, <1>6, <1>7
<1> QED
  BY <1>8 DEF j, c
-----------------------------------------------------------------------------
(***************************************************************************)
(* What the order is for.                                                  *)
(***************************************************************************)

\* Only the last checkpoint is open, and a closed one ends with its end item, through
\* whatever closes, merges, drops and reopens checkpoints.
THEOREM OnlyLastStaysOpen == Spec => []OnlyLastOpen
<1>1. ASSUME OInv
      PROVE  OnlyLastOpen
  <2>1. ManagerOK(cm) /\ OrderOK(cm) /\ DOMAIN cm.list = 1..Len(cm.list)
    BY <1>1, Parts DEF OInv, IInv, Orderly
  <2>2. ASSUME NEW i \in 1..Len(cm.list)
        PROVE  /\ cm.list[i].open => i = Len(cm.list)
               /\ (cm.list[i].open) <=> (cm.list[i].mid[End] = 0)
               /\ ~cm.list[i].open => LastKey(cm.list[i]) = End
    BY <2>1, LastOfClosed DEF OrderOK, Sorted
  <2> QED
    BY <2>1, <2>2 DEF OnlyLastOpen
<1> QED
  BY <1>1, OrderInvariance, PTL

\* Checkpoint ids grow along the list, where a backfill empties the manager.
THEOREM IdsStayGrowing ==
  ASSUME ~MayBeEmpty
  PROVE  Spec => []IdsGrow
<1>1. ASSUME OInv
      PROVE  IdsGrow
  <2>1. DOMAIN cm.list = 1..Len(cm.list)
    BY <1>1, Parts DEF OInv, IInv
  <2> QED
    BY <1>1, <2>1 DEF OInv, Orderly, IdsOK, IdsGrow
<1> QED
  BY <1>1, OrderInvariance, PTL

\* There, too, a name is registered in its cursor's checkpoint and in no other.
THEOREM NamesStayExact ==
  ASSUME ~MayBeEmpty
  PROVE  Spec => []NamesExact
<1>1. ASSUME OInv
      PROVE  NamesExact
  <2>1. DOMAIN cm.list = 1..Len(cm.list)
    BY <1>1, Parts DEF OInv, IInv
  <2> QED
    BY <1>1, <2>1 DEF OInv, Orderly, NamesOK, NamesExact
<1> QED
  BY <1>1, OrderInvariance, PTL

\* and no cursor walks off the list of a checkpoint that is not its own.
THEOREM NoCursorStrays ==
  ASSUME ~MayBeEmpty
  PROVE  Spec => []NoStrayCursor
<1>1. OInv => NoStrayCursor
  BY DEF OInv, NoStrayCursor
<1> QED
  BY <1>1, OrderInvariance, PTL

\* A document that eligibleForEviction grants was visited by every cursor, in a
\* vbucket that is always a master: its comparison of mutation ids is one of positions.
THEOREM EvictionStaysSound ==
  ASSUME AlwaysMaster
  PROVE  Spec => []EvictionSound
<1>1. ASSUME OInv
      PROVE  EvictionSound
  <2>1. ManagerOK(cm) /\ OrderOK(cm) /\ MetaOK(cm)
    BY <1>1 DEF OInv, IInv, Orderly
  <2>2. SUFFICES ASSUME NEW k \in Keys, EligibleForEviction(cm, k), NEW c \in Registered(cm),
                        k \in Todo(cm, c)
                 PROVE  FALSE
    BY DEF EvictionSound
  <2> DEFINE n == Len(cm.list)
             here == cm.cursor[c].chk
             pos == cm.cursor[c].pos
             own == cm.list[here]
  <2>3. /\ n \in Nat /\ here \in 1..n /\ pos \in AllKeys /\ own.mid[pos] # 0
        /\ \A i \in 1..n : \A l \in AllKeys : cm.list[i].mid[l] \in Nat
        /\ DOMAIN cm.list = 1..n /\ k \in AllKeys /\ k \notin {Dummy, Start}
    BY <2>1, Parts, MetaKeysDiffer DEF MetaFact, Registered
  <2>4. \A i \in 1..n : cm.list[i].mid[k] <= own.mid[pos]
    BY <2>2, <2>3 DEF EligibleForEviction, ChkOf
  <2>5. CASE k \in After(own, pos)
    <3>1. own.mid[k] # 0 /\ Rank(own, k) > Rank(own, pos) /\ Rank(own, k) = own.mid[k]
      BY <2>3, <2>5 DEF After, Present, Rank
    <3>2. own.mid[k] <= own.mid[pos]
      BY <2>3, <2>4
    <3>3. MetaFirst(own)
      BY <2>1, <2>3 DEF MetaOK
    <3>4. own.mid[pos] \in Nat /\ own.mid[k] \in Nat
      BY <2>3
    <3> HIDE DEF own, pos
    <3>5. CASE pos \in {Dummy, Start}
      <4>1. own.mid[pos] < own.mid[k]
        BY <2>3, <3>1, <3>3, <3>5 DEF MetaFirst
      <4> QED
        BY <3>2, <3>4, <4>1
    <3>6. CASE pos \notin {Dummy, Start}
      BY <3>1, <3>2, <3>4, <3>6 DEF Rank
    <3> QED
      BY <3>5, <3>6
  <2>6. CASE k \notin After(own, pos)
    <3>1. PICK i \in (here + 1)..n : k \in Docs(cm.list[i])
      BY <2>2, <2>6 DEF Todo, ChkOf
    <3>2. i \in 1..n /\ here < i /\ cm.list[i].mid[k] # 0
      BY <2>3, <3>1 DEF Docs
    <3>3. Below(own, cm.list[i])
      BY <2>1, <2>3, <3>2 DEF OrderOK
    <3>4. own.mid[pos] < cm.list[i].mid[k] /\ cm.list[i].mid[k] <= own.mid[pos]
      BY <2>3, <2>4, <3>2, <3>3 DEF Below
    <3> QED
      BY <2>3, <3>2, <3>4
  <2> QED
    BY <2>5, <2>6
<1> QED
  BY <1>1, OrderInvariance, PTL
-----------------------------------------------------------------------------
(***************************************************************************)
(* What a single step does.                                                *)
(***************************************************************************)

LEMMA EventParts ==
  ASSUME NEW op, NEW who, NEW keys
  PROVE  /\ Event(op, who, keys).op = op
         /\ Event(op, who, keys).who = who
         /\ Event(op, who, keys).keys = keys
BY DEF Event

\* The only call that gives a TAP connection something is its own nextItem.
LEMMA GivesAreReads ==
  ASSUME NEW t \in TapNames, [Next]_vars, event' # event,
         event'.op = "give", event'.who = t
  PROVE  NextItem(t)
<1>1. t # Persistence
  BY NamesAssumption
<1>2. Next
  BY DEF vars
<1>3. Quiet.op = "none"
  BY EventParts DEF Quiet
<1>4. ASSUME NEW u \in TapNames, NextItem(u)
      PROVE  u = t
  BY <1>4, EventParts DEF NextItem
<1>5. ~GetAllItemsForPersistence
  BY <1>1, EventParts DEF GetAllItemsForPersistence
<1>6. /\ ~QueueDirtyAborts
      /\ \A u \in TapNames : ~RegisterTAPCursorStrays(u)
      /\ \A id \in 0..MaxCheckpointId : ~CheckpointStartStrays(id)
  BY DEF QueueDirtyAborts, RegisterTAPCursorStrays, CheckpointStartStrays
<1>7. /\ \A k \in Keys : ~QueueDirty(k)
      /\ \A u \in TapNames : ~RegisterTAPCursor(u) /\ ~RemoveTAPCursor(u)
      /\ ~Clear
  BY EventParts DEF QueueDirty, RegisterTAPCursor, RemoveTAPCursor, Clear
<1>8. /\ \A u \in TapNames : ~WaitAtCheckpointEnd(u)
      /\ \A id \in 0..MaxCheckpointId : ~CheckpointStart(id)
      /\ \A id \in 1..MaxCheckpointId : ~CheckpointEnd(id)
      /\ ~RemoveClosedUnrefCheckpoints /\ ~CheckVBOpenCheckpoint
      /\ ~CreateNewCheckpoint /\ ~SetCheckpointExtension
      /\ ~CloseBackfill /\ \A to \in VBStates : ~SetVBucketState(to)
  BY <1>3 DEF WaitAtCheckpointEnd, CheckpointStart, CheckpointEnd,
     RemoveClosedUnrefCheckpoints, CheckVBOpenCheckpoint, CreateNewCheckpoint,
     SetCheckpointExtension, CloseBackfill, SetVBucketState
<1>9. ~InitialVBucketStream
  BY <1>3, EventParts DEF InitialVBucketStream
<1> QED
  BY <1>2, <1>4, <1>5, <1>6, <1>7, <1>8, <1>9 DEF Next

\* nextItem returns a document to a cursor that reads closed checkpoints only from one
\* that is closed and was closed when it registered.
LEMMA ReadsClosed ==
  ASSUME NEW m, ManagerOK(m), Orderly(m), NEW c \in Registered(m), NEW q, IsRead(m, c, q),
         Returned(m, q, c) # {}, q.cursor[c].closedOnly
  PROVE  /\ ~ChkOf(q, c).open
         /\ ChkOf(q, c).id < q.cursor[c].openId
<1>1. q.cursor[c] # m.cursor[c] /\ q.cursor[c].pos \in Keys
  BY DEF Returned
<1>2. Dummy \notin Keys /\ Start \notin Keys
  BY KeysAssumption DEF MetaKeys
<1>3. c \in Names
  BY Parts
<1>4. CASE q = m
  BY <1>1, <1>4
<1>5. CASE Moves(m, c, NextKey(ChkOf(m, c), m.cursor[c].pos), q)
           /\ (m.cursor[c].closedOnly => /\ ~ChkOf(m, c).open
                                         /\ ChkOf(m, c).id < m.cursor[c].openId)
  BY <1>5 DEF Moves, ChkOf
<1>6. ASSUME NEW y, ManagerOK(y), MovedOn(m, c, y),
             q = y \/ Moves(y, c, NextKey(ChkOf(y, c), Dummy), q)
      PROVE  FALSE
  <2>1. Orderly(y) /\ y.cursor[c].pos = Dummy
    BY <1>3, <1>6, OrderlyNext DEF MovedOn
  <2>2. y.cursor[c].chk \in 1..Len(y.list)
    <3>1. Len(m.list) \in Nat
      BY Parts
    <3>2. Len(y.list) = Len(m.list)
      BY <1>6 DEF MovedOn, SameMids
    <3>3. m.cursor[c].chk \in 1..(Len(m.list) - 1) /\ y.cursor[c].chk = m.cursor[c].chk + 1
      BY <1>6 DEF MovedOn
    <3> QED
      BY <3>1, <3>2, <3>3
  <2>3. NextKey(ChkOf(y, c), Dummy) = Start
    BY <1>6, <2>1, <2>2, NextOfDummy DEF Orderly, ChkOf
  <2> QED
    BY <1>1, <1>2, <1>6, <2>1, <2>3 DEF Moves
<1> QED
  BY <1>4, <1>5, <1>6 DEF IsRead

\* A connection that reads closed checkpoints only is given no document of the
\* checkpoint that was open when it registered, nor of a later one.
THEOREM BackupsReadClosed == Spec => BackupReadsClosed
<1>1. ASSUME OInv, [Next]_vars, NEW t \in TapNames,
             event' # event, event'.op = "give", event'.who = t, event'.keys # {},
             cm'.cursor[t].closedOnly
      PROVE  /\ ~ChkOf(cm', t).open
             /\ ChkOf(cm', t).id < cm'.cursor[t].openId
  <2>1. cm' = AdvanceTapCursor(cm, t) /\ event' = Event("give", t, Returned(cm, cm', t))
    BY <1>1, GivesAreReads DEF NextItem, Becomes
  <2>2. ManagerOK(cm) /\ Orderly(cm) /\ Returned(cm, cm', t) # {}
    <3>1. event'.keys = Returned(cm, cm', t)
      BY <2>1, EventParts
    <3> QED
      BY <1>1, <3>1 DEF OInv, IInv
  <2>3. t \in Registered(cm)
    BY <2>1, <2>2, MetaKeysDiffer DEF AdvanceTapCursor, Registered, Returned, MetaFact
  <2>4. IsRead(cm, t, cm')
    BY <2>1, <2>2, <2>3, AdvanceTapEffect
  <2> QED
    BY <1>1, <2>2, <2>3, <2>4, ReadsClosed
<1>2. OInv /\ [Next]_vars =>
        \A t \in TapNames :
          event' # event /\ event'.op = "give" /\ event'.who = t /\ event'.keys # {}
          /\ cm'.cursor[t].closedOnly
            => /\ ~ChkOf(cm', t).open
               /\ ChkOf(cm', t).id < cm'.cursor[t].openId
  BY <1>1
<1> QED
  BY <1>2, OrderInvariance, PTL DEF Spec, BackupReadsClosed

\* Up to the checkpoint that is reported as persisted, nothing is ahead of the
\* persistence cursor: how the steps of an operation keep that.
LEMMA BehindSame ==
  ASSUME NEW m, ManagerOK(m), PreChkIdBehind(m), NEW q, ManagerOK(q),
         SameMids(m, q), SameIds(m, q), q.preChkId = m.preChkId,
         \/ q.cursor[Persistence] = m.cursor[Persistence]
         \/ m.cursor[Persistence].chk < q.cursor[Persistence].chk
  PROVE  PreChkIdBehind(q)
<1> DEFINE here == m.cursor[Persistence].chk
<1>1. /\ DOMAIN m.list = 1..Len(m.list) /\ DOMAIN q.list = 1..Len(m.list)
      /\ Len(m.list) \in Nat /\ here \in 1..Len(m.list)
      /\ q.cursor[Persistence].chk \in 1..Len(m.list)
  BY Parts DEF SameMids
<1>2. SUFFICES ASSUME m.preChkId > 0, NEW i \in 1..Len(m.list),
                      m.list[i].id <= m.preChkId
               PROVE  /\ ~q.list[i].open
                      /\ \/ Docs(q.list[i]) = {}
                         \/ i < q.cursor[Persistence].chk
                         \/ /\ i = q.cursor[Persistence].chk
                            /\ After(q.list[i], q.cursor[Persistence].pos) \cap Keys = {}
  BY <1>1 DEF PreChkIdBehind, SameIds
<1>3. q.list[i].mid = m.list[i].mid /\ q.list[i].open = m.list[i].open
  BY DEF SameMids
<1>4. /\ ~m.list[i].open
      /\ \/ Docs(m.list[i]) = {}
         \/ i < here
         \/ /\ i = here
            /\ After(m.list[i], m.cursor[Persistence].pos) \cap Keys = {}
  BY <1>1, <1>2 DEF PreChkIdBehind
<1>5. /\ Docs(q.list[i]) = Docs(m.list[i])
      /\ \A p : After(q.list[i], p) = After(m.list[i], p)
  BY <1>3 DEF Docs, After, Present, Rank
<1> HIDE DEF here
<1>6. CASE q.cursor[Persistence] = m.cursor[Persistence]
  BY <1>3, <1>4, <1>5, <1>6 DEF here
<1>7. CASE here < q.cursor[Persistence].chk
  BY <1>1, <1>3, <1>4, <1>5, <1>7
<1> QED
  BY <1>2, <1>6, <1>7 DEF here

\* A persistence cursor that goes on leaves the same checkpoints behind.
LEMMA BehindMovedOn ==
  ASSUME NEW m, ManagerOK(m), PreChkIdBehind(m), NEW done, NEW q, ManagerOK(q),
         HaveMovedOn(m, done, q)
  PROVE  PreChkIdBehind(q)
<1>1. Persistence \in Names /\ m.cursor[Persistence].chk \in 1..Len(m.list) /\ Len(m.list) \in Nat
  BY Parts, MetaKeysDiffer DEF MetaFact
<1>2. \/ q.cursor[Persistence] = m.cursor[Persistence]
      \/ m.cursor[Persistence].chk < q.cursor[Persistence].chk
  BY <1>1 DEF HaveMovedOn
<1> QED
  BY <1>2, BehindSame DEF HaveMovedOn

\* Dropping checkpoints leaves nothing before the cursor that was not there.
LEMMA BehindCut ==
  ASSUME NEW m, ManagerOK(m), PreChkIdBehind(m), NEW r, NEW q, ManagerOK(q), IsCut(m, r, q)
  PROVE  PreChkIdBehind(q)
<1> DEFINE n == Len(m.list)
           here == m.cursor[Persistence].chk
<1>1. /\ DOMAIN m.list = 1..n /\ DOMAIN q.list = 1..(n - r)
      /\ n \in Nat /\ r \in Nat /\ r < n /\ q.preChkId = m.preChkId
      /\ here \in 1..n /\ q.cursor[Persistence].chk = here - r
      /\ q.cursor[Persistence].pos = m.cursor[Persistence].pos
  BY Parts DEF IsCut
<1>2. SUFFICES ASSUME m.preChkId > 0, NEW i \in 1..(n - r), q.list[i].id <= m.preChkId
               PROVE  /\ ~q.list[i].open
                      /\ \/ Docs(q.list[i]) = {}
                         \/ i < q.cursor[Persistence].chk
                         \/ /\ i = q.cursor[Persistence].chk
                            /\ After(q.list[i], q.cursor[Persistence].pos) \cap Keys = {}
  BY <1>1 DEF PreChkIdBehind
<1>3. /\ q.list[i].mid = m.list[i + r].mid /\ q.list[i].open = m.list[i + r].open
      /\ q.list[i].id = m.list[i + r].id
  BY DEF IsCut
<1>4. i + r \in 1..n
  BY <1>1
<1>5. /\ ~m.list[i + r].open
      /\ \/ Docs(m.list[i + r]) = {}
         \/ i + r < here
         \/ /\ i + r = here
            /\ After(m.list[i + r], m.cursor[Persistence].pos) \cap Keys = {}
  BY <1>1, <1>2, <1>3, <1>4 DEF PreChkIdBehind
<1>6. /\ Docs(q.list[i]) = Docs(m.list[i + r])
      /\ \A p : After(q.list[i], p) = After(m.list[i + r], p)
  BY <1>3 DEF Docs, After, Present, Rank
<1> HIDE DEF here, n
<1>7. (i + r < here => i < here - r) /\ (i + r = here => i = here - r)
  BY <1>1
<1> QED
  BY <1>1, <1>3, <1>5, <1>6, <1>7

\* What is queued goes to the open checkpoint, which the id does not name.
LEMMA BehindQueued ==
  ASSUME NEW m, ManagerOK(m), PreChkIdBehind(m), LastChk(m).open, NEW k, NEW z, ManagerOK(z),
         IsQueued(m, k, z)
  PROVE  PreChkIdBehind(z)
<1> DEFINE n == Len(m.list)
<1>1. PICK q : ManagerOK(q) /\ ItemQueued(m, k, q) /\ OnlyCounters(q, z) /\ z.preChkId = m.preChkId
  BY DEF IsQueued
<1>2. /\ n \in Nat \ {0} /\ DOMAIN m.list = 1..n /\ DOMAIN z.list = 1..n /\ LastChk(m) = m.list[n]
      /\ Persistence \in Names
      /\ \A i \in 1..n : i # n => z.list[i] = m.list[i]
      /\ \A i \in 1..n : z.list[i].id = m.list[i].id
      /\ z.cursor[Persistence].chk = m.cursor[Persistence].chk
      /\ m.cursor[Persistence].chk # n =>
           z.cursor[Persistence].pos = m.cursor[Persistence].pos
  BY <1>1, Parts, MetaKeysDiffer DEF OnlyCounters, ItemQueued, MetaFact
<1>3. SUFFICES ASSUME m.preChkId > 0, NEW i \in 1..n, m.list[i].id <= m.preChkId
               PROVE  /\ ~z.list[i].open
                      /\ \/ Docs(z.list[i]) = {}
                         \/ i < z.cursor[Persistence].chk
                         \/ /\ i = z.cursor[Persistence].chk
                            /\ After(z.list[i], z.cursor[Persistence].pos) \cap Keys = {}
  BY <1>1, <1>2 DEF PreChkIdBehind
<1>4. /\ ~m.list[i].open
      /\ \/ Docs(m.list[i]) = {}
         \/ i < m.cursor[Persistence].chk
         \/ /\ i = m.cursor[Persistence].chk
            /\ After(m.list[i], m.cursor[Persistence].pos) \cap Keys = {}
  BY <1>2, <1>3 DEF PreChkIdBehind
<1>5. i # n
  BY <1>2, <1>4
<1> HIDE DEF n
<1>6. z.list[i] = m.list[i]
  BY <1>2, <1>5
<1>7. i = m.cursor[Persistence].chk => z.cursor[Persistence].pos = m.cursor[Persistence].pos
  BY <1>2, <1>5
<1> QED
  BY <1>2, <1>4, <1>6, <1>7

\* Where it is set: when the persistence cursor leaves a closed checkpoint,
LEMMA BehindOpened ==
  ASSUME NEW m, ManagerOK(m), Orderly(m), ~MayBeEmpty, NEW id \in Nat, LastChk(m).id < id,
         NEW q, IsOpened(m, id, q)
  PROVE  q.preChkId = m.preChkId \/ PreChkIdBehind(q)
<1>1. PICK a, b : /\ ManagerOK(b) /\ ManagerOK(q)
                  /\ IF LastChk(m).open THEN IsClosed(m, a) ELSE a = m
                  /\ IsAppended(a, id, b)
                  /\ IsAdvanced(b, q)
  BY DEF IsOpened
<1>2. b.preChkId = m.preChkId
  BY <1>1 DEF IsClosed, ItemQueued, IsAppended
<1>3. Orderly(q)
  BY OrderlyOpened
<1> DEFINE n == Len(b.list)
           here == b.cursor[Persistence].chk
<1>4. /\ n \in Nat \ {0} /\ Len(q.list) = n /\ DOMAIN q.list = 1..n /\ here \in 1..n
      /\ \A i \in 1..n : q.list[i].id \in Nat /\ q.list[i].id = b.list[i].id
  BY <1>1, Parts DEF IsAdvanced, SameMids, SameIds
<1>5. CASE q.preChkId = b.preChkId
  BY <1>2, <1>5
<1>6. CASE /\ here \in 1..(n - 1) /\ q.preChkId = b.list[here].id
           /\ q.cursor[Persistence].chk = here + 1
  <2>1. ASSUME NEW i \in 1..n, q.list[i].id <= q.preChkId
        PROVE  ~q.list[i].open /\ i < q.cursor[Persistence].chk
    <3>1. ~(here < i)
      <4>1. here < i => q.list[here].id < q.list[i].id
        BY <1>3, <1>4, <2>1 DEF Orderly, IdsOK
      <4> HIDE DEF here, n
      <4>2. q.list[i].id \in Nat /\ q.list[here].id \in Nat /\ q.preChkId = q.list[here].id
        BY <1>4, <1>6, <2>1
      <4> QED
        BY <2>1, <4>1, <4>2
    <3>2. i < here + 1 /\ i # n
      BY <1>4, <1>6, <3>1
    <3> QED
      BY <1>3, <1>4, <1>6, <3>2 DEF Orderly, OrderOK
  <2> QED
    BY <1>4, <2>1 DEF PreChkIdBehind
<1> QED
  BY <1>1, <1>5, <1>6 DEF IsAdvanced

\* and when the flusher takes everything.
LEMMA BehindTaken ==
  ASSUME NEW m, ManagerOK(m), Orderly(m), ~MayBeEmpty, ~ClosedIdIsStale(m),
         NEW at, NEW q, IsTaken(m, at, q), ManagerOK(q)
  PROVE  PreChkIdBehind(q)
<1> DEFINE n == Len(m.list)
<1>1. /\ n \in Nat \ {0} /\ LastChk(m) = m.list[n] /\ n \in 1..n
      /\ DOMAIN q.list = 1..n /\ at \in 1..n
      /\ \A i \in 1..n : m.list[i].id \in Nat
      /\ m.lastClosedId \in Int
  BY Parts DEF IsTaken, SameMids, Record
<1>2. at = n
  BY <1>1 DEF IsTaken, Orderly, OrderOK
<1>3. /\ q.cursor[Persistence].chk = n /\ q.cursor[Persistence].pos = LastKey(m.list[n])
      /\ q.preChkId = LastClosedId(m)
      /\ \A i \in 1..n : /\ q.list[i].mid = m.list[i].mid /\ q.list[i].open = m.list[i].open
                         /\ q.list[i].id = m.list[i].id
  BY <1>2 DEF IsTaken, SameMids, SameIds
<1>4. After(q.list[n], LastKey(m.list[n])) = {}
  <2> DEFINE c == m.list[n]
  <2>1. After(q.list[n], LastKey(c)) = After(c, LastKey(c))
    BY <1>1, <1>3 DEF After, Present, Rank
  <2>2. ChkOK(c, m.mutationCounter) /\ m.mutationCounter \in Nat /\ Dummy \in Present(c)
        /\ Present(c) \subseteq AllKeys /\ \A k \in AllKeys : Rank(c, k) \in Nat
    BY <1>1, RankFacts DEF Orderly
  <2> HIDE DEF c
  <2>3. LastKey(c) \in Present(c) /\ \A i \in Present(c) : Rank(c, i) <= Rank(c, LastKey(c))
    BY <2>2, LastKeyPresent
  <2>4. After(c, LastKey(c)) = {}
    BY <2>2, <2>3 DEF After
  <2> QED
    BY <2>1, <2>4 DEF c
<1>5. ASSUME LastClosedId(m) > 0, m.list[n].open
      PROVE  LastClosedId(m) < m.list[n].id
  <2>1. OpenId(m) = m.list[n].id
    BY <1>1, <1>5 DEF OpenId
  <2> QED
    BY <1>1, <1>5, <2>1 DEF LastClosedId, ClosedIdIsStale
<1>6. LastClosedId(m) \in Int
  BY <1>1 DEF LastClosedId, OpenId
<1>7. ASSUME q.preChkId > 0, NEW i \in 1..n, q.list[i].id <= q.preChkId
      PROVE  ~q.list[i].open
  <2>1. i = n \/ ~m.list[i].open
    BY DEF Orderly, OrderOK
  <2> QED
    BY <1>1, <1>3, <1>5, <1>6, <1>7, <2>1
<1> HIDE DEF n
<1>8. \A i \in 1..n : i < n \/ i = n
  BY <1>1
<1> QED
  BY <1>1, <1>3, <1>4, <1>7, <1>8 DEF PreChkIdBehind

\* queueDirty sets the id when the checkpoint it adds makes the cursor go on.
LEMMA PreChkIdQueue ==
  ASSUME OInv, ~MayBeEmpty, NEW k \in Keys, QueueDirty(k)
  PROVE  cm'.preChkId = cm.preChkId \/ PreChkIdBehind(cm')
<1>1. PICK timeUp \in BOOLEAN : /\ LastChk(BeforeQueueing(timeUp)).open
                                /\ IsQueued(BeforeQueueing(timeUp), k, cm')
  BY QueueEffect DEF OInv
<1> DEFINE m == BeforeQueueing(timeUp)
<1>2. ManagerOK(m) /\ ManagerOK(cm) /\ Orderly(cm)
  BY OrderlyBefore DEF OInv, IInv
<1>3. m.preChkId = cm.preChkId \/ PreChkIdBehind(m)
  <2>1. LastChk(cm).id + 1 \in Nat /\ LastChk(cm).id < LastChk(cm).id + 1
    BY <1>2, LastFacts
  <2>2. m = cm \/ IsOpened(cm, LastChk(cm).id + 1, m)
    BY <1>2, CheckOpenEffect DEF BeforeQueueing
  <2> QED
    BY <1>2, <2>1, <2>2, BehindOpened
<1>4. cm'.preChkId = m.preChkId
  BY <1>1 DEF IsQueued
<1>5. ManagerOK(cm')
  BY <1>1, NextOK DEF OInv, IInv, Next
<1> HIDE DEF m
<1>6. PreChkIdBehind(m) => PreChkIdBehind(cm')
  BY <1>1, <1>2, <1>5, BehindQueued DEF m
<1> QED
  BY <1>3, <1>4, <1>6

\* So does the remover when it opens a checkpoint.
LEMMA PreChkIdReduce ==
  ASSUME NEW m, ManagerOK(m), Orderly(m), ~MayBeEmpty, NEW q, ManagerOK(q), IsReduced(m, q)
  PROVE  q.preChkId = m.preChkId \/ PreChkIdBehind(q)
<1>1. PICK x, y, z, oldId :
        /\ ManagerOK(x) /\ ManagerOK(y) /\ ManagerOK(z)
        /\ x = m \/ (IsMaster /\ IsOpened(m, LastChk(m).id + 1, x))
        /\ y = x \/ HaveMovedOn(x, Finished(x, oldId), y)
        /\ z = y \/ IsCut(y, NumUnref(y), z)
        /\ q = z \/ (~IsMaster /\ IsCollapsed(z, q))
  BY DEF IsReduced
<1>2. y.preChkId = x.preChkId /\ z.preChkId = y.preChkId /\ q.preChkId = z.preChkId
  BY <1>1 DEF HaveMovedOn, IsCut, IsCollapsed
<1>3. CASE x = m
  BY <1>2, <1>3
<1>4. CASE q = z /\ IsOpened(m, LastChk(m).id + 1, x)
  <2>1. LastChk(m).id + 1 \in Nat /\ LastChk(m).id < LastChk(m).id + 1
    BY LastFacts
  <2>2. x.preChkId = m.preChkId \/ PreChkIdBehind(x)
    BY <1>4, <2>1, BehindOpened
  <2>3. PreChkIdBehind(x) => PreChkIdBehind(y)
    BY <1>1, BehindMovedOn
  <2>4. PreChkIdBehind(y) => PreChkIdBehind(z)
    BY <1>1, BehindCut
  <2> QED
    BY <1>2, <1>4, <2>2, <2>3, <2>4
<1> QED
  BY <1>1, <1>3, <1>4

\* Every step either leaves the id or sets it to that of a checkpoint left behind.
LEMMA PreChkIdNext ==
  ASSUME OInv, ~MayBeEmpty, ~ClosedIdIsStale(cm), Next
  PROVE  cm'.preChkId = cm.preChkId \/ PreChkIdBehind(cm')
<1>0. IInv /\ IInv'
  BY NextOK DEF OInv
<1>1. /\ IInv /\ ManagerOK(cm) /\ Orderly(cm) /\ ManagerOK(cm')
      /\ LastChk(cm).id + 1 \in Nat /\ LastChk(cm).id < LastChk(cm).id + 1
  <2>1. IInv /\ ManagerOK(cm) /\ Orderly(cm) /\ ManagerOK(cm')
    BY <1>0 DEF OInv, IInv
  <2>2. LastChk(cm).id + 1 \in Nat /\ LastChk(cm).id < LastChk(cm).id + 1
    BY <2>1, LastFacts
  <2> QED
    BY <2>1, <2>2
<1>2. ASSUME NEW t \in TapNames,
             NextItem(t) \/ WaitAtCheckpointEnd(t) \/ RegisterTAPCursor(t) \/ RemoveTAPCursor(t)
      PROVE  cm'.preChkId = cm.preChkId
  <2>1. t \in Names /\ t # Persistence
    BY MetaKeysDiffer, NamesAssumption DEF MetaFact
  <2>2. CASE NextItem(t)
    <3>1. cm' = AdvanceTapCursor(cm, t)
      BY <2>2 DEF NextItem, Becomes
    <3>2. CASE t \in Registered(cm)
      BY <1>1, <3>1, <3>2, AdvanceTapEffect DEF IsRead, Moves, MovedOn
    <3>3. CASE t \notin Registered(cm)
      BY <2>1, <3>1, <3>3 DEF AdvanceTapCursor, Registered
    <3> QED
      BY <3>2, <3>3
  <2>3. CASE WaitAtCheckpointEnd(t)
    BY <1>1, <2>1, <2>3, DecrTapCursorEffect DEF WaitAtCheckpointEnd, Becomes, Moves
  <2>4. CASE RegisterTAPCursor(t)
    <3>1. PICK id, fromBeginning :
            cm' = RegisterCursor(cm, t, id, t \in BackupTaps, fromBeginning)
      BY <2>4 DEF RegisterTAPCursor, Becomes
    <3>2. cm \in Record(Len(cm.list))
      BY <1>1, Parts
    <3> QED
      BY <3>1, <3>2 DEF RegisterCursor, Record
  <2>5. CASE RemoveTAPCursor(t)
    BY <1>1, <2>1, <2>5, RemoveCursorEffect DEF RemoveTAPCursor, Becomes, IsRemoved
  <2> QED
    BY <1>2, <2>2, <2>3, <2>4, <2>5
<1>3. CASE GetAllItemsForPersistence
  BY <1>1, <1>3, TakeAllEffect, BehindTaken DEF GetAllItemsForPersistence, Becomes
<1>4. CASE RemoveClosedUnrefCheckpoints
  <2>1. PICK forced \in BOOLEAN, memHigh \in BOOLEAN, timeUp \in BOOLEAN :
          cm' = RemoveClosedUnref(cm, forced, memHigh, timeUp)
    BY <1>4 DEF RemoveClosedUnrefCheckpoints, Becomes
  <2> QED
    BY <1>1, <2>1, RemoveEffect, PreChkIdReduce
<1>5. ASSUME NEW id \in Nat, CheckpointStart(id)
      PROVE  cm'.preChkId = cm.preChkId \/ PreChkIdBehind(cm')
  <2>1. Accepted(cm, id, cm')
    BY <1>1, <1>5, CheckAndAddEffect DEF CheckpointStart, Becomes
  <2>2. ASSUME NEW z, ~IsOld(cm, id), ManagerOK(z), OnlyCounters(cm, z),
               z.preChkId = cm.preChkId, IsOpened(z, id, cm')
        PROVE  cm'.preChkId = cm.preChkId \/ PreChkIdBehind(cm')
    <3>1. Orderly(z) /\ LastChk(z) = LastChk(cm)
      BY <1>1, <2>2, OrderlyCounters DEF OnlyCounters, LastChk
    <3>2. LastChk(cm).id < id
      <4>1. /\ Len(cm.list) \in 1..Len(cm.list) /\ DOMAIN cm.list = 1..Len(cm.list)
            /\ LastChk(cm) = cm.list[Len(cm.list)] /\ LastChk(cm).id \in Nat
        BY <1>1, Parts
      <4> QED
        BY <2>2, <4>1 DEF IsOld
    <3> QED
      BY <2>2, <3>1, <3>2, BehindOpened
  <2> QED
    BY <2>1, <2>2 DEF Accepted, IdIsSet, IsReset, IsRolledBack, IsRenumbered
<1>6. ASSUME NEW id \in Nat, CheckpointEnd(id)
      PROVE  cm'.preChkId = cm.preChkId
  BY <1>1, <1>6, CloseOpenEffect DEF CheckpointEnd, Becomes, IsClosed, ItemQueued
<1>7. CASE CheckVBOpenCheckpoint
  <2>1. PICK timeUp \in BOOLEAN : cm' = CheckOpenCheckpoint(cm, FALSE, timeUp)
    BY <1>7 DEF CheckVBOpenCheckpoint, Becomes
  <2>2. cm' = cm \/ IsOpened(cm, LastChk(cm).id + 1, cm')
    BY <1>1, <2>1, CheckOpenEffect
  <2> QED
    BY <1>1, <2>2, BehindOpened
<1>8. CASE CreateNewCheckpoint
  <2>1. IsOpened(cm, LastChk(cm).id + 1, cm')
    BY <1>1, <1>8, AddNewEffect DEF CreateNewCheckpoint, Becomes
  <2> QED
    BY <1>1, <2>1, BehindOpened
<1>9. CASE SetCheckpointExtension
  <2>1. cm \in Record(Len(cm.list))
    BY <1>1, Parts
  <2> QED
    BY <1>9, <2>1 DEF SetCheckpointExtension, Becomes, Record
<1>10. CASE Clear
  <2> DEFINE id == IF vbState = "active" THEN 1 ELSE 0
  <2>1. cm' = Cleared(cm, id) /\ id \in Nat
    BY <1>10 DEF Clear, Becomes, Cleared
  <2> HIDE DEF id
  <2> QED
    BY <1>1, <2>1, ClearEffect
<1>11. CASE InitialVBucketStream
  <2>1. PICK z : ManagerOK(z) /\ z.preChkId = 0 /\ z = ResetManager(cm, vbState)
    BY ResetEffect
  <2>2. cm' = SetOpenCheckpointId(z, 0)
    BY <1>11, <2>1 DEF InitialVBucketStream, Becomes
  <2>3. cm'.preChkId = 0
    BY <2>1, <2>2, SetOpenIdEffect DEF IdIsSet, ManagerOK
  <2> QED
    BY <2>3 DEF PreChkIdBehind
<1>12. CASE CloseBackfill \/ \E to \in VBStates : SetVBucketState(to)
  <2>1. cm' = cm \/ cm' = SetOpenCheckpointId(cm, 2)
    BY <1>12 DEF CloseBackfill, SetVBucketState, Becomes
  <2> QED
    BY <1>1, <2>1, SetOpenIdEffect DEF IdIsSet, ManagerOK
<1>13. CASE QueueDirtyAborts \/ (\E t \in TapNames : RegisterTAPCursorStrays(t))
            \/ \E id \in 0..MaxCheckpointId : CheckpointStartStrays(id)
  BY <1>13 DEF QueueDirtyAborts, RegisterTAPCursorStrays, CheckpointStartStrays
<1>14. 0..MaxCheckpointId \subseteq Nat /\ 1..MaxCheckpointId \subseteq Nat
  BY BoundsAssumption
<1> QED
  BY <1>2, <1>3, <1>4, <1>5, <1>6, <1>7, <1>8, <1>9, <1>10, <1>11, <1>12, <1>13, <1>14,
     PreChkIdQueue DEF Next

\* pCursorPreCheckpointId is set only when the flusher has got everything up to it,
\* where a backfill empties the manager.
THEOREM ReportedIdIsBehind ==
  ASSUME ~MayBeEmpty
  PROVE  Spec => PreChkIdSetBehind
<1>1. OInv /\ [Next]_vars =>
        (cm'.preChkId # cm.preChkId /\ ~ClosedIdIsStale(cm) => PreChkIdBehind(cm'))
  <2>1. ASSUME OInv, [Next]_vars, cm'.preChkId # cm.preChkId, ~ClosedIdIsStale(cm)
        PROVE  PreChkIdBehind(cm')
    <3>1. Next
      BY <2>1 DEF vars
    <3> QED
      BY <2>1, <3>1, PreChkIdNext
  <2> QED
    BY <2>1
<1> QED
  BY <1>1, OrderInvariance, PTL DEF Spec, PreChkIdSetBehind
=============================================================================
