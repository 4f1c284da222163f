----------------------- MODULE CheckpointCounts_proofs -----------------------
(***************************************************************************)
(* The counts that every operation updates by differences: numItems is the *)
(* number of items in the list in every configuration, and on a master the *)
(* offset of a cursor is the number of items behind it, so that what is    *)
(* left for the flusher and for a TAP connection is computed exactly.      *)
(***************************************************************************)
EXTENDS CheckpointOrder_proofs
-----------------------------------------------------------------------------
(***************************************************************************)
(* Documents of a list, counted checkpoint by checkpoint.                  *)
(***************************************************************************)
\* The items of the keys K in the first n checkpoints.
ItemsIn(list, n, K) == {d \in (1..n) \X K : list[d[1]].mid[d[2]] # 0}

\* There are finitely many keys.
LEMMA KeysFinite == IsFiniteSet(AllKeys)
<1>1. IsFiniteSet({Dummy}) /\ IsFiniteSet({Start}) /\ IsFiniteSet({End})
  BY FS_Singleton
<1>2. IsFiniteSet({Dummy} \cup {Start})
  BY <1>1, FS_Union
<1>3. IsFiniteSet(({Dummy} \cup {Start}) \cup {End})
  BY <1>1, <1>2, FS_Union
<1>4. AllKeys = Keys \cup (({Dummy} \cup {Start}) \cup {End})
  BY DEF AllKeys, MetaKeys
<1> QED
  BY <1>3, <1>4, KeysAssumption, FS_Union

\* They are finitely many.
LEMMA ItemsFinite ==
  ASSUME NEW list, NEW n \in Int, NEW K, K \subseteq AllKeys
  PROVE  /\ IsFiniteSet(ItemsIn(list, n, K))
         /\ Cardinality(ItemsIn(list, n, K)) \in Nat
<1>1. IsFiniteSet(AllKeys)
  BY KeysFinite
<1>2. IsFiniteSet(1..n) /\ IsFiniteSet(K)
  BY <1>1, FS_Interval, FS_Subset
<1>3. IsFiniteSet((1..n) \X K)
  BY <1>2, FS_Product
<1>4. IsFiniteSet(ItemsIn(list, n, K))
  BY <1>3, FS_Subset DEF ItemsIn
<1> QED
  BY <1>4, FS_CardinalityType

\* DocsIn counts the documents among them.
LEMMA DocsAreItems ==
  ASSUME NEW list, NEW n
  PROVE  DocsIn(list, n) = Cardinality(ItemsIn(list, n, Keys))
BY DEF DocsIn, ItemsIn

\* The count is one of the items only.
LEMMA DocsSame ==
  ASSUME NEW list, NEW other, NEW n \in Int, \A i \in 1..n : other[i].mid = list[i].mid
  PROVE  DocsIn(other, n) = DocsIn(list, n)
<1>1. ItemsIn(other, n, Keys) = ItemsIn(list, n, Keys)
  BY DEF ItemsIn
<1> QED
  BY <1>1, DocsAreItems

\* A list of nothing has no documents.
LEMMA NoDocs ==
  ASSUME NEW list
  PROVE  DocsIn(list, 0) = 0
<1>1. ItemsIn(list, 0, Keys) = {}
  <2>1. 1..0 = {}
    OBVIOUS
  <2> QED
    BY <2>1 DEF ItemsIn
<1> QED
  BY <1>1, DocsAreItems, FS_EmptySet

\* Two disjoint finite sets are counted one after the other.
LEMMA CountBoth ==
  ASSUME NEW S, NEW T, IsFiniteSet(S), IsFiniteSet(T), S \cap T = {}
  PROVE  IsFiniteSet(S \cup T) /\ Cardinality(S \cup T) = Cardinality(S) + Cardinality(T)
<1>1. Cardinality(S) \in Nat /\ Cardinality(T) \in Nat
  BY FS_CardinalityType
<1> QED
  BY <1>1, FS_Union, FS_EmptySet

\* A column of pairs is counted as its second parts are.
LEMMA ColumnCount ==
  ASSUME NEW n, NEW S, IsFiniteSet(S)
  PROVE  IsFiniteSet({n} \X S) /\ Cardinality({n} \X S) = Cardinality(S)
<1>1. IsFiniteSet({n}) /\ Cardinality({n}) = 1 /\ Cardinality(S) \in Nat
  BY FS_Singleton, FS_CardinalityType
<1> QED
  BY <1>1, FS_Product

\* One checkpoint more: its documents are added.
LEMMA DocsStep ==
  ASSUME NEW list, NEW n \in Nat \ {0}
  PROVE  DocsIn(list, n) = DocsIn(list, n - 1) + NumDocs(list[n])
<1> DEFINE P == ItemsIn(list, n - 1, Keys)
           Q == {n} \X Docs(list[n])
<1>1. n - 1 \in Int /\ IsFiniteSet(P)
  BY ItemsFinite DEF AllKeys
<1>2. IsFiniteSet(Docs(list[n]))
  BY KeysAssumption, FS_Subset DEF Docs
<1>3. IsFiniteSet(Q) /\ Cardinality(Q) = NumDocs(list[n])
  BY <1>2, ColumnCount DEF NumDocs
<1>4. P \cap Q = {}
  BY DEF ItemsIn
<1>5. ItemsIn(list, n, Keys) = P \cup Q
  <2>1. 1..n = (1..(n - 1)) \cup {n}
    OBVIOUS
  <2> QED
    BY <2>1 DEF ItemsIn, Docs
<1> QED
  BY <1>1, <1>3, <1>4, <1>5, CountBoth, DocsAreItems

\* Pairs are as many as before when their first parts are shifted.
LEMMA ShiftCount ==
  ASSUME NEW S, NEW K, S \subseteq Int \X K, IsFiniteSet(S), NEW r \in Int
  PROVE  /\ IsFiniteSet({<<d[1] - r, d[2]>> : d \in S})
         /\ Cardinality({<<d[1] - r, d[2]>> : d \in S}) = Cardinality(S)
<1> DEFINE T == {<<d[1] - r, d[2]>> : d \in S}
           f == [d \in S |-> <<d[1] - r, d[2]>>]
<1>1. f \in [S -> T] /\ \A t \in T : \E d \in S : f[d] = t
  OBVIOUS
<1>2. ASSUME NEW a \in S, NEW b \in S, f[a] = f[b]
      PROVE  a = b
  <2>1. a[1] \in Int /\ b[1] \in Int /\ a = <<a[1], a[2]>> /\ b = <<b[1], b[2]>>
    OBVIOUS
  <2>2. a[1] - r = b[1] - r /\ a[2] = b[2]
    BY <1>2
  <2>3. a[1] = b[1]
    BY <2>1, <2>2
  <2> QED
    BY <2>1, <2>2, <2>3
<1>3. f \in Bijection(S, T)
  <2>1. f \in Injection(S, T)
    BY <1>1, <1>2 DEF Injection, IsInjective
  <2>2. f \in Surjection(S, T)
    BY <1>1 DEF Surjection
  <2> QED
    BY <2>1, <2>2 DEF Bijection
<1>4. ExistsBijection(S, T)
  BY <1>3 DEF ExistsBijection
<1> QED
  BY <1>4, FS_Bijection

-----------------------------------------------------------------------------
(***************************************************************************)
(* The operators that numItems is updated by.                              *)
(***************************************************************************)

\* Documents, start and end items, in the list.
Items(m) == DocsIn(m.list, Len(m.list)) + 2 * Len(m.list) - (IF LastChk(m).open THEN 1 ELSE 0)

\* numItems counts them.
Counted(m) == m.numItems = Items(m)

\* The items of the last checkpoint are counted apart.
LEMMA LastApart ==
  ASSUME NEW m, Len(m.list) \in Nat \ {0}
  PROVE  /\ DocsIn(m.list, Len(m.list)) = DocsIn(m.list, Len(m.list) - 1) + NumDocs(LastChk(m))
         /\ DocsIn(m.list, Len(m.list)) \in Nat /\ DocsIn(m.list, Len(m.list) - 1) \in Nat
         /\ NumDocs(LastChk(m)) \in Nat
BY DocsStep, DocsInNat, NumDocsNat DEF LastChk

\* The count stays with the items.
LEMMA CountedSame ==
  ASSUME NEW m, NEW q, Len(m.list) \in Nat \ {0}, SameMids(m, q), q.numItems = m.numItems,
         Counted(m)
  PROVE  Counted(q)
<1>1. /\ Len(q.list) = Len(m.list) /\ Len(m.list) \in 1..Len(m.list)
      /\ \A i \in 1..Len(m.list) : /\ q.list[i].mid = m.list[i].mid
                                   /\ q.list[i].open = m.list[i].open
  BY DEF SameMids
<1>2. LastChk(q).open = LastChk(m).open
  BY <1>1 DEF LastChk
<1>3. DocsIn(q.list, Len(m.list)) = DocsIn(m.list, Len(m.list))
  BY <1>1, DocsSame
<1> QED
  BY <1>1, <1>2, <1>3 DEF Counted, Items

\* One document more in the last checkpoint, or an old one moved to its tail.
LEMMA DocsQueued ==
  ASSUME NEW m, ManagerOK(m), NEW k \in AllKeys \ {Dummy}, NEW q, ItemQueued(m, k, q),
         q.mutationCounter # 0
  PROVE  DocsIn(q.list, Len(m.list)) =
           DocsIn(m.list, Len(m.list)) + (IF k \in Keys /\ LastChk(m).mid[k] = 0 THEN 1 ELSE 0)
<1> DEFINE n == Len(m.list)
<1>1. /\ n \in Nat \ {0} /\ LastChk(m) = m.list[n] /\ n - 1 \in Int
      /\ \A j \in AllKeys : m.list[n].mid[j] \in Nat
  BY Parts
<1>2. /\ \A i \in 1..n : i # n => q.list[i] = m.list[i]
      /\ \A j \in AllKeys : q.list[n].mid[j] = IF j = k THEN q.mutationCounter
                                               ELSE m.list[n].mid[j]
  BY DEF ItemQueued
<1>3. /\ DocsIn(q.list, n) = DocsIn(q.list, n - 1) + NumDocs(q.list[n])
      /\ DocsIn(m.list, n) = DocsIn(m.list, n - 1) + NumDocs(m.list[n])
  BY <1>1, DocsStep
<1>4. DocsIn(q.list, n - 1) = DocsIn(m.list, n - 1)
  <2>1. \A i \in 1..(n - 1) : q.list[i].mid = m.list[i].mid
    BY <1>1, <1>2
  <2> QED
    BY <1>1, <2>1, DocsSame
<1>5. DocsIn(m.list, n - 1) \in Nat /\ NumDocs(m.list[n]) \in Nat
  BY <1>1, DocsInNat, NumDocsNat
<1>6. IsFiniteSet(Docs(m.list[n]))
  BY KeysAssumption, FS_Subset DEF Docs
<1>7. CASE k \in Keys /\ LastChk(m).mid[k] = 0
  <2>1. Docs(q.list[n]) = Docs(m.list[n]) \cup {k} /\ k \notin Docs(m.list[n])
    BY <1>1, <1>2, <1>7 DEF Docs, AllKeys
  <2>2. NumDocs(q.list[n]) = NumDocs(m.list[n]) + 1
    BY <1>6, <2>1, FS_AddElement DEF NumDocs
  <2> QED
    BY <1>3, <1>4, <1>5, <1>7, <2>2
<1>8. CASE ~(k \in Keys /\ LastChk(m).mid[k] = 0)
  <2>1. Docs(q.list[n]) = Docs(m.list[n])
    BY <1>1, <1>2, <1>8 DEF Docs, AllKeys
  <2>2. NumDocs(q.list[n]) = NumDocs(m.list[n])
    BY <2>1 DEF NumDocs
  <2> QED
    BY <1>3, <1>4, <1>5, <1>8, <2>2
<1> QED
  BY <1>7, <1>8

\* An item is queued: numItems is raised by the caller if it is new.
LEMMA QueueItemCount ==
  ASSUME NEW m, ManagerOK(m), NEW k
  PROVE  QueueItem(m, k).numItems = m.numItems
BY Parts DEF QueueItem, Record

\* The end item is counted when the checkpoint is closed.
LEMMA CloseOpenCount ==
  ASSUME NEW m, ManagerOK(m), Counted(m), NEW id
  PROVE  Counted(CloseOpenCheckpoint(m, id))
<1> DEFINE z == CloseOpenCheckpoint(m, id)
           n == Len(m.list)
<1>1. SUFFICES ASSUME id = LastChk(m).id, LastChk(m).open
               PROVE  Counted(z)
  BY DEF CloseOpenCheckpoint
<1>2. ManagerOK(z) /\ IsClosed(m, z)
  BY <1>1, CloseOpenOK, CloseOpenEffect
<1>3. n \in Nat \ {0} /\ m.mutationCounter \in Nat /\ Len(z.list) = n
  BY <1>2, Parts DEF IsClosed, ItemQueued
<1>4. z.numItems = m.numItems + 1
  <2>1. ManagerOK(QueueItem(m, End)) /\ QueueItem(m, End).numItems = m.numItems
    BY QueueItemOK, QueueItemCount, MetaKeysDiffer DEF MetaFact
  <2>2. QueueItem(m, End) \in Record(Len(QueueItem(m, End).list))
    BY <2>1, Parts
  <2> QED
    BY <1>1, <2>1, <2>2 DEF CloseOpenCheckpoint, Record
<1> HIDE DEF z
<1>5. End \in AllKeys \ {Dummy} /\ End \notin Keys
  BY MetaKeysDiffer DEF MetaFact
<1>6. DocsIn(z.list, n) = DocsIn(m.list, n)
  <2>1. ItemQueued(m, End, z) /\ z.mutationCounter # 0
    BY <1>2, <1>3 DEF IsClosed, ItemQueued
  <2>2. DocsIn(z.list, n) = DocsIn(m.list, n) + 0
    BY <1>5, <2>1, DocsQueued
  <2> QED
    BY <1>3, <2>2, DocsInNat
<1>7. ~LastChk(z).open
  BY <1>2, <1>3 DEF IsClosed, LastChk
<1>8. DocsIn(m.list, n) \in Nat
  BY <1>3, DocsInNat
<1> QED
  BY <1>1, <1>3, <1>4, <1>6, <1>7, <1>8 DEF Counted, Items

\* A new checkpoint has its start item only, and comes after one that is closed.
LEMMA AppendedCount ==
  ASSUME NEW m, ManagerOK(m), Counted(m), ~LastChk(m).open, NEW id \in Nat
  PROVE  Counted(Appended(m, id))
<1> DEFINE q == Appended(m, id)
           n == Len(m.list)
<1>1. n \in Nat \ {0} /\ n + 1 \in Nat \ {0} /\ n + 1 - 1 = n
  BY Parts
<1>2. q.numItems = m.numItems + 1
  BY Parts DEF Appended, Record
<1>3. IsAppended(m, id, q)
  BY AppendedEffect
<1> HIDE DEF q
<1>4. /\ Len(q.list) = n + 1 /\ q.list[n + 1].open
      /\ \A i \in 1..n : q.list[i] = m.list[i]
  BY <1>3 DEF IsAppended
<1>5. NumDocs(q.list[n + 1]) = 0
  <2>1. \A k \in Keys : q.list[n + 1].mid[k] = 0
    BY <1>3, MetaKeysDiffer DEF IsAppended, AllKeys, MetaFact
  <2>2. Docs(q.list[n + 1]) = {}
    BY <2>1 DEF Docs
  <2> QED
    BY <2>2, FS_EmptySet DEF NumDocs
<1>6. DocsIn(q.list, n) = DocsIn(m.list, n) /\ DocsIn(m.list, n) \in Nat
  BY <1>1, <1>4, DocsSame, DocsInNat
<1>7. DocsIn(q.list, n + 1) = DocsIn(m.list, n)
  <2>1. DocsIn(q.list, n + 1) = DocsIn(q.list, n + 1 - 1) + NumDocs(q.list[n + 1])
    BY <1>1, DocsStep
  <2> QED
    BY <1>1, <1>5, <1>6, <2>1
<1>8. LastChk(q).open
  BY <1>4 DEF LastChk
<1>9. Items(q) = DocsIn(m.list, n) + 2 * (n + 1) - 1
  BY <1>4, <1>7, <1>8 DEF Items
<1>10. m.numItems = DocsIn(m.list, n) + 2 * n - 0
  BY DEF Counted, Items
<1> QED
  BY <1>1, <1>2, <1>6, <1>9, <1>10 DEF Counted, q

\* moveCursorToNextCheckpoint counts nothing.
LEMMA MoveCursorCount ==
  ASSUME NEW m, ManagerOK(m), NEW c
  PROVE  MoveCursorToNextCheckpoint(m, c).numItems = m.numItems
BY Parts DEF MoveCursorToNextCheckpoint, Record

\* A new checkpoint leaves the persistence cursor's side of the count alone.
LEMMA AdvanceCount ==
  ASSUME NEW m, ManagerOK(m)
  PROVE  AdvancePersistenceCursor(m).numItems = m.numItems
<1> DEFINE c == Persistence
           skip == ~AtEnd(m, c) /\ NextKey(ChkOf(m, c), m.cursor[c].pos) = End
           mm == IF skip THEN [m EXCEPT !.cursor[c].pos = End, !.cursor[c].offset = @ + 1]
                         ELSE m
           y == MoveCursorToNextCheckpoint(mm, c)
           q == AdvancePersistenceCursor(m)
<1>1. q = IF AtEnd(mm, c) /\ CanMoveNext(mm, c)
          THEN [y EXCEPT !.preChkId = ChkOf(mm, c).id] ELSE mm
  BY DEF AdvancePersistenceCursor
<1>2. /\ m \in Record(Len(m.list)) /\ m.cursor \in [Names -> Cursor]
      /\ m.cursor[c] \in Cursor /\ c \in Names
  BY Parts, MetaKeysDiffer DEF MetaFact
<1>3. mm.numItems = m.numItems /\ mm \in Record(Len(m.list))
  <2>1. [m EXCEPT !.cursor[c].pos = End, !.cursor[c].offset = @ + 1]
          = Placed(m, c, End, m.cursor[c].offset + 1)
    BY <1>2 DEF Placed, Record, Cursor
  <2>2. c \in Names /\ End \in AllKeys /\ m.cursor[c].offset + 1 \in Int
    BY <1>2, MetaKeysDiffer DEF Cursor, MetaFact
  <2>3. [m.cursor[c] EXCEPT !.pos = End, !.offset = m.cursor[c].offset + 1] \in Cursor
    BY <1>2, <2>2 DEF Cursor
  <2>4. /\ Placed(m, c, End, m.cursor[c].offset + 1).numItems = m.numItems
        /\ Placed(m, c, End, m.cursor[c].offset + 1) \in Record(Len(m.list))
    BY <1>2, <2>2, <2>3 DEF Placed, Record
  <2> QED
    BY <1>2, <2>1, <2>4
<1> HIDE DEF mm, q, skip
<1>4. y.numItems = mm.numItems /\ [y EXCEPT !.preChkId = ChkOf(mm, c).id].numItems = y.numItems
  BY <1>3 DEF MoveCursorToNextCheckpoint, Record
<1> QED
  BY <1>1, <1>3, <1>4 DEF q

\* addNewCheckpoint_UNLOCKED.
LEMMA AddNewCount ==
  ASSUME NEW m, ManagerOK(m), Counted(m), NEW id \in Nat
  PROVE  Counted(AddNewCheckpoint(m, id))
<1> DEFINE a == CloseOpenCheckpoint(m, LastChk(m).id)
           b == Appended(a, id)
           q == AdvancePersistenceCursor(b)
<1>1. /\ ManagerOK(a) /\ Counted(a)
      /\ IF LastChk(m).open THEN IsClosed(m, a) ELSE a = m
  BY CloseOpenOK, CloseOpenEffect, CloseOpenCount
<1>2. ~LastChk(a).open
  <2>1. IsClosed(m, a) => Len(a.list) = Len(m.list) /\ ~a.list[Len(m.list)].open
    BY DEF IsClosed, ItemQueued
  <2> QED
    BY <1>1, <2>1 DEF LastChk
<1>3. AddNewCheckpoint(m, id) = q
  BY DEF AddNewCheckpoint, Appended
<1> HIDE DEF a
<1>4. ManagerOK(b) /\ Counted(b)
  BY <1>1, <1>2, AppendedOK, AppendedCount
<1> HIDE DEF b
<1>5. q.numItems = b.numItems /\ SameMids(b, q) /\ Len(b.list) \in Nat \ {0}
  BY <1>4, AdvanceCount, AdvanceEffect, Parts DEF IsAdvanced
<1> HIDE DEF q
<1>6. Counted(q)
  BY <1>4, <1>5, CountedSame
<1> QED
  BY <1>3, <1>6

\* checkOpenCheckpoint_UNLOCKED.
LEMMA CheckOpenCount ==
  ASSUME NEW m, ManagerOK(m), Counted(m), NEW force, NEW timeUp
  PROVE  Counted(CheckOpenCheckpoint(m, force, timeUp))
<1>1. LastChk(m).id + 1 \in Nat
  BY LastFacts
<1> QED
  BY <1>1, AddNewCount DEF CheckOpenCheckpoint

\* Cursors that go on to the new checkpoint.
LEMMA MoveFinishedCount ==
  ASSUME NEW m, ManagerOK(m), Counted(m), NEW oldId
  PROVE  Counted(MoveFinishedCursors(m, oldId))
<1> DEFINE q == MoveFinishedCursors(m, oldId)
<1>1. q.numItems = m.numItems
  BY Parts DEF MoveFinishedCursors, Record
<1>2. SameMids(m, q) /\ Len(m.list) \in Nat \ {0}
  BY MoveFinishedEffect, Parts DEF HaveMovedOn
<1> HIDE DEF q
<1>3. Counted(q)
  BY <1>1, <1>2, CountedSame
<1> QED
  BY <1>3 DEF q

\* The other list is what follows the first r checkpoints.
Follows(list, other, n, r) == \A i \in 1..(n - r) : other[i].mid = list[i + r].mid

\* The documents of a list are those of its first r checkpoints and of the others.
LEMMA DocsCut ==
  ASSUME NEW list, NEW other, NEW n \in Nat, NEW r \in Nat, r <= n,
         Follows(list, other, n, r)
  PROVE  DocsIn(list, n) = DocsIn(list, r) + DocsIn(other, n - r)
<1> DEFINE P == ItemsIn(list, r, Keys)
           A == ItemsIn(list, n, Keys)
           T == A \ P
           S == {<<d[1] - r, d[2]>> : d \in T}
           Q == ItemsIn(other, n - r, Keys)
<1>1. IsFiniteSet(P) /\ IsFiniteSet(A)
  BY ItemsFinite DEF AllKeys
<1>2. IsFiniteSet(T) /\ P \cap T = {} /\ A = P \cup T
  <2>1. P \subseteq A
    BY DEF ItemsIn
  <2> QED
    BY <1>1, <2>1, FS_Subset
<1>3. T = {d \in ((r + 1)..n) \X Keys : list[d[1]].mid[d[2]] # 0}
  BY DEF ItemsIn
<1>4. T \subseteq Int \X Keys
  BY <1>3
<1> HIDE DEF A, P, T
<1>5. Cardinality(S) = Cardinality(T)
  <2>1. r \in Int /\ IsFiniteSet(T)
    BY <1>2
  <2> QED
    BY <1>4, <2>1, ShiftCount, Zenon
<1>6. S = Q
  <2>1. ASSUME NEW d \in T
        PROVE  <<d[1] - r, d[2]>> \in Q
    <3>1. /\ d[1] \in (r + 1)..n /\ d[2] \in Keys /\ list[d[1]].mid[d[2]] # 0
      BY <1>3, <2>1
    <3>2. d[1] - r \in 1..(n - r) /\ (d[1] - r) + r = d[1]
      BY <3>1
    <3>3. other[d[1] - r].mid = list[d[1]].mid
      BY <3>2 DEF Follows
    <3> QED
      BY <3>1, <3>2, <3>3 DEF ItemsIn
  <2>2. ASSUME NEW e \in Q
        PROVE  e \in S
    <3>1. /\ e = <<e[1], e[2]>> /\ e[1] \in 1..(n - r) /\ e[2] \in Keys
          /\ other[e[1]].mid[e[2]] # 0
      BY <2>2 DEF ItemsIn
    <3>2. e[1] + r \in (r + 1)..n /\ (e[1] + r) - r = e[1]
      BY <3>1
    <3>3. list[e[1] + r].mid[e[2]] # 0
      BY <3>1 DEF Follows
    <3>4. <<e[1] + r, e[2]>> \in T
      BY <1>3, <3>1, <3>2, <3>3
    <3>5. e = <<<<e[1] + r, e[2]>>[1] - r, <<e[1] + r, e[2]>>[2]>>
      BY <3>1, <3>2
    <3> QED
      BY <3>4, <3>5
  <2> QED
    BY <2>1, <2>2
<1>7. Cardinality(A) = Cardinality(P) + Cardinality(T)
  BY <1>1, <1>2, CountBoth
<1> QED
  BY <1>5, <1>6, <1>7, DocsAreItems DEF A, P

\* What the scan takes off the list, it takes off the count.
LEMMA DropUnrefCount ==
  ASSUME NEW m, ManagerOK(m), Counted(m)
  PROVE  Counted(DropUnref(m))
<1> DEFINE q == DropUnref(m)
           n == Len(m.list)
           r == NumUnref(m)
<1>1. q.numItems = m.numItems - (DocsIn(m.list, r) + 2 * r)
  BY Parts DEF DropUnref, Record
<1>2. IsCut(m, r, q) /\ n \in Nat \ {0}
  BY DropUnrefEffect, Parts
<1> HIDE DEF q, r
<1>3. /\ r \in Nat /\ r < n /\ Len(q.list) = n - r
      /\ \A i \in 1..(n - r) : q.list[i].mid = m.list[i + r].mid
      /\ q.list[n - r].open = m.list[n].open
  <2>1. /\ r \in Nat /\ r < n /\ Len(q.list) = n - r
        /\ \A i \in 1..(n - r) : /\ q.list[i].mid = m.list[i + r].mid
                                 /\ q.list[i].open = m.list[i + r].open
    BY <1>2 DEF IsCut
  <2>2. n - r \in 1..(n - r) /\ (n - r) + r = n
    BY <1>2, <2>1
  <2> QED
    BY <2>1, <2>2
<1>4. DocsIn(m.list, n) = DocsIn(m.list, r) + DocsIn(q.list, n - r)
  <2>1. n \in Nat /\ r \in Nat /\ r <= n
    BY <1>2, <1>3
  <2>2. Follows(m.list, q.list, n, r)
    BY <1>3 DEF Follows
  <2> QED
    BY <2>1, <2>2, DocsCut
<1>5. /\ DocsIn(m.list, n) \in Nat /\ DocsIn(m.list, r) \in Nat
      /\ DocsIn(q.list, n - r) \in Nat
  BY <1>2, <1>3, DocsInNat
<1>6. LastChk(q).open = LastChk(m).open
  BY <1>3 DEF LastChk
<1>7. Items(q) = DocsIn(q.list, n - r) + 2 * (n - r) - (IF LastChk(m).open THEN 1 ELSE 0)
  BY <1>3, <1>6 DEF Items
<1>8. m.numItems = DocsIn(m.list, n) + 2 * n - (IF LastChk(m).open THEN 1 ELSE 0)
  BY DEF Counted, Items
<1> HIDE DEF n
<1>9. Counted(q)
  BY <1>1, <1>2, <1>3, <1>4, <1>5, <1>7, <1>8 DEF Counted
<1> QED
  BY <1>9 DEF q

\* Neither resetCursors nor setOpenCheckpointId touches the count.
LEMMA UntouchedCount ==
  ASSUME NEW m, "numItems" \in DOMAIN m, NEW id
  PROVE  ResetCursors(SetOpenCheckpointId(m, id)).numItems = m.numItems
<1>1. /\ "numItems" \in DOMAIN SetOpenCheckpointId(m, id)
      /\ SetOpenCheckpointId(m, id).numItems = m.numItems
  BY DEF SetOpenCheckpointId
<1>2. \A x : "numItems" \in DOMAIN x => ResetCursors(x).numItems = x.numItems
  BY DEF ResetCursors
<1> QED
  BY <1>1, <1>2

\* collapseClosedCheckpoints takes off the count what it merged away.
LEMMA CollapseCount ==
  ASSUME NEW m, ManagerOK(m), Counted(m)
  PROVE  Counted(CollapseClosed(m))
<1> DEFINE q == CollapseClosed(m)
           n == Len(m.list)
           t == n - 1
<1>1. n \in Nat \ {0} /\ LastChk(m) = m.list[n]
  BY Parts
<1>2. CASE n <= 2
  BY <1>2 DEF CollapseClosed
<1>3. CASE ~(n <= 2)
  <2>1. q.numItems = m.numItems - NumCollapsed(m.list, t)
    BY <1>3, Parts DEF CollapseClosed, Record
  <2>2. IsCollapsed(m, q)
    BY <1>1, <1>3, CollapseEffect
  <2> HIDE DEF q
  <2>3. /\ Len(q.list) = 2 /\ q.list[1].mid = MergedMid(m.list, t) /\ q.list[2] = m.list[n]
    BY <2>2 DEF IsCollapsed
  <2>4. DocsIn(q.list, 2) = NumDocs(q.list[1]) + NumDocs(q.list[2])
    <3>1. /\ DocsIn(q.list, 2) = DocsIn(q.list, 2 - 1) + NumDocs(q.list[2])
          /\ DocsIn(q.list, 1) = DocsIn(q.list, 1 - 1) + NumDocs(q.list[1])
      BY DocsStep
    <3>2. 2 - 1 = 1 /\ 1 - 1 = 0
      OBVIOUS
    <3> QED
      BY <3>1, <3>2, NoDocs, NumDocsNat
  <2>5. DocsIn(m.list, n) = DocsIn(m.list, t) + NumDocs(m.list[n])
    BY <1>1, DocsStep
  <2>6. NumDocs(q.list[1]) = NumDocs([mid |-> MergedMid(m.list, t)])
    BY <2>3 DEF NumDocs, Docs
  <2>7. /\ DocsIn(m.list, t) \in Nat /\ NumDocs(m.list[n]) \in Nat
        /\ NumDocs([mid |-> MergedMid(m.list, t)]) \in Nat
    BY <1>1, DocsInNat, NumDocsNat
  <2>8. Items(q) = DocsIn(q.list, 2) + 2 * 2 - (IF m.list[n].open THEN 1 ELSE 0)
    BY <2>3 DEF Items, LastChk
  <2>9. m.numItems = DocsIn(m.list, n) + 2 * n - (IF m.list[n].open THEN 1 ELSE 0)
    BY <1>1 DEF Counted, Items
  <2>10. q.numItems = m.numItems - (DocsIn(m.list, t) - NumDocs([mid |-> MergedMid(m.list, t)])
                                      + 2 * (t - 1))
    BY <2>1 DEF NumCollapsed
  <2> HIDE DEF n
  <2>11. q.numItems = Items(q)
    BY <1>1, <2>3, <2>4, <2>5, <2>6, <2>7, <2>8, <2>9, <2>10
  <2> QED
    BY <2>11 DEF Counted, q
<1> QED
  BY <1>2, <1>3

\* resetCursors and setOpenCheckpointId count nothing.
LEMMA ResetSetCount ==
  ASSUME NEW m, ShapeOK(m)
  PROVE  /\ ResetCursors(m).numItems = m.numItems
         /\ \A id \in Nat : SetOpenCheckpointId(m, id).numItems = m.numItems
         /\ Counted(m) => /\ Counted(ResetCursors(m))
                          /\ \A id \in Nat : Counted(SetOpenCheckpointId(m, id))
<1>1. Len(m.list) \in Nat \ {0} /\ m \in Record(Len(m.list))
  BY ShapeFacts
<1>2. ResetCursors(m).numItems = m.numItems
  BY <1>1 DEF ResetCursors, Record
<1>3. \A id \in Nat : SetOpenCheckpointId(m, id).numItems = m.numItems
  BY <1>1 DEF SetOpenCheckpointId, Record
<1>4. SameMids(m, ResetCursors(m))
  BY ResetCursorsEffect DEF IsReset
<1>5. \A id \in Nat : SameMids(m, SetOpenCheckpointId(m, id))
  BY SetOpenIdEffect DEF IdIsSet
<1> QED
  BY <1>1, <1>2, <1>3, <1>4, <1>5, CountedSame

\* A rollback takes off the count what it merged away, and the last end item.
LEMMA RollbackCount ==
  ASSUME NEW m, ManagerOK(m), Counted(m), NEW id \in Nat
  PROVE  Counted(Rollback(m, id))
<1> DEFINE n == Len(m.list)
           back == LastChk(m)
           one == [back EXCEPT !.mid = [MergedMid(m.list, n) EXCEPT ![End] = 0], !.open = TRUE]
           items == m.numItems - NumCollapsed(m.list, n) - (IF back.open THEN 0 ELSE 1)
           z == Rebuilt(m, <<one>>, m.cursor, items, m.mutationCounter)
           q == Rollback(m, id)
<1>1. n \in Nat \ {0} /\ m \in Record(n) /\ back = m.list[n] /\ m.numItems \in Int
  BY Parts DEF Record
<1>2. q = ResetCursors(SetOpenCheckpointId(z, id)) /\ z.numItems = items
  <2>1. z = [m EXCEPT !.list = <<one>>, !.numItems = items]
    BY <1>1 DEF Rebuilt, Record
  <2>2. items = m.numItems - NumCollapsed(m.list, n) - (IF back.open THEN 0 ELSE 1)
    OBVIOUS
  <2>3. z.numItems = items
    BY <1>1 DEF Rebuilt, Record
  <2> HIDE DEF z, items
  <2> QED
    BY <2>1, <2>2, <2>3 DEF Rollback
<1>3. z.list = <<one>>
  BY <1>1 DEF Rebuilt, Record
<1>4. IsRolledBack(m, id, q)
  BY RollbackEffect
<1>5. q.numItems = items
  <2>1. "numItems" \in DOMAIN z
    BY <1>1 DEF Rebuilt, Record
  <2> HIDE DEF z, items
  <2> QED
    BY <1>2, <2>1, UntouchedCount
<1> HIDE DEF z, q, one
<1>6. /\ Len(q.list) = 1 /\ q.list[1].open
      /\ \A k \in AllKeys : q.list[1].mid[k] = IF k = End THEN 0 ELSE MergedMid(m.list, n)[k]
  BY <1>4 DEF IsRolledBack
<1>7. NumDocs(q.list[1]) = NumDocs([mid |-> MergedMid(m.list, n)])
  <2>1. \A k \in Keys : q.list[1].mid[k] = MergedMid(m.list, n)[k]
    BY <1>6, MetaKeysDiffer DEF MetaFact, AllKeys
  <2>2. Docs(q.list[1]) = Docs([mid |-> MergedMid(m.list, n)])
    BY <2>1 DEF Docs
  <2> QED
    BY <2>2 DEF NumDocs
<1>8. DocsIn(q.list, 1) = NumDocs(q.list[1])
  <2>1. DocsIn(q.list, 1) = DocsIn(q.list, 1 - 1) + NumDocs(q.list[1]) /\ 1 - 1 = 0
    BY DocsStep
  <2> QED
    BY <2>1, NoDocs, NumDocsNat
<1>9. DocsIn(m.list, n) \in Nat /\ NumDocs([mid |-> MergedMid(m.list, n)]) \in Nat
  BY <1>1, DocsInNat, NumDocsNat
<1>10. Items(q) = DocsIn(q.list, 1) + 2 * 1 - 1
  BY <1>6 DEF Items, LastChk
<1>11. m.numItems = DocsIn(m.list, n) + 2 * n - (IF back.open THEN 1 ELSE 0)
  BY DEF Counted, Items
<1>12. q.numItems = m.numItems - (DocsIn(m.list, n) - NumDocs([mid |-> MergedMid(m.list, n)])
                                    + 2 * (n - 1)) - (IF back.open THEN 0 ELSE 1)
  BY <1>5 DEF NumCollapsed
<1> HIDE DEF n, back
<1>13. q.numItems = Items(q)
  BY <1>1, <1>7, <1>8, <1>9, <1>10, <1>11, <1>12
<1> QED
  BY <1>13 DEF Counted, q
-----------------------------------------------------------------------------
(***************************************************************************)
(* The operations that are composed of these, and those of cursors.        *)
(***************************************************************************)

\* registerTAPCursor counts nothing, it reads the count.
LEMMA RegisterCount ==
  ASSUME NEW m, ManagerOK(m), Counted(m), NEW c \in Names, NEW id, NEW closedOnly \in BOOLEAN,
         NEW fromBeginning,
         KeepsPosition(m, c, id, fromBeginning) => m.cursor[c].chk = ChkWithId(m, id)
  PROVE  Counted(RegisterCursor(m, c, id, closedOnly, fromBeginning))
<1> DEFINE q == RegisterCursor(m, c, id, closedOnly, fromBeginning)
<1>1. Len(m.list) \in Nat \ {0} /\ q.numItems = m.numItems
  BY Parts DEF RegisterCursor, Record
<1>2. IsRegistered(m, c, ChkWithId(m, id), q)
  BY RegisterCursorEffect
<1> HIDE DEF q
<1>3. Counted(q)
  BY <1>1, <1>2, CountedSame DEF IsRegistered
<1> QED
  BY <1>3 DEF q

\* removeTAPCursor.
LEMMA RemoveCount ==
  ASSUME NEW m, ManagerOK(m), Counted(m), NEW c \in Names, c # Persistence
  PROVE  Counted(RemoveCursor(m, c))
<1> DEFINE q == RemoveCursor(m, c)
<1>1. Len(m.list) \in Nat \ {0} /\ q.numItems = m.numItems
  BY Parts DEF RemoveCursor, Record
<1>2. SameMids(m, q)
  BY RemoveCursorEffect DEF IsRemoved
<1> HIDE DEF q
<1>3. Counted(q)
  BY <1>1, <1>2, CountedSame
<1> QED
  BY <1>3 DEF q

\* getAllItemsForPersistence.
LEMMA TakeAllCount ==
  ASSUME NEW m, ManagerOK(m), Counted(m)
  PROVE  Counted(TakeAllForPersistence(m))
<1> DEFINE q == TakeAllForPersistence(m)
<1>1. Len(m.list) \in Nat \ {0} /\ q.numItems = m.numItems
  BY Parts DEF TakeAllForPersistence, Record
<1>2. SameMids(m, q)
  BY TakeAllEffect DEF IsTaken
<1> HIDE DEF q
<1>3. Counted(q)
  BY <1>1, <1>2, CountedSame
<1> QED
  BY <1>3 DEF q

\* A list that stays is counted as before.
LEMMA CountedHere ==
  ASSUME NEW m, NEW q, q.list = m.list, q.numItems = m.numItems, Counted(m)
  PROVE  Counted(q)
BY DEF Counted, Items, LastChk

\* The cursor moves, the list stays.
LEMMA StepCount ==
  ASSUME NEW m, ManagerOK(m), Counted(m), NEW c \in Names
  PROVE  Counted(StepCursor(m, c)) /\ Counted(DecrTapCursorFromCheckpointEnd(m, c))
<1>1. m \in Record(Len(m.list))
  BY Parts
<1>2. StepCursor(m, c).list = m.list /\ StepCursor(m, c).numItems = m.numItems
  BY <1>1 DEF StepCursor, Record
<1>3. /\ DecrTapCursorFromCheckpointEnd(m, c).list = m.list
      /\ DecrTapCursorFromCheckpointEnd(m, c).numItems = m.numItems
  BY <1>1 DEF DecrTapCursorFromCheckpointEnd, Record
<1> QED
  BY <1>2, <1>3, CountedHere

\* nextItem.
LEMMA AdvanceTapCount ==
  ASSUME NEW m, ManagerOK(m), Counted(m), NEW c \in Names
  PROVE  Counted(AdvanceTapCursor(m, c))
<1> DEFINE q == AdvanceTapCursor(m, c)
           y == MoveCursorToNextCheckpoint(m, c)
<1>1. \/ q = m \/ q = StepCursor(m, c)
      \/ c \in Registered(m) /\ CanMoveNext(m, c) /\ (q = y \/ q = StepCursor(y, c))
  BY DEF AdvanceTapCursor, NextFromOpen, NextFromClosed, Registered
<1>2. ASSUME c \in Registered(m), CanMoveNext(m, c)
      PROVE  ManagerOK(y) /\ Counted(y)
  <2>1. ManagerOK(y) /\ MovedOn(m, c, y) /\ y.numItems = m.numItems
    BY <1>2, MoveCursorOK, MoveCursorEffect, MoveCursorCount
  <2> HIDE DEF y
  <2> QED
    BY <2>1, Parts, CountedSame DEF MovedOn
<1> HIDE DEF q, y
<1>3. Counted(q)
  BY <1>1, <1>2, StepCount
<1> QED
  BY <1>3 DEF q

\* removeClosedUnrefCheckpoints.
LEMMA RemoveUnrefCount ==
  ASSUME NEW m, ManagerOK(m), Counted(m), NEW forced, NEW memHigh, NEW timeUp
  PROVE  Counted(RemoveClosedUnref(m, forced, memHigh, timeUp))
<1> DEFINE q == RemoveClosedUnref(m, forced, memHigh, timeUp)
           force  == /\ forced /\ memHigh
                     /\ Cardinality(Registered(m)) = Cardinality(LastChk(m).cursors)
           create == /\ IsMaster /\ CanCreateNewCheckpoint(m)
                     /\ NeedsNewCheckpoint(m, force, timeUp)
           oldId  == LastChk(m).id
           x == CheckOpenCheckpoint(m, force, timeUp)
           y == IF ~create THEN m ELSE IF oldId = 0 THEN x ELSE MoveFinishedCursors(x, oldId)
           z == DropUnref(y)
<1>1. q = y \/ q = z \/ q = CollapseClosed(z)
  BY DEF RemoveClosedUnref
<1>2. ManagerOK(x) /\ Counted(x)
  BY CheckOpenCheckpointOK, CheckOpenCount
<1> HIDE DEF q, x
<1>3. ManagerOK(MoveFinishedCursors(x, oldId)) /\ Counted(MoveFinishedCursors(x, oldId))
  BY <1>2, MoveFinishedCursorsOK, MoveFinishedCount
<1> HIDE DEF create, oldId
<1>4. ManagerOK(y) /\ Counted(y)
  BY <1>2, <1>3
<1> HIDE DEF y
<1>5. ManagerOK(z) /\ Counted(z)
  BY <1>4, DropUnrefOK, DropUnrefCount
<1> HIDE DEF z
<1>6. Counted(CollapseClosed(z))
  BY <1>5, CollapseCount
<1>7. Counted(q)
  BY <1>1, <1>4, <1>5, <1>6
<1> QED
  BY <1>7 DEF q

\* checkAndAddNewCheckpoint.
LEMMA CheckAndAddCount ==
  ASSUME NEW m, ManagerOK(m), Counted(m), NEW id \in Nat
  PROVE  Counted(CheckAndAddNewCheckpoint(m, id))
<1> DEFINE gap == LastChk(m).id + 1 < id
           closed == IF gap THEN OpenId(m) - 1 ELSE 0
           z == [m EXCEPT !.collapsed = gap, !.lastClosedId = closed]
           q == CheckAndAddNewCheckpoint(m, id)
<1>1. ShapeOK(m) /\ m \in Record(Len(m.list)) /\ OpenId(m) \in Nat
  BY ShapeFacts, LastFacts DEF ManagerOK
<1>2. OnlyCounters(m, z) /\ z.numItems = m.numItems
  <2>1. gap \in BOOLEAN /\ closed \in Int
    BY <1>1
  <2> HIDE DEF gap, closed
  <2>2. z \in Record(Len(m.list))
    BY <1>1, <2>1 DEF Record
  <2>3. /\ z.list = m.list /\ z.cursor = m.cursor /\ z.mutationCounter = m.mutationCounter
        /\ z.numItems = m.numItems
    BY <1>1 DEF Record
  <2> HIDE DEF z
  <2> QED
    BY <2>2, <2>3 DEF OnlyCounters
<1>3. q = IF id = 0 THEN m
          ELSE IF LastChk(m).id = 0 THEN ResetCursors(SetOpenCheckpointId(m, id))
          ELSE IF IsOld(m, id) THEN Rollback(m, id)
          ELSE IF LastChk(m).open /\ NumDocs(LastChk(m)) = 0 THEN Renumber(z, id)
          ELSE AddNewCheckpoint(z, id)
  BY DEF CheckAndAddNewCheckpoint
<1> HIDE DEF z, q
<1>4. ManagerOK(z) /\ Counted(z)
  BY <1>1, <1>2, SameCursors, CountedHere DEF OnlyCounters
<1>5. Counted(ResetCursors(SetOpenCheckpointId(m, id)))
  <2>1. ShapeOK(SetOpenCheckpointId(m, id)) /\ Counted(SetOpenCheckpointId(m, id))
    BY <1>1, SetOpenIdOK, ResetSetCount
  <2> QED
    BY <2>1, ResetSetCount
<1>6. Counted(Renumber(z, id))
  <2>1. SameMids(z, Renumber(z, id)) /\ Len(z.list) \in Nat \ {0}
    BY <1>4, RenumberEffect, Parts DEF IsRenumbered
  <2>2. Renumber(z, id).numItems = z.numItems
    BY <1>4, Parts DEF Renumber, SetOpenCheckpointId, Record
  <2> QED
    BY <1>4, <2>1, <2>2, CountedSame
<1>7. Counted(Rollback(m, id)) /\ Counted(AddNewCheckpoint(z, id))
  BY <1>4, RollbackCount, AddNewCount
<1>8. Counted(q)
  BY <1>3, <1>5, <1>6, <1>7
<1> QED
  BY <1>8 DEF q

\* An empty manager counts its start item.
LEMMA FreshCount ==
  ASSUME NEW q, NEW id, NEW names, IsFresh(q, id, names), q.numItems = 1
  PROVE  Counted(q)
<1>1. /\ Len(q.list) = 1 /\ q.list[1].open
      /\ \A k \in Keys : q.list[1].mid[k] = 0
  BY MetaKeysDiffer DEF IsFresh, MetaFact, AllKeys
<1>2. NumDocs(q.list[1]) = 0
  <2>1. Docs(q.list[1]) = {}
    BY <1>1 DEF Docs
  <2> QED
    BY <2>1, FS_EmptySet DEF NumDocs
<1>3. DocsIn(q.list, 1) = 0
  <2>1. DocsIn(q.list, 1) = DocsIn(q.list, 1 - 1) + NumDocs(q.list[1]) /\ 1 - 1 = 0
    BY DocsStep
  <2> QED
    BY <1>2, <2>1, NoDocs
<1>4. Items(q) = 0 + 2 * 1 - 1
  BY <1>1, <1>3 DEF Items, LastChk
<1> QED
  BY <1>4 DEF Counted
-----------------------------------------------------------------------------
(***************************************************************************)
(* The count is exact in every reachable state.                            *)
(***************************************************************************)

\* queueDirty raises the count for a new key.
LEMMA QueueDirtyCount ==
  ASSUME IInv, Counted(cm), NEW k \in Keys, QueueDirty(k)
  PROVE  Counted(cm')
<1>1. PICK timeUp \in BOOLEAN :
        LET m == BeforeQueueing(timeUp)
            q == QueueItem(m, k)
        IN LastChk(m).open /\ Becomes([q EXCEPT !.numItems =
                                IF LastChk(m).mid[k] = 0 THEN @ + 1 ELSE @])
  BY DEF QueueDirty
<1> DEFINE m == BeforeQueueing(timeUp)
           q == QueueItem(m, k)
           n == Len(m.list)
           items == IF LastChk(m).mid[k] = 0 THEN q.numItems + 1 ELSE q.numItems
           z == [q EXCEPT !.numItems = items]
<1>2. ManagerOK(m) /\ Counted(m)
  BY CheckOpenCheckpointOK, CheckOpenCount DEF IInv, BeforeQueueing
<1>3. cm' = z /\ LastChk(m).open
  BY <1>1 DEF Becomes
<1> HIDE DEF m
<1>4. k \in AllKeys \ {Dummy}
  BY MetaKeysDiffer DEF MetaFact
<1>5. /\ ManagerOK(q) /\ ItemQueued(m, k, q) /\ q.numItems = m.numItems
      /\ q.list[n].open = LastChk(m).open
  BY <1>2, <1>4, QueueItemOK, QueueItemEffect, QueueItemCount
<1>6. /\ n \in Nat \ {0} /\ q \in Record(Len(q.list)) /\ Len(q.list) = n
      /\ q.mutationCounter # 0
  <2> HIDE DEF q
  <2>1. n \in Nat \ {0} /\ m.mutationCounter \in Nat
    BY <1>2, Parts
  <2>2. q \in Record(Len(q.list))
    BY <1>5, Parts
  <2>3. Len(q.list) = n /\ q.mutationCounter = m.mutationCounter + 1
    BY <1>5 DEF ItemQueued
  <2> QED
    BY <2>1, <2>2, <2>3
<1>7. z.list = q.list /\ z.numItems = items
  BY <1>6 DEF Record
<1>8. DocsIn(q.list, n) = DocsIn(m.list, n) + (IF LastChk(m).mid[k] = 0 THEN 1 ELSE 0)
  BY <1>2, <1>4, <1>5, <1>6, DocsQueued
<1>9. DocsIn(m.list, n) \in Nat
  BY <1>6, DocsInNat
<1> HIDE DEF z, q
<1>10. LastChk(z).open
  BY <1>3, <1>5, <1>6, <1>7 DEF LastChk
<1>11. Items(z) = DocsIn(q.list, n) + 2 * n - 1
  BY <1>6, <1>7, <1>10 DEF Items
<1>12. m.numItems = DocsIn(m.list, n) + 2 * n - 1
  BY <1>2, <1>3 DEF Counted, Items
<1> HIDE DEF n
<1>13. z.numItems = Items(z)
  BY <1>5, <1>6, <1>7, <1>8, <1>9, <1>11, <1>12
<1> QED
  BY <1>3, <1>13 DEF Counted

\* The calls of a TAP connection.
LEMMA TapCount ==
  ASSUME IInv, Counted(cm), NEW t \in TapNames,
         NextItem(t) \/ WaitAtCheckpointEnd(t) \/ RegisterTAPCursor(t) \/ RemoveTAPCursor(t)
  PROVE  Counted(cm')
<1>1. ManagerOK(cm) /\ t \in Names /\ t # Persistence
  BY MetaKeysDiffer, NamesAssumption DEF IInv, MetaFact
<1>2. CASE NextItem(t)
  BY <1>1, <1>2, AdvanceTapCount DEF NextItem, Becomes
<1>3. CASE WaitAtCheckpointEnd(t)
  BY <1>1, <1>3, StepCount DEF WaitAtCheckpointEnd, Becomes
<1>4. CASE RegisterTAPCursor(t)
  <2>1. PICK id \in 1..(MaxCheckpointId + 1), fromBeginning \in BOOLEAN :
          /\ ~RegisterStrays(t, id, fromBeginning)
          /\ Becomes(RegisterCursor(cm, t, id, t \in BackupTaps, fromBeginning))
    BY <1>4 DEF RegisterTAPCursor
  <2> DEFINE closedOnly == t \in BackupTaps
  <2>2. closedOnly \in BOOLEAN /\ cm' = RegisterCursor(cm, t, id, closedOnly, fromBeginning)
    BY <2>1 DEF Becomes
  <2> HIDE DEF closedOnly
  <2>3. KeepsPosition(cm, t, id, fromBeginning) => cm.cursor[t].chk = ChkWithId(cm, id)
    BY <2>1 DEF RegisterStrays
  <2> QED
    BY <1>1, <2>2, <2>3, RegisterCount
<1>5. CASE RemoveTAPCursor(t)
  BY <1>1, <1>5, RemoveCount DEF RemoveTAPCursor, Becomes
<1> QED
  BY <1>2, <1>3, <1>4, <1>5

\* The flusher, the remover, and the master's checkpoint messages.
LEMMA TaskCount ==
  ASSUME IInv, Counted(cm),
         \/ GetAllItemsForPersistence \/ RemoveClosedUnrefCheckpoints
         \/ \E id \in Nat : CheckpointStart(id) \/ CheckpointEnd(id)
  PROVE  Counted(cm')
<1>1. ManagerOK(cm)
  BY DEF IInv
<1>2. CASE GetAllItemsForPersistence
  BY <1>1, <1>2, TakeAllCount DEF GetAllItemsForPersistence, Becomes
<1>3. CASE RemoveClosedUnrefCheckpoints
  BY <1>1, <1>3, RemoveUnrefCount DEF RemoveClosedUnrefCheckpoints, Becomes
<1>4. ASSUME NEW id \in Nat, CheckpointStart(id) \/ CheckpointEnd(id)
      PROVE  Counted(cm')
  BY <1>1, <1>4, CheckAndAddCount, CloseOpenCount DEF CheckpointStart, CheckpointEnd, Becomes
<1> QED
  BY <1>2, <1>3, <1>4

\* Tasks and commands that close or empty checkpoints.
LEMMA AdministrationCount ==
  ASSUME IInv, Counted(cm),
         CheckVBOpenCheckpoint \/ CreateNewCheckpoint \/ SetCheckpointExtension \/ Clear
  PROVE  Counted(cm')
<1>1. ManagerOK(cm) /\ LastChk(cm).id + 1 \in Nat /\ cm \in Record(Len(cm.list))
  BY LastFacts, Parts DEF IInv
<1>2. CASE CheckVBOpenCheckpoint
  BY <1>1, <1>2, CheckOpenCount DEF CheckVBOpenCheckpoint, Becomes
<1>3. CASE CreateNewCheckpoint
  BY <1>1, <1>3, AddNewCount DEF CreateNewCheckpoint, Becomes
<1>4. CASE SetCheckpointExtension
  <2>1. PICK extend \in BOOLEAN : cm' = [cm EXCEPT !.extension = extend]
    BY <1>4 DEF SetCheckpointExtension, Becomes
  <2>2. cm'.list = cm.list /\ cm'.numItems = cm.numItems
    BY <1>1, <2>1 DEF Record
  <2> QED
    BY <2>2, CountedHere
<1>5. CASE Clear
  <2> DEFINE id == IF vbState = "active" THEN 1 ELSE 0
             y == [cm EXCEPT !.list = <<NewCheckpoint(id, 0)>>,
                             !.mutationCounter = 2, !.numItems = 1]
  <2>1. cm' = ResetCursors(y) /\ cm' = Cleared(cm, id) /\ id \in Nat
    BY <1>5 DEF Clear, Becomes, Cleared
  <2>2. y.numItems = 1 /\ "numItems" \in DOMAIN y
    BY <1>1 DEF Record
  <2> HIDE DEF id, y
  <2>3. cm'.numItems = 1
    BY <2>1, <2>2 DEF ResetCursors
  <2>4. IsFresh(cm', id, Registered(cm))
    BY <1>1, <2>1, ClearEffect
  <2> QED
    BY <2>3, <2>4, FreshCount
<1> QED
  BY <1>2, <1>3, <1>4, <1>5

\* The vbucket's changes of state and its backfills.
LEMMA VBucketCount ==
  ASSUME IInv, Counted(cm),
         \/ InitialVBucketStream \/ CloseBackfill
         \/ \E to \in VBStates : SetVBucketState(to)
  PROVE  Counted(cm')
<1>1. ManagerOK(cm) /\ ShapeOK(cm)
  BY DEF IInv, ManagerOK
<1>2. CASE InitialVBucketStream
  <2>1. CASE cm' = SetOpenCheckpointId(ResetManager(cm, vbState), 0)
    <3>1. PICK z, id : /\ ManagerOK(z) /\ z = ResetManager(cm, vbState)
                       /\ IsFresh(z, id, Registered(cm) \cup {Persistence})
      BY ResetEffect
    <3>2. z.numItems = 1
      BY <3>1 DEF ResetManager, NewManager
    <3>3. Counted(z) /\ ShapeOK(z)
      BY <3>1, <3>2, FreshCount DEF ManagerOK
    <3> QED
      BY <2>1, <3>1, <3>3, ResetSetCount
  <2>2. CASE cm' = SetOpenCheckpointId(cm, 0)
    BY <1>1, <2>2, ResetSetCount
  <2> QED
    BY <1>2, <2>1, <2>2 DEF InitialVBucketStream, Becomes
<1>3. CASE CloseBackfill
  BY <1>3 DEF CloseBackfill, Becomes
<1>4. ASSUME NEW to \in VBStates, SetVBucketState(to)
      PROVE  Counted(cm')
  <2>1. cm' = cm \/ cm' = SetOpenCheckpointId(cm, 2)
    BY <1>4 DEF SetVBucketState, Becomes
  <2> QED
    BY <1>1, <2>1, ResetSetCount
<1> QED
  BY <1>2, <1>3, <1>4

\* No step miscounts.
LEMMA CountNext ==
  ASSUME IInv, Counted(cm), [Next]_vars
  PROVE  Counted(cm')
<1>1. CASE UNCHANGED vars
  BY <1>1 DEF vars
<1>2. CASE Next
  <2>1. 0..MaxCheckpointId \subseteq Nat /\ 1..MaxCheckpointId \subseteq Nat
    BY BoundsAssumption
  <2>2. \/ \E k \in Keys : QueueDirty(k)
        \/ \E t \in TapNames : \/ NextItem(t) \/ WaitAtCheckpointEnd(t)
                               \/ RegisterTAPCursor(t) \/ RemoveTAPCursor(t)
        \/ GetAllItemsForPersistence \/ RemoveClosedUnrefCheckpoints
        \/ \E id \in Nat : CheckpointStart(id) \/ CheckpointEnd(id)
        \/ CheckVBOpenCheckpoint \/ CreateNewCheckpoint \/ SetCheckpointExtension \/ Clear
        \/ InitialVBucketStream \/ CloseBackfill
        \/ \E to \in VBStates : SetVBucketState(to)
        \/ QueueDirtyAborts
        \/ \E t \in TapNames : RegisterTAPCursorStrays(t)
        \/ \E id \in Nat : CheckpointStartStrays(id)
    BY <1>2, <2>1 DEF Next
  <2>3. CASE \/ QueueDirtyAborts
             \/ \E t \in TapNames : RegisterTAPCursorStrays(t)
             \/ \E id \in Nat : CheckpointStartStrays(id)
    BY <2>3 DEF QueueDirtyAborts, RegisterTAPCursorStrays, CheckpointStartStrays
  <2> QED
    BY <2>2, <2>3, QueueDirtyCount, TapCount, TaskCount, AdministrationCount, VBucketCount
<1> QED
  BY <1>1, <1>2

(***************************************************************************)
(* numItems, which queueing, closing, opening, dropping, collapsing and    *)
(* rolling back update by differences, is the number of items in the list. *)
(***************************************************************************)
THEOREM CountStaysExact == Spec => []NumItemsExact
<1>1. Init => Counted(cm)
  <2> SUFFICES ASSUME Init
               PROVE  Counted(cm)
    OBVIOUS
  <2>1. PICK id \in {StartId(vbState)} \cup 1..MaxCheckpointId : cm = FreshManager(id)
    BY DEF Init
  <2>2. id \in Nat /\ {Persistence} \in SUBSET Names
    BY BoundsAssumption, MetaKeysDiffer DEF StartId, MetaFact
  <2>3. IsFresh(cm, id, {Persistence}) /\ cm.numItems = 1
    BY <2>1, <2>2, NewManagerEffect DEF FreshManager, NewManager
  <2> QED
    BY <2>3, FreshCount
<1>2. IInv /\ Counted(cm) /\ [Next]_vars => Counted(cm)'
  BY CountNext
<1>3. Counted(cm) => NumItemsExact
  BY DEF Counted, Items, NumItemsExact
<1>4. Spec => []IInv
  BY Invariance
<1> QED
  BY <1>1, <1>2, <1>3, <1>4, PTL DEF Spec
-----------------------------------------------------------------------------
(***************************************************************************)
(* The items that a cursor has reached, the ones before its checkpoint     *)
(* among them.  On a vbucket that is always a master the cursor's offset   *)
(* is their number.                                                        *)
(***************************************************************************)

\* What counts as an item for a cursor: all but the dummy item.
ItemKeys == AllKeys \ {Dummy}

\* The items of the first i checkpoints, those of the last of them up to p.
UpTo(list, i, p) ==
  {d \in ItemsIn(list, i, ItemKeys) : d[1] = i => Rank(list[i], d[2]) <= Rank(list[i], p)}

\* They are finitely many.
LEMMA UpToFinite ==
  ASSUME NEW list, NEW i \in Int, NEW p
  PROVE  IsFiniteSet(UpTo(list, i, p)) /\ Cardinality(UpTo(list, i, p)) \in Nat
<1>1. IsFiniteSet(ItemsIn(list, i, ItemKeys)) /\ UpTo(list, i, p) \subseteq ItemsIn(list, i, ItemKeys)
  BY ItemsFinite DEF ItemKeys, UpTo
<1>2. IsFiniteSet(UpTo(list, i, p))
  BY <1>1, FS_Subset
<1> QED
  BY <1>2, FS_CardinalityType

\* They are told by the items of those checkpoints.
LEMMA UpToSame ==
  ASSUME NEW list, NEW other, NEW i \in Nat \ {0}, NEW p,
         \A j \in 1..i : other[j].mid = list[j].mid
  PROVE  UpTo(other, i, p) = UpTo(list, i, p)
<1>1. ItemsIn(other, i, ItemKeys) = ItemsIn(list, i, ItemKeys)
  BY DEF ItemsIn
<1>2. \A k : Rank(other[i], k) = Rank(list[i], k)
  BY DEF Rank
<1> QED
  BY <1>1, <1>2 DEF UpTo

\* At the dummy item, they are the items of the checkpoints before.
LEMMA UpToDummy ==
  ASSUME NEW m, ManagerOK(m), OrderOK(m), NEW i \in 1..Len(m.list)
  PROVE  UpTo(m.list, i, Dummy) = ItemsIn(m.list, i - 1, ItemKeys)
<1>1. /\ Rank(m.list[i], Dummy) = 0
      /\ \A k \in ItemKeys : m.list[i].mid[k] # 0 => ~(Rank(m.list[i], k) <= 0)
  BY RankFacts DEF ItemKeys
<1>2. i \in Nat \ {0}
  BY Parts
<1>3. ASSUME NEW d \in ItemsIn(m.list, i, ItemKeys)
      PROVE  (d[1] = i => Rank(m.list[i], d[2]) <= Rank(m.list[i], Dummy)) <=> d[1] # i
  BY <1>1, <1>3 DEF ItemsIn
<1>4. ItemsIn(m.list, i - 1, ItemKeys) = {d \in ItemsIn(m.list, i, ItemKeys) : d[1] # i}
  <2>1. 1..(i - 1) = {j \in 1..i : j # i}
    BY <1>2
  <2> QED
    BY <2>1 DEF ItemsIn
<1> QED
  BY <1>3, <1>4 DEF UpTo

\* At the end of a checkpoint, they are all its items and those before.
LEMMA UpToEnd ==
  ASSUME NEW m, ManagerOK(m), OrderOK(m), NEW i \in 1..Len(m.list), NEW p \in AllKeys,
         After(m.list[i], p) = {}
  PROVE  UpTo(m.list, i, p) = ItemsIn(m.list, i, ItemKeys)
<1>1. \A k \in AllKeys : m.list[i].mid[k] # 0 => Rank(m.list[i], k) <= Rank(m.list[i], p)
  <2>1. \A k \in AllKeys : Rank(m.list[i], k) \in Nat
    BY RankFacts
  <2> QED
    BY <2>1 DEF After, Present
<1> QED
  BY <1>1 DEF UpTo, ItemsIn, ItemKeys

\* Two items without another between them.
Neighbours(c, p, j) ==
  /\ p \in Present(c) /\ j \in Present(c) /\ Rank(c, p) < Rank(c, j)
  /\ \A l \in Present(c) : Rank(c, l) <= Rank(c, p) \/ Rank(c, j) <= Rank(c, l)

\* Up to the second, there is one more item than up to the first.
LEMMA UpToNext ==
  ASSUME NEW m, ManagerOK(m), OrderOK(m), NEW i \in 1..Len(m.list), NEW p, NEW j,
         Neighbours(m.list[i], p, j)
  PROVE  Cardinality(UpTo(m.list, i, j)) = Cardinality(UpTo(m.list, i, p)) + 1
<1> DEFINE c == m.list[i]
           A == UpTo(m.list, i, j)
           B == UpTo(m.list, i, p)
<1>1. /\ \A k \in AllKeys : Rank(c, k) \in Nat
      /\ \A k, l \in Present(c) : k # l => Rank(c, k) # Rank(c, l)
      /\ Rank(c, Dummy) = 0 /\ Present(c) = {k \in AllKeys : c.mid[k] # 0}
      /\ p \in Present(c) /\ j \in Present(c) /\ Rank(c, p) < Rank(c, j)
      /\ \A l \in Present(c) : Rank(c, l) <= Rank(c, p) \/ Rank(c, j) <= Rank(c, l)
  BY RankFacts DEF Present, Neighbours
<1>2. i \in Nat \ {0}
  BY Parts
<1>3. j \in ItemKeys /\ c.mid[j] # 0 /\ p \in AllKeys
  BY <1>1 DEF ItemKeys
<1>4. <<i, j>> \in A
  BY <1>1, <1>2, <1>3 DEF UpTo, ItemsIn
<1>5. ASSUME NEW d \in ItemsIn(m.list, i, ItemKeys)
      PROVE  (d \in B) <=> (d \in A /\ d # <<i, j>>)
  <2>1. /\ d = <<d[1], d[2]>> /\ d[2] \in AllKeys /\ m.list[d[1]].mid[d[2]] # 0
        /\ (d \in A) <=> (d[1] = i => Rank(c, d[2]) <= Rank(c, j))
        /\ (d \in B) <=> (d[1] = i => Rank(c, d[2]) <= Rank(c, p))
    BY DEF UpTo, ItemsIn, ItemKeys
  <2>2. CASE d[1] # i
    BY <2>1, <2>2
  <2>3. CASE d[1] = i
    <3>1. d[2] \in Present(c)
      BY <1>1, <2>1, <2>3
    <3>2. Rank(c, d[2]) \in Nat /\ Rank(c, j) \in Nat /\ Rank(c, p) \in Nat
      BY <1>1, <1>3, <2>1
    <3>3. Rank(c, d[2]) <= Rank(c, p) \/ Rank(c, j) <= Rank(c, d[2])
      BY <1>1, <3>1
    <3>4. d[2] # j => Rank(c, d[2]) # Rank(c, j)
      BY <1>1, <3>1
    <3>5. Rank(c, p) < Rank(c, j)
      BY <1>1
    <3>6. (Rank(c, d[2]) <= Rank(c, p)) <=> (Rank(c, d[2]) <= Rank(c, j) /\ d[2] # j)
      BY <3>2, <3>3, <3>4, <3>5
    <3>7. (d = <<i, j>>) <=> (d[2] = j)
      BY <2>1, <2>3
    <3> QED
      BY <2>1, <2>3, <3>6, <3>7
  <2> QED
    BY <2>2, <2>3
<1>6. B = A \ {<<i, j>>}
  BY <1>5 DEF UpTo
<1>7. IsFiniteSet(A) /\ Cardinality(A) \in Nat
  BY <1>2, UpToFinite
<1> HIDE DEF A, B
<1>8. Cardinality(B) = Cardinality(A) - 1
  BY <1>4, <1>6, <1>7, FS_RemoveElement
<1>9. Cardinality(A) = Cardinality(B) + 1
  BY <1>7, <1>8
<1> QED
  BY <1>9 DEF A, B

\* A closed checkpoint has a start and an end item beside its documents.
LEMMA ClosedItems ==
  ASSUME NEW m, ManagerOK(m), OrderOK(m), NEW r \in Nat, r <= Len(m.list),
         \A i \in 1..r : ~m.list[i].open
  PROVE  Cardinality(ItemsIn(m.list, r, ItemKeys)) = DocsIn(m.list, r) + 2 * r
<1> DEFINE D == ItemsIn(m.list, r, Keys)
           S == (1..r) \X {Start}
           E == (1..r) \X {End}
<1>1. /\ Dummy # Start /\ Dummy # End /\ Start # End
      /\ Dummy \notin Keys /\ Start \notin Keys /\ End \notin Keys
      /\ ItemKeys = Keys \cup {Start, End}
  BY MetaKeysDiffer DEF MetaFact, ItemKeys, AllKeys, MetaKeys
<1>2. \A i \in 1..r : m.list[i].mid[Start] # 0 /\ m.list[i].mid[End] # 0
  <2>1. Len(m.list) \in Nat
    BY Parts
  <2>2. 1..r \subseteq 1..Len(m.list)
    BY <2>1
  <2> QED
    BY <2>2, Parts DEF OrderOK, Sorted
<1>3. ItemsIn(m.list, r, ItemKeys) = (D \cup S) \cup E
  BY <1>1, <1>2 DEF ItemsIn
<1>4. D \cap S = {} /\ (D \cup S) \cap E = {}
  BY <1>1 DEF ItemsIn
<1>5. IsFiniteSet(D) /\ Cardinality(D) = DocsIn(m.list, r)
  BY ItemsFinite, DocsAreItems DEF AllKeys
<1>6. /\ IsFiniteSet(S) /\ Cardinality(S) = r
      /\ IsFiniteSet(E) /\ Cardinality(E) = r
  <2>1. IsFiniteSet(1..r) /\ Cardinality(1..r) = r
    BY FS_Interval
  <2>2. ASSUME NEW k
        PROVE  IsFiniteSet((1..r) \X {k}) /\ Cardinality((1..r) \X {k}) = r
    <3>1. IsFiniteSet({k}) /\ Cardinality({k}) = 1
      BY FS_Singleton
    <3>2. /\ IsFiniteSet((1..r) \X {k})
          /\ Cardinality((1..r) \X {k}) = Cardinality(1..r) * Cardinality({k})
      BY <2>1, <3>1, FS_Product
    <3> QED
      BY <2>1, <3>1, <3>2
  <2> QED
    BY <2>2
<1> HIDE DEF D, S, E
<1>7. IsFiniteSet(D \cup S) /\ Cardinality(D \cup S) = Cardinality(D) + Cardinality(S)
  BY <1>4, <1>5, <1>6, CountBoth
<1>8. Cardinality((D \cup S) \cup E) = Cardinality(D \cup S) + Cardinality(E)
  BY <1>4, <1>6, <1>7, CountBoth
<1>9. DocsIn(m.list, r) \in Nat
  BY DocsInNat
<1> QED
  BY <1>3, <1>5, <1>6, <1>7, <1>8, <1>9

\* All checkpoints but an open last one are closed.
LEMMA ClosedBefore ==
  ASSUME NEW m, ManagerOK(m), OrderOK(m), NEW r \in Nat, r < Len(m.list)
  PROVE  Cardinality(ItemsIn(m.list, r, ItemKeys)) = DocsIn(m.list, r) + 2 * r
<1>1. Len(m.list) \in Nat
  BY Parts
<1>2. r <= Len(m.list) /\ \A i \in 1..r : ~m.list[i].open
  BY <1>1 DEF OrderOK
<1> QED
  BY <1>2, ClosedItems

\* numItems counts exactly these items.
LEMMA AllItems ==
  ASSUME NEW m, ManagerOK(m), OrderOK(m), Counted(m), LastChk(m).open
  PROVE  Cardinality(ItemsIn(m.list, Len(m.list), ItemKeys)) = m.numItems
<1> DEFINE n == Len(m.list)
           r == n - 1
           B == ItemsIn(m.list, r, ItemKeys)
           D == {n} \X Docs(m.list[n])
           S == {<<n, Start>>}
<1>1. n \in Nat \ {0} /\ r \in Nat /\ r < n /\ LastChk(m) = m.list[n] /\ n \in 1..n
  BY Parts
<1>2. /\ Dummy # Start /\ Dummy # End /\ Start # End
      /\ Dummy \notin Keys /\ Start \notin Keys /\ End \notin Keys
      /\ ItemKeys = Keys \cup {Start, End}
  BY MetaKeysDiffer DEF MetaFact, ItemKeys, AllKeys, MetaKeys
<1>3. m.list[n].mid[Start] # 0 /\ m.list[n].mid[End] = 0
  BY <1>1, Parts DEF OrderOK, Sorted
<1>4. Cardinality(B) = DocsIn(m.list, r) + 2 * r /\ IsFiniteSet(B)
  <2>1. IsFiniteSet(B)
    BY <1>1, ItemsFinite DEF ItemKeys
  <2> QED
    BY <1>1, <2>1, ClosedBefore
<1>5. IsFiniteSet(D) /\ Cardinality(D) = NumDocs(m.list[n])
  <2>1. IsFiniteSet(Docs(m.list[n]))
    BY KeysAssumption, FS_Subset DEF Docs
  <2> QED
    BY <2>1, ColumnCount DEF NumDocs
<1>6. IsFiniteSet(S) /\ Cardinality(S) = 1
  BY FS_Singleton
<1>7. ItemsIn(m.list, n, ItemKeys) = (B \cup D) \cup S
  <2>1. 1..n = (1..r) \cup {n}
    BY <1>1
  <2> QED
    BY <1>2, <1>3, <2>1 DEF ItemsIn, Docs
<1>8. B \cap D = {} /\ (B \cup D) \cap S = {}
  BY <1>1, <1>2 DEF ItemsIn, Docs
<1>9. DocsIn(m.list, n) = DocsIn(m.list, r) + NumDocs(m.list[n])
  BY <1>1, DocsStep
<1>10. DocsIn(m.list, r) \in Nat /\ NumDocs(m.list[n]) \in Nat
  BY <1>1, DocsInNat, NumDocsNat
<1>11. m.numItems = DocsIn(m.list, n) + 2 * n - 1
  BY DEF Counted, Items
<1> HIDE DEF B, D, S
<1>12. IsFiniteSet(B \cup D) /\ Cardinality(B \cup D) = Cardinality(B) + Cardinality(D)
  BY <1>4, <1>5, <1>8, CountBoth
<1>13. Cardinality((B \cup D) \cup S) = Cardinality(B \cup D) + 1
  BY <1>6, <1>8, <1>12, CountBoth
<1> HIDE DEF n
<1>14. Cardinality((B \cup D) \cup S) = m.numItems
  BY <1>1, <1>4, <1>5, <1>9, <1>10, <1>11, <1>12, <1>13 DEF r
<1> QED
  BY <1>7, <1>14 DEF n

\* The items that a cursor has reached are fewer by those that are cut off.
LEMMA UpToCut ==
  ASSUME NEW m, ManagerOK(m), OrderOK(m), NEW other, NEW r \in Nat,
         Follows(m.list, other, Len(m.list), r),
         NEW i \in 1..Len(m.list), r < i, NEW p
  PROVE  Cardinality(UpTo(m.list, i, p)) =
           Cardinality(UpTo(other, i - r, p)) + (DocsIn(m.list, r) + 2 * r)
<1> DEFINE P == ItemsIn(m.list, r, ItemKeys)
           A == UpTo(m.list, i, p)
           T == A \ P
           S == {<<d[1] - r, d[2]>> : d \in T}
           Q == UpTo(other, i - r, p)
           n == Len(m.list)
<1>1. n \in Nat /\ i \in Nat \ {0} /\ i <= n /\ r < n
  BY Parts
<1>2. IsFiniteSet(P) /\ IsFiniteSet(A) /\ Cardinality(P) = DocsIn(m.list, r) + 2 * r
  <2>1. IsFiniteSet(P)
    BY ItemsFinite DEF ItemKeys
  <2>2. IsFiniteSet(A)
    BY <1>1, UpToFinite
  <2> QED
    BY <1>1, <2>1, <2>2, ClosedBefore
<1>3. P \subseteq A
  BY <1>1 DEF UpTo, ItemsIn
<1>4. IsFiniteSet(T) /\ P \cap T = {} /\ A = P \cup T
  BY <1>2, <1>3, FS_Subset
<1>5. T = {d \in ((r + 1)..i) \X ItemKeys :
             /\ m.list[d[1]].mid[d[2]] # 0
             /\ d[1] = i => Rank(m.list[i], d[2]) <= Rank(m.list[i], p)}
  BY <1>1 DEF UpTo, ItemsIn
<1>6. T \subseteq Int \X ItemKeys
  BY <1>5
<1>7. \A j \in 1..(n - r) : other[j].mid = m.list[j + r].mid
  BY DEF Follows
<1> HIDE DEF A, P, T, n
<1>8. Cardinality(S) = Cardinality(T)
  <2>1. r \in Int /\ IsFiniteSet(T)
    BY <1>4
  <2> QED
    BY <1>6, <2>1, ShiftCount, Zenon
<1>9. \A k : Rank(other[i - r], k) = Rank(m.list[i], k)
  <2>1. i - r \in 1..(n - r) /\ (i - r) + r = i
    BY <1>1
  <2>2. other[i - r].mid = m.list[i].mid
    BY <1>7, <2>1
  <2> QED
    BY <2>2 DEF Rank
<1>10. S = Q
  <2>1. ASSUME NEW d \in T
        PROVE  <<d[1] - r, d[2]>> \in Q
    <3>1. /\ d[1] \in (r + 1)..i /\ d[2] \in ItemKeys /\ m.list[d[1]].mid[d[2]] # 0
          /\ d[1] = i => Rank(m.list[i], d[2]) <= Rank(m.list[i], p)
      BY <1>5, <2>1
    <3>2. /\ d[1] - r \in 1..(i - r) /\ d[1] - r \in 1..(n - r) /\ (d[1] - r) + r = d[1]
          /\ d[1] - r = i - r => d[1] = i
      BY <1>1, <3>1, SMTT(30)
    <3>3. other[d[1] - r].mid = m.list[d[1]].mid
      BY <1>7, <3>2
    <3>4. <<d[1] - r, d[2]>> \in ItemsIn(other, i - r, ItemKeys)
      BY <3>1, <3>2, <3>3 DEF ItemsIn
    <3>5. d[1] - r = i - r => Rank(other[i - r], d[2]) <= Rank(other[i - r], p)
      BY <1>9, <3>1, <3>2
    <3> QED
      BY <3>4, <3>5 DEF UpTo
  <2>2. ASSUME NEW e \in Q
        PROVE  e \in S
    <3>1. /\ e = <<e[1], e[2]>> /\ e[1] \in 1..(i - r) /\ e[2] \in ItemKeys
          /\ other[e[1]].mid[e[2]] # 0
          /\ e[1] = i - r => Rank(other[i - r], e[2]) <= Rank(other[i - r], p)
      BY <2>2 DEF UpTo, ItemsIn
    <3>2. /\ e[1] + r \in (r + 1)..i /\ (e[1] + r) - r = e[1] /\ e[1] \in 1..(n - r)
          /\ e[1] + r = i => e[1] = i - r
      BY <1>1, <3>1
    <3>3. m.list[e[1] + r].mid[e[2]] # 0
      BY <1>7, <3>1, <3>2
    <3>4. e[1] + r = i => Rank(m.list[i], e[2]) <= Rank(m.list[i], p)
      BY <1>9, <3>1, <3>2
    <3>5. <<e[1] + r, e[2]>> \in T
      BY <1>5, <3>1, <3>2, <3>3, <3>4
    <3>6. e = <<<<e[1] + r, e[2]>>[1] - r, <<e[1] + r, e[2]>>[2]>>
      BY <3>1, <3>2
    <3> QED
      BY <3>5, <3>6
  <2> QED
    BY <2>1, <2>2
<1>11. Cardinality(A) = Cardinality(P) + Cardinality(T)
  BY <1>2, <1>4, CountBoth
<1>12. Cardinality(T) \in Nat /\ Cardinality(P) \in Nat
  BY <1>2, <1>4, FS_CardinalityType
<1> HIDE DEF S, Q
<1>13. Cardinality(A) = Cardinality(Q) + (DocsIn(m.list, r) + 2 * r)
  BY <1>2, <1>8, <1>10, <1>11, <1>12
<1> QED
  BY <1>13 DEF A, Q

\* queueDirty finds that the cursor has passed the key's item.
HasPassed(m, k, d) ==
  /\ m.cursor[d].chk = Len(m.list) /\ LastChk(m).mid[k] # 0
  /\ LastChk(m).mid[k] <= LastChk(m).mid[m.cursor[d].pos]

\* Comparing mutation ids is comparing places, for the meta items are the oldest.
LEMMA PassedByRank ==
  ASSUME NEW m, ManagerOK(m), OrderOK(m), MetaOK(m), NEW k \in AllKeys \ {Dummy, Start},
         NEW p \in Present(LastChk(m)), LastChk(m).mid[k] # 0
  PROVE  (LastChk(m).mid[k] <= LastChk(m).mid[p])
           <=> (Rank(LastChk(m), k) <= Rank(LastChk(m), p))
<1> DEFINE c == LastChk(m)
           n == Len(m.list)
<1>1. n \in 1..n /\ c = m.list[n]
  BY Parts
<1>2. /\ \A j \in AllKeys : Rank(c, j) \in Nat /\ c.mid[j] \in Nat
      /\ Rank(c, Dummy) = 0 /\ Rank(c, Start) = 1
      /\ \A j \in AllKeys \ {Dummy, Start} :
           /\ Rank(c, j) = c.mid[j]
           /\ c.mid[j] # 0 => Rank(c, j) > 2
      /\ Present(c) \subseteq AllKeys
  BY <1>1, RankFacts
<1>3. c.mid[Dummy] < c.mid[k] /\ c.mid[Start] < c.mid[k]
  BY <1>1 DEF MetaOK, MetaFirst
<1>4. p \in AllKeys /\ Dummy \in AllKeys /\ Start \in AllKeys
  BY <1>2, MetaKeysDiffer DEF MetaFact
<1>5. c.mid[k] # 0
  OBVIOUS
<1> HIDE DEF c
<1>6. CASE p \in {Dummy, Start}
  <2>1. c.mid[p] < c.mid[k] /\ Rank(c, p) <= 1 /\ Rank(c, k) > 2
    BY <1>2, <1>3, <1>5, <1>6
  <2>2. ~(c.mid[k] <= c.mid[p]) /\ ~(Rank(c, k) <= Rank(c, p))
    BY <1>2, <1>4, <2>1
  <2> QED
    BY <2>2 DEF c
<1>7. CASE p \notin {Dummy, Start}
  <2>1. Rank(c, p) = c.mid[p] /\ Rank(c, k) = c.mid[k]
    BY <1>2, <1>4, <1>7
  <2> QED
    BY <2>1 DEF c
<1> QED
  BY <1>6, <1>7

\* An item that moves to the tail leaves those that a cursor has reached.
LEMMA UpToQueued ==
  ASSUME NEW m, ManagerOK(m), OrderOK(m), MetaOK(m), NEW k \in AllKeys \ {Dummy, Start},
         NEW q, ItemQueued(m, k, q), NEW d \in Registered(m)
  PROVE  /\ UpTo(q.list, q.cursor[d].chk, q.cursor[d].pos) =
              IF HasPassed(m, k, d)
              THEN UpTo(m.list, m.cursor[d].chk, m.cursor[d].pos) \ {<<Len(m.list), k>>}
              ELSE UpTo(m.list, m.cursor[d].chk, m.cursor[d].pos)
         /\ HasPassed(m, k, d) =>
              <<Len(m.list), k>> \in UpTo(m.list, m.cursor[d].chk, m.cursor[d].pos)
<1> DEFINE n == Len(m.list)
           i == m.cursor[d].chk
           p == m.cursor[d].pos
           o == q.cursor[d].pos
           c == m.list[n]
           x == q.list[n]
<1>1. /\ n \in Nat \ {0} /\ n \in 1..n /\ LastChk(m) = c /\ d \in Names
      /\ m.mutationCounter \in Nat /\ i \in 1..n /\ p \in AllKeys /\ m.list[i].mid[p] # 0
      /\ \A j \in AllKeys : c.mid[j] \in Nat /\ c.mid[j] <= m.mutationCounter
  BY Parts, SMTT(30)
<1>2. /\ q.cursor[d].chk = i
      /\ o = IF i = n /\ p = k /\ c.mid[k] # 0 THEN PrevKey(c, k) ELSE p
      /\ \A j \in 1..n : j # n => q.list[j] = m.list[j]
      /\ \A j \in AllKeys : x.mid[j] = IF j = k THEN m.mutationCounter + 1 ELSE c.mid[j]
  BY <1>1 DEF ItemQueued
<1>3. CASE i # n
  <2>1. i \in Nat \ {0} /\ \A j \in 1..i : q.list[j].mid = m.list[j].mid
    BY <1>1, <1>2, <1>3
  <2>2. UpTo(q.list, i, p) = UpTo(m.list, i, p)
    BY <2>1, UpToSame
  <2> QED
    BY <1>2, <1>3, <2>2 DEF HasPassed
<1>4. CASE i = n
  <2>1. /\ \A j \in AllKeys : Rank(c, j) \in Nat /\ c.mid[j] \in Nat
        /\ Rank(c, Dummy) = 0 /\ Rank(c, Start) = 1
        /\ \A j \in AllKeys \ {Dummy, Start} : Rank(c, j) = c.mid[j]
        /\ \A j, l \in Present(c) : j # l => Rank(c, j) # Rank(c, l)
        /\ Present(c) = {j \in AllKeys : c.mid[j] # 0}
        /\ ChkOK(c, m.mutationCounter) /\ m.mutationCounter >= 2
    <3>1. Present(c) = {j \in AllKeys : c.mid[j] # 0} /\ m.mutationCounter >= 2
      BY DEF Present, OrderOK
    <3>0. n \in 1..Len(m.list)
      BY <1>1
    <3>2. /\ \A j \in AllKeys : Rank(c, j) \in Nat /\ c.mid[j] \in Nat
          /\ Rank(c, Dummy) = 0 /\ Rank(c, Start) = 1 /\ ChkOK(c, m.mutationCounter)
      BY <3>0, RankFacts
    <3>3. \A j \in AllKeys \ {Dummy, Start} : Rank(c, j) = c.mid[j]
      BY <3>0, RankFacts
    <3>4. \A j, l \in Present(c) : j # l => Rank(c, j) # Rank(c, l)
      BY <3>0, RankFacts, ZenonT(60)
    <3> QED
      BY <3>1, <3>2, <3>3, <3>4
  <2>2. Dummy # Start /\ Dummy \in AllKeys /\ Start \in AllKeys
    BY MetaKeysDiffer DEF MetaFact
  <2>3. p \in Present(c)
    BY <1>1, <1>4, <2>1
  <2>4. HasPassed(m, k, d) <=> (c.mid[k] # 0 /\ Rank(c, k) <= Rank(c, p))
    BY <1>1, <1>4, <2>3, PassedByRank DEF HasPassed
  <2>5. /\ o \in Present(c) /\ o # k
        /\ \A j \in Present(c) \ {k} : (Rank(c, j) <= Rank(c, o)) <=> (Rank(c, j) <= Rank(c, p))
    <3>1. CASE p # k
      BY <1>2, <2>3, <3>1
    <3>2. CASE p = k
      <4>1. c.mid[k] # 0 /\ k # Dummy /\ k \in AllKeys
        BY <1>1, <1>4, <3>2
      <4>2. o = PrevKey(c, k)
        BY <1>2, <1>4, <3>2, <4>1
      <4>3. o \in Before(c, k) /\ \A j \in Before(c, k) : Rank(c, j) <= Rank(c, o)
        BY <2>1, <4>1, <4>2, PrevKeyPresent
      <4>4. /\ Before(c, k) = {j \in Present(c) : Rank(c, j) < Rank(c, k)}
            /\ Rank(c, k) \in Nat /\ \A j \in Present(c) : Rank(c, j) \in Nat
        BY <2>1, <4>1 DEF Before
      <4> HIDE DEF c, o, p
      <4>5. o \in Present(c) /\ o # k /\ Rank(c, o) < Rank(c, k)
        BY <4>3, <4>4
      <4>6. \A j \in Present(c) \ {k} : Rank(c, j) # Rank(c, k)
        BY <2>1, <2>3, <3>2
      <4>7. \A j \in Present(c) \ {k} : (Rank(c, j) <= Rank(c, o)) <=> (Rank(c, j) <= Rank(c, k))
        BY <4>3, <4>4, <4>5, <4>6
      <4> QED
        BY <3>2, <4>5, <4>7
    <3> QED
      BY <3>1, <3>2
  <2>6. /\ \A j \in AllKeys \ {k} : Rank(x, j) = Rank(c, j) /\ x.mid[j] = c.mid[j]
        /\ Rank(x, k) = m.mutationCounter + 1
    BY <1>2, <2>2 DEF Rank
  <2>7. \A j \in AllKeys : Rank(c, j) <= m.mutationCounter
    BY <1>1, <2>1
  <2>8. ~(Rank(x, k) <= Rank(x, o))
    <3>1. o \in AllKeys \ {k} /\ Rank(c, o) \in Nat
      BY <2>1, <2>5
    <3> QED
      BY <1>1, <2>6, <2>7, <3>1
  <2>9. ASSUME NEW e \in (1..n) \X ItemKeys
        PROVE  (e \in UpTo(q.list, n, o)) <=>
                 (e \in UpTo(m.list, n, p) /\ e # <<n, k>>)
    <3>1. /\ e = <<e[1], e[2]>> /\ e[1] \in 1..n /\ e[2] \in AllKeys
          /\ (e \in UpTo(q.list, n, o)) <=> /\ q.list[e[1]].mid[e[2]] # 0
                                            /\ e[1] = n => Rank(x, e[2]) <= Rank(x, o)
          /\ (e \in UpTo(m.list, n, p)) <=> /\ m.list[e[1]].mid[e[2]] # 0
                                            /\ e[1] = n => Rank(c, e[2]) <= Rank(c, p)
      BY DEF UpTo, ItemsIn, ItemKeys
    <3>2. CASE e[1] # n
      <4>1. q.list[e[1]] = m.list[e[1]] /\ e # <<n, k>>
        BY <1>2, <3>1, <3>2
      <4> QED
        BY <3>1, <3>2, <4>1
    <3>3. CASE e[1] = n /\ e[2] = k
      BY <2>8, <3>1, <3>3
    <3>4. CASE e[1] = n /\ e[2] # k
      <4>1. /\ e # <<n, k>> /\ x.mid[e[2]] = c.mid[e[2]] /\ Rank(x, e[2]) = Rank(c, e[2])
            /\ Rank(x, o) = Rank(c, o)
        BY <2>1, <2>5, <2>6, <3>1, <3>4
      <4>2. CASE c.mid[e[2]] = 0
        BY <3>1, <3>4, <4>1, <4>2
      <4>3. CASE c.mid[e[2]] # 0
        <5>1. e[2] \in Present(c) \ {k}
          BY <2>1, <3>1, <3>4, <4>3
        <5>2. (Rank(c, e[2]) <= Rank(c, o)) <=> (Rank(c, e[2]) <= Rank(c, p))
          BY <2>5, <5>1
        <5> QED
          BY <3>1, <3>4, <4>1, <4>3, <5>2
      <4> QED
        BY <4>2, <4>3
    <3> QED
      BY <3>2, <3>3, <3>4
  <2>10. /\ UpTo(q.list, n, o) \subseteq (1..n) \X ItemKeys
         /\ UpTo(m.list, n, p) \subseteq (1..n) \X ItemKeys
    BY DEF UpTo, ItemsIn
  <2>11. UpTo(q.list, n, o) = UpTo(m.list, n, p) \ {<<n, k>>}
    BY <2>9, <2>10
  <2>12. (<<n, k>> \in UpTo(m.list, n, p)) <=> HasPassed(m, k, d)
    BY <1>1, <2>4 DEF UpTo, ItemsIn, ItemKeys
  <2>13. q.cursor[d].chk = n /\ m.cursor[d].chk = n
    BY <1>2, <1>4
  <2> HIDE DEF n, o, p, i, c, x
  <2>14. /\ UpTo(q.list, n, o) = IF HasPassed(m, k, d) THEN UpTo(m.list, n, p) \ {<<n, k>>}
                                 ELSE UpTo(m.list, n, p)
         /\ HasPassed(m, k, d) => <<n, k>> \in UpTo(m.list, n, p)
    BY <2>11, <2>12
  <2> QED
    BY <2>13, <2>14 DEF n, o, p
<1> QED
  BY <1>3, <1>4
-----------------------------------------------------------------------------
\* A cursor's offset is the number of items up to its position.
OffsetOK(m, d) ==
  m.cursor[d].offset = Cardinality(UpTo(m.list, m.cursor[d].chk, m.cursor[d].pos))

\* That of every registered cursor.
OffsetsOK(m) == \A d \in Registered(m) : OffsetOK(m, d)

\* A cursor is where it was.
SameCursor(m, q, d) ==
  /\ q.cursor[d].chk = m.cursor[d].chk
  /\ q.cursor[d].pos = m.cursor[d].pos
  /\ q.cursor[d].offset = m.cursor[d].offset

\* Then its offset stays right if nothing changed behind it.
LEMMA OffsetKept ==
  ASSUME NEW m, ManagerOK(m), NEW d \in Registered(m), OffsetOK(m, d), NEW q,
         SameCursor(m, q, d),
         \A i \in 1..m.cursor[d].chk : q.list[i].mid = m.list[i].mid
  PROVE  OffsetOK(q, d)
<1>1. m.cursor[d].chk \in Nat \ {0}
  BY Parts
<1>2. UpTo(q.list, m.cursor[d].chk, m.cursor[d].pos) = UpTo(m.list, m.cursor[d].chk, m.cursor[d].pos)
  BY <1>1, UpToSame
<1> QED
  BY <1>2 DEF OffsetOK, SameCursor

\* The offsets are those of the list and the cursors.
LEMMA OffsetsHere ==
  ASSUME NEW m, NEW q, q.list = m.list, q.cursor = m.cursor, OffsetsOK(m)
  PROVE  OffsetsOK(q)
BY DEF OffsetsOK, OffsetOK, Registered

\* Cursors that have passed the item are told that it went away.
LEMMA QueueItemOffsets ==
  ASSUME NEW m, ManagerOK(m), OrderOK(m), MetaOK(m), OffsetsOK(m),
         NEW k \in AllKeys \ {Dummy, Start}
  PROVE  OffsetsOK(QueueItem(m, k))
<1> DEFINE q == QueueItem(m, k)
           n == Len(m.list)
<1>1. ItemQueued(m, k, q)
  BY QueueItemEffect
<1>2. /\ m \in Record(n) /\ m.cursor \in [Names -> Cursor]
      /\ LastChk(m) = m.list[n] /\ Registered(m) \subseteq Names /\ n \in Nat
      /\ \A d \in Registered(m) : m.cursor[d].chk \in Nat
  BY Parts
<1>3. ASSUME NEW d \in Names
      PROVE  q.cursor[d].offset = IF HasPassed(m, k, d) THEN DecrOffset(m.cursor[d].offset, 1)
                                  ELSE m.cursor[d].offset
  <2>1. m.cursor[d] \in Cursor
    BY <1>2
  <2>2. q.cursor[d] =
          IF m.cursor[d].chk = n /\ m.list[n].mid[k] # 0
          THEN [m.cursor[d] EXCEPT
                  !.offset = IF m.list[n].mid[k] <= m.list[n].mid[m.cursor[d].pos]
                             THEN DecrOffset(m.cursor[d].offset, 1) ELSE m.cursor[d].offset,
                  !.pos = IF m.cursor[d].pos = k THEN PrevKey(m.list[n], k) ELSE m.cursor[d].pos]
          ELSE m.cursor[d]
    BY <1>2, <2>1 DEF QueueItem, Record, Cursor
  <2> QED
    BY <1>2, <2>1, <2>2 DEF HasPassed, Cursor
<1>4. Registered(q) = Registered(m)
  BY <1>1 DEF ItemQueued, Registered
<1> HIDE DEF q
<1>5. ASSUME NEW d \in Registered(m)
      PROVE  OffsetOK(q, d)
  <2> DEFINE A == UpTo(m.list, m.cursor[d].chk, m.cursor[d].pos)
             B == UpTo(q.list, q.cursor[d].chk, q.cursor[d].pos)
             e == <<n, k>>
  <2>1. /\ B = IF HasPassed(m, k, d) THEN A \ {e} ELSE A
        /\ HasPassed(m, k, d) => e \in A
    BY <1>1, UpToQueued
  <2>2. IsFiniteSet(A) /\ Cardinality(A) \in Nat
    BY <1>2, UpToFinite
  <2>3. m.cursor[d].offset = Cardinality(A)
    BY DEF OffsetsOK, OffsetOK
  <2>4. d \in Names
    BY <1>2
  <2> HIDE DEF A, B, e
  <2>5. CASE HasPassed(m, k, d)
    <3>1. Cardinality(B) = Cardinality(A) - 1 /\ Cardinality(B) \in Nat
      <4>1. B = A \ {e} /\ e \in A
        BY <2>1, <2>5
      <4>2. IsFiniteSet(A \ {e}) /\ Cardinality(A \ {e}) = Cardinality(A) - 1
        BY <2>2, <4>1, FS_RemoveElement
      <4> QED
        BY <4>1, <4>2, FS_CardinalityType
    <3>2. q.cursor[d].offset = DecrOffset(Cardinality(A), 1)
      BY <1>3, <2>3, <2>4, <2>5
    <3>3. q.cursor[d].offset = Cardinality(B)
      BY <2>2, <3>1, <3>2 DEF DecrOffset
    <3> QED
      BY <3>3 DEF OffsetOK, B
  <2>6. CASE ~HasPassed(m, k, d)
    <3>1. q.cursor[d].offset = Cardinality(B)
      BY <1>3, <2>1, <2>3, <2>4, <2>6
    <3> QED
      BY <3>1 DEF OffsetOK, B
  <2> QED
    BY <2>5, <2>6
<1>6. OffsetsOK(q)
  BY <1>4, <1>5 DEF OffsetsOK
<1> QED
  BY <1>6 DEF q

\* closeOpenCheckpoint_UNLOCKED.
LEMMA CloseOpenOffsets ==
  ASSUME NEW m, ManagerOK(m), OrderOK(m), MetaOK(m), OffsetsOK(m), NEW id
  PROVE  OffsetsOK(CloseOpenCheckpoint(m, id))
<1> DEFINE x == QueueItem(m, End)
           q == [x EXCEPT !.numItems = @ + 1, !.list[Len(m.list)].open = FALSE]
           n == Len(m.list)
<1>1. CASE ~(id = LastChk(m).id /\ LastChk(m).open)
  BY <1>1 DEF CloseOpenCheckpoint
<1>2. CASE id = LastChk(m).id /\ LastChk(m).open
  <2>1. End \in AllKeys \ {Dummy, Start}
    BY MetaKeysDiffer DEF MetaFact
  <2>2. OffsetsOK(x) /\ ManagerOK(x) /\ Len(x.list) = n
    BY <2>1, QueueItemOffsets, QueueItemOK
  <2>3. CloseOpenCheckpoint(m, id) = q
    BY <1>2 DEF CloseOpenCheckpoint
  <2>4. n \in Nat \ {0} /\ x \in Record(n) /\ \A i \in 1..n : x.list[i] \in Checkpoint
    BY <2>2, Parts
  <2> HIDE DEF x
  <2>5. q.cursor = x.cursor /\ \A i \in 1..n : q.list[i].mid = x.list[i].mid
    BY <2>4 DEF Record, Checkpoint
  <2> HIDE DEF q
  <2>6. ASSUME NEW d \in Registered(x)
        PROVE  OffsetOK(q, d)
    <3>1. x.cursor[d].chk \in 1..n /\ OffsetOK(x, d)
      BY <2>2, Parts DEF OffsetsOK
    <3>2. \A i \in 1..x.cursor[d].chk : q.list[i].mid = x.list[i].mid
      BY <2>4, <2>5, <3>1
    <3>3. SameCursor(x, q, d)
      BY <2>5 DEF SameCursor
    <3> QED
      BY <2>2, <3>1, <3>2, <3>3, OffsetKept
  <2>7. Registered(q) = Registered(x)
    BY <2>5 DEF Registered
  <2> QED
    BY <2>3, <2>6, <2>7 DEF OffsetsOK
<1> QED
  BY <1>1, <1>2

\* The new checkpoint is ahead of all cursors.
LEMMA AppendedOffsets ==
  ASSUME NEW m, ManagerOK(m), OffsetsOK(m), NEW id \in Nat
  PROVE  OffsetsOK(Appended(m, id))
<1> DEFINE q == Appended(m, id)
           n == Len(m.list)
<1>1. q.cursor = m.cursor /\ \A i \in 1..n : q.list[i] = m.list[i]
  BY AppendedEffect DEF IsAppended
<1>2. Registered(q) = Registered(m) /\ n \in Nat
  BY <1>1, Parts DEF Registered
<1> HIDE DEF q
<1>3. ASSUME NEW d \in Registered(m)
      PROVE  OffsetOK(q, d)
  <2>1. m.cursor[d].chk \in 1..n /\ OffsetOK(m, d)
    BY Parts DEF OffsetsOK
  <2>2. \A i \in 1..m.cursor[d].chk : q.list[i].mid = m.list[i].mid
    BY <1>1, <1>2, <2>1
  <2>3. SameCursor(m, q, d)
    BY <1>1 DEF SameCursor
  <2> QED
    BY <2>1, <2>2, <2>3, OffsetKept
<1>4. OffsetsOK(q)
  BY <1>2, <1>3 DEF OffsetsOK
<1> QED
  BY <1>4 DEF q
-----------------------------------------------------------------------------
\* One cursor moves, and the items stay.
LEMMA OneMoves ==
  ASSUME NEW m, ManagerOK(m), OffsetsOK(m), NEW c \in Names, NEW q, SameMids(m, q),
         \A d \in Names \ {c} : q.cursor[d] = m.cursor[d],
         c \in Registered(q) => OffsetOK(q, c)
  PROVE  OffsetsOK(q)
<1> SUFFICES ASSUME NEW d \in Registered(q), d # c
             PROVE  OffsetOK(q, d)
  BY DEF OffsetsOK
<1>1. d \in Names /\ q.cursor[d] = m.cursor[d] /\ q.cursor[d].chk # 0
  BY DEF Registered
<1>2. d \in Registered(m) /\ OffsetOK(m, d)
  BY <1>1 DEF Registered, OffsetsOK
<1>3. m.cursor[d].chk \in 1..Len(m.list) /\ Len(m.list) \in Nat
  BY <1>2, Parts
<1>4. \A i \in 1..m.cursor[d].chk : q.list[i].mid = m.list[i].mid
  BY <1>3 DEF SameMids
<1>5. SameCursor(m, q, d)
  BY <1>1 DEF SameCursor
<1> QED
  BY <1>2, <1>4, <1>5, OffsetKept

\* The end of a checkpoint is as far as the dummy item of the next one.
LEMMA EndIsNextDummy ==
  ASSUME NEW m, ManagerOK(m), OrderOK(m), NEW i \in 1..(Len(m.list) - 1), NEW p \in AllKeys,
         After(m.list[i], p) = {}
  PROVE  UpTo(m.list, i + 1, Dummy) = UpTo(m.list, i, p)
<1>1. Len(m.list) \in Nat
  BY Parts
<1>2. i \in 1..Len(m.list) /\ i + 1 \in 1..Len(m.list) /\ (i + 1) - 1 = i
  BY <1>1
<1>3. UpTo(m.list, i, p) = ItemsIn(m.list, i, ItemKeys)
  BY <1>2, UpToEnd
<1>4. UpTo(m.list, i + 1, Dummy) = ItemsIn(m.list, (i + 1) - 1, ItemKeys)
  BY <1>2, UpToDummy
<1> QED
  BY <1>2, <1>3, <1>4

\* A step to the next item reaches one more,
LEMMA NextCount ==
  ASSUME NEW m, ManagerOK(m), OrderOK(m), NEW i \in 1..Len(m.list),
         NEW p \in Present(m.list[i]), After(m.list[i], p) # {}
  PROVE  Cardinality(UpTo(m.list, i, NextKey(m.list[i], p))) = Cardinality(UpTo(m.list, i, p)) + 1
<1> DEFINE c == m.list[i]
           j == NextKey(c, p)
<1>1. /\ ChkOK(c, m.mutationCounter) /\ p \in AllKeys
      /\ \A k \in AllKeys : Rank(c, k) \in Nat
      /\ Present(c) \subseteq AllKeys
  BY RankFacts
<1>2. j \in After(c, p) /\ \A l \in After(c, p) : Rank(c, j) <= Rank(c, l)
  BY <1>1, NextKeyPresent
<1>3. After(c, p) = {l \in Present(c) : Rank(c, l) > Rank(c, p)}
  BY DEF After
<1> HIDE DEF c, j
<1>4. /\ j \in Present(c) /\ Rank(c, p) < Rank(c, j)
      /\ \A l \in Present(c) : Rank(c, l) <= Rank(c, p) \/ Rank(c, j) <= Rank(c, l)
  BY <1>1, <1>2, <1>3
<1>5. Neighbours(m.list[i], p, j)
  BY <1>4 DEF c, Neighbours
<1>6. Cardinality(UpTo(m.list, i, j)) = Cardinality(UpTo(m.list, i, p)) + 1
  BY <1>5, UpToNext
<1> QED
  BY <1>6 DEF c, j

\* and one back reaches one less.
LEMMA PrevCount ==
  ASSUME NEW m, ManagerOK(m), OrderOK(m), NEW i \in 1..Len(m.list),
         NEW p \in Present(m.list[i]), p # Dummy
  PROVE  Cardinality(UpTo(m.list, i, p)) = Cardinality(UpTo(m.list, i, PrevKey(m.list[i], p))) + 1
<1> DEFINE c == m.list[i]
           j == PrevKey(c, p)
<1>1. /\ ChkOK(c, m.mutationCounter) /\ p \in AllKeys /\ c.mid[p] # 0
      /\ \A k \in AllKeys : Rank(c, k) \in Nat
      /\ Present(c) \subseteq AllKeys
  BY RankFacts DEF Present
<1>2. j \in Before(c, p) /\ \A l \in Before(c, p) : Rank(c, l) <= Rank(c, j)
  BY <1>1, PrevKeyPresent
<1>3. Before(c, p) = {l \in Present(c) : Rank(c, l) < Rank(c, p)}
  BY DEF Before
<1> HIDE DEF c, j
<1>4. /\ j \in Present(c) /\ Rank(c, j) < Rank(c, p)
      /\ \A l \in Present(c) : Rank(c, l) <= Rank(c, j) \/ Rank(c, p) <= Rank(c, l)
  BY <1>1, <1>2, <1>3
<1>5. Neighbours(m.list[i], j, p)
  BY <1>4 DEF c, Neighbours
<1>6. Cardinality(UpTo(m.list, i, p)) = Cardinality(UpTo(m.list, i, j)) + 1
  BY <1>5, UpToNext
<1> QED
  BY <1>6 DEF c, j

\* moveCursorToNextCheckpoint, from the end of a checkpoint.
LEMMA MoveCursorOffsets ==
  ASSUME NEW m, ManagerOK(m), OrderOK(m), OffsetsOK(m), NEW c \in Registered(m),
         CanMoveNext(m, c), AtEnd(m, c)
  PROVE  OffsetsOK(MoveCursorToNextCheckpoint(m, c))
<1> DEFINE q == MoveCursorToNextCheckpoint(m, c)
           i == m.cursor[c].chk
           p == m.cursor[c].pos
<1>1. MovedOn(m, c, q)
  BY MoveCursorEffect
<1>2. c \in Names /\ m.cursor[c] \in Cursor /\ p \in AllKeys /\ Len(m.list) \in Nat
  BY Parts
<1>3. q.cursor[c].offset = m.cursor[c].offset
  <2>1. m \in Record(Len(m.list)) /\ m.cursor \in [Names -> Cursor]
    BY Parts
  <2> QED
    BY <1>2, <2>1 DEF MoveCursorToNextCheckpoint, Record, Cursor
<1> HIDE DEF q
<1>4. /\ SameMids(m, q) /\ i \in 1..(Len(m.list) - 1)
      /\ q.cursor[c].chk = i + 1 /\ q.cursor[c].pos = Dummy
      /\ \A d \in Names \ {c} : q.cursor[d] = m.cursor[d]
  BY <1>1 DEF MovedOn
<1>5. After(m.list[i], p) = {}
  BY DEF AtEnd, ChkOf
<1>6. UpTo(m.list, i + 1, Dummy) = UpTo(m.list, i, p)
  BY <1>2, <1>4, <1>5, EndIsNextDummy
<1>7. UpTo(q.list, i + 1, Dummy) = UpTo(m.list, i + 1, Dummy)
  <2> DEFINE h == i + 1
  <2>1. h \in Nat \ {0} /\ \A j \in 1..h : q.list[j].mid = m.list[j].mid
    BY <1>2, <1>4 DEF SameMids
  <2> HIDE DEF h
  <2>2. UpTo(q.list, h, Dummy) = UpTo(m.list, h, Dummy)
    BY <2>1, UpToSame
  <2> QED
    BY <2>2 DEF h
<1>8. OffsetOK(m, c)
  BY DEF OffsetsOK
<1>9. OffsetOK(q, c)
  BY <1>3, <1>4, <1>6, <1>7, <1>8 DEF OffsetOK
<1>10. OffsetsOK(q)
  BY <1>2, <1>4, <1>9, OneMoves
<1> QED
  BY <1>10 DEF q

\* A cursor that takes another place in its checkpoint, with the offset of that place.
LEMMA PlacedOffsets ==
  ASSUME NEW m, ManagerOK(m), OffsetsOK(m), NEW c \in Registered(m), NEW p, NEW o,
         o = Cardinality(UpTo(m.list, m.cursor[c].chk, p))
  PROVE  OffsetsOK(Placed(m, c, p, o))
<1> DEFINE q == Placed(m, c, p, o)
<1>1. c \in Names
  BY Parts
<1>2. Moves(m, c, p, q)
  BY <1>1, PlacedEffect
<1>3. q.cursor[c].offset = o
  <2>1. m \in Record(Len(m.list)) /\ m.cursor \in [Names -> Cursor]
    BY Parts
  <2> QED
    BY <1>1, <2>1 DEF Placed, Record, Cursor
<1> HIDE DEF q
<1>4. /\ q.list = m.list /\ q.cursor[c].chk = m.cursor[c].chk /\ q.cursor[c].pos = p
      /\ \A d \in Names \ {c} : q.cursor[d] = m.cursor[d]
  BY <1>2 DEF Moves
<1>5. OffsetOK(q, c)
  BY <1>3, <1>4 DEF OffsetOK
<1>6. SameMids(m, q)
  BY <1>4 DEF SameMids
<1>7. OffsetsOK(q)
  BY <1>1, <1>4, <1>5, <1>6, OneMoves
<1> QED
  BY <1>7 DEF q

\* nextItem's step.
LEMMA StepCursorOffsets ==
  ASSUME NEW m, ManagerOK(m), OrderOK(m), OffsetsOK(m), NEW c \in Registered(m), ~AtEnd(m, c)
  PROVE  OffsetsOK(StepCursor(m, c))
<1> DEFINE i == m.cursor[c].chk
           p == m.cursor[c].pos
           j == NextKey(m.list[i], p)
           o == m.cursor[c].offset + 1
<1>1. /\ m \in Record(Len(m.list)) /\ m.cursor \in [Names -> Cursor] /\ c \in Names
      /\ i \in 1..Len(m.list) /\ p \in AllKeys /\ m.list[i].mid[p] # 0
  BY Parts
<1>2. StepCursor(m, c) = Placed(m, c, j, o)
  BY <1>1 DEF StepCursor, Placed, ChkOf, Record, Cursor
<1>3. p \in Present(m.list[i]) /\ After(m.list[i], p) # {}
  BY <1>1 DEF Present, AtEnd, ChkOf
<1>4. Cardinality(UpTo(m.list, i, j)) = Cardinality(UpTo(m.list, i, p)) + 1
  BY <1>1, <1>3, NextCount
<1>5. m.cursor[c].offset = Cardinality(UpTo(m.list, i, p))
  BY DEF OffsetsOK, OffsetOK
<1>6. o = Cardinality(UpTo(m.list, i, j))
  BY <1>4, <1>5
<1> HIDE DEF j, o
<1> QED
  BY <1>2, <1>6, PlacedOffsets

\* decrTapCursorFromCheckpointEnd.
LEMMA DecrTapOffsets ==
  ASSUME NEW m, ManagerOK(m), OrderOK(m), OffsetsOK(m), NEW c \in Names
  PROVE  OffsetsOK(DecrTapCursorFromCheckpointEnd(m, c))
<1> DEFINE i == m.cursor[c].chk
           p == m.cursor[c].pos
           j == PrevKey(m.list[i], End)
           o == DecrOffset(m.cursor[c].offset, 1)
<1>1. CASE ~(i # 0 /\ p = End)
  BY <1>1 DEF DecrTapCursorFromCheckpointEnd
<1>2. CASE i # 0 /\ p = End
  <2>1. c \in Registered(m)
    BY <1>2 DEF Registered
  <2>2. /\ m \in Record(Len(m.list)) /\ m.cursor \in [Names -> Cursor] /\ c \in Names
        /\ i \in 1..Len(m.list) /\ End \in AllKeys /\ m.list[i].mid[End] # 0 /\ End # Dummy
    BY <1>2, <2>1, Parts, MetaKeysDiffer DEF MetaFact
  <2>3. DecrTapCursorFromCheckpointEnd(m, c) = Placed(m, c, j, o)
    BY <1>2, <2>2 DEF DecrTapCursorFromCheckpointEnd, Placed, ChkOf, Record, Cursor
  <2>4. End \in Present(m.list[i])
    BY <2>2 DEF Present
  <2>5. Cardinality(UpTo(m.list, i, End)) = Cardinality(UpTo(m.list, i, j)) + 1
    BY <2>2, <2>4, PrevCount
  <2>6. m.cursor[c].offset = Cardinality(UpTo(m.list, i, End))
    BY <1>2, <2>1 DEF OffsetsOK, OffsetOK
  <2>7. Cardinality(UpTo(m.list, i, j)) \in Nat
    BY <2>2, UpToFinite
  <2>8. o = Cardinality(UpTo(m.list, i, j))
    BY <2>5, <2>6, <2>7 DEF DecrOffset
  <2> HIDE DEF j, o
  <2> QED
    BY <2>1, <2>3, <2>8, PlacedOffsets
<1> QED
  BY <1>1, <1>2

\* addNewCheckpoint_UNLOCKED's move of the persistence cursor.
LEMMA AdvanceOffsets ==
  ASSUME NEW m, ManagerOK(m), OrderOK(m), OffsetsOK(m)
  PROVE  OffsetsOK(AdvancePersistenceCursor(m))
<1> DEFINE c == Persistence
           i == m.cursor[c].chk
           p == m.cursor[c].pos
           skip == ~AtEnd(m, c) /\ NextKey(ChkOf(m, c), p) = End
           mm == IF skip THEN [m EXCEPT !.cursor[c].pos = End, !.cursor[c].offset = @ + 1]
                         ELSE m
           y == MoveCursorToNextCheckpoint(mm, c)
           q == AdvancePersistenceCursor(m)
<1>1. q = IF AtEnd(mm, c) /\ CanMoveNext(mm, c)
          THEN [y EXCEPT !.preChkId = ChkOf(mm, c).id] ELSE mm
  BY DEF AdvancePersistenceCursor
<1>2. /\ m \in Record(Len(m.list)) /\ m.cursor \in [Names -> Cursor] /\ c \in Names
      /\ c \in Registered(m) /\ m.cursor[c] \in Cursor /\ ChkOf(m, c) = m.list[i]
  BY Parts DEF ChkOf
<1>3. mm = IF skip THEN StepCursor(m, c) ELSE m
  BY <1>2 DEF StepCursor, Record, Cursor
<1>4. ManagerOK(mm) /\ OffsetsOK(mm)
  BY <1>2, <1>3, StepCursorOK, StepCursorOffsets
<1>5. OrderOK(mm) /\ c \in Registered(mm)
  <2>1. CASE skip
    <3>1. Moves(m, c, NextKey(ChkOf(m, c), p), StepCursor(m, c))
      BY <1>2, StepCursorEffect
    <3> HIDE DEF mm
    <3>2. mm.list = m.list /\ mm.mutationCounter = m.mutationCounter
      BY <1>3, <2>1, <3>1 DEF Moves
    <3>3. SameMids(m, mm)
      BY <3>2 DEF SameMids
    <3> QED
      BY <1>4, <3>2, <3>3, OrderSame, Parts
  <2>2. CASE ~skip
    BY <1>2, <2>2
  <2> QED
    BY <2>1, <2>2
<1> HIDE DEF mm, q, skip
<1>6. CASE AtEnd(mm, c) /\ CanMoveNext(mm, c)
  <2>1. OffsetsOK(y) /\ ManagerOK(y)
    BY <1>4, <1>5, <1>6, MoveCursorOffsets, MoveCursorOK
  <2>2. y \in Record(Len(y.list))
    BY <2>1, Parts
  <2> HIDE DEF y
  <2>3. q.list = y.list /\ q.cursor = y.cursor
    BY <1>1, <1>6, <2>2 DEF Record
  <2>4. OffsetsOK(q)
    BY <2>1, <2>3, OffsetsHere
  <2> QED
    BY <2>4 DEF q
<1>7. CASE ~(AtEnd(mm, c) /\ CanMoveNext(mm, c))
  <2>1. OffsetsOK(q)
    BY <1>1, <1>4, <1>7
  <2> QED
    BY <2>1 DEF q
<1> QED
  BY <1>6, <1>7
-----------------------------------------------------------------------------
(***************************************************************************)
(* A master's manager: every operation of it leaves the last checkpoint    *)
(* open, numItems and all offsets exact.                                   *)
(***************************************************************************)
\* What all of them keep.
Exact(m) ==
  /\ ManagerOK(m)
  /\ Orderly(m)
  /\ Counted(m)
  /\ OffsetsOK(m)
  /\ LastChk(m).open

\* What Orderly says of a master.
LEMMA MasterOrderly ==
  ASSUME AlwaysMaster, NEW m, Orderly(m)
  PROVE  OrderOK(m) /\ MetaOK(m)
BY DEF Orderly

\* Items, offsets and what is open are told by the list and the cursors.
LEMMA ExactHere ==
  ASSUME NEW m, Exact(m), NEW q, OnlyCounters(m, q), q.numItems = m.numItems
  PROVE  Exact(q)
<1>1. ManagerOK(m) /\ ShapeOK(m) /\ Orderly(m) /\ Counted(m) /\ OffsetsOK(m) /\ LastChk(m).open
  BY DEF Exact, ManagerOK
<1>2. q.list = m.list /\ q.cursor = m.cursor
  BY DEF OnlyCounters
<1>3. ManagerOK(q) /\ Orderly(q)
  BY <1>1, SameCursors, OrderlyCounters
<1>4. Counted(q) /\ OffsetsOK(q)
  BY <1>1, <1>2, CountedHere, OffsetsHere
<1>5. LastChk(q).open
  BY <1>1, <1>2 DEF LastChk
<1> QED
  BY <1>3, <1>4, <1>5 DEF Exact

\* addNewCheckpoint_UNLOCKED with a greater id.
LEMMA AddNewExact ==
  ASSUME AlwaysMaster, NEW m, Exact(m), NEW id \in Nat, LastChk(m).id < id
  PROVE  Exact(AddNewCheckpoint(m, id))
<1> DEFINE a == CloseOpenCheckpoint(m, LastChk(m).id)
           b == Appended(a, id)
           q == AdvancePersistenceCursor(b)
<1>1. /\ ManagerOK(m) /\ Orderly(m) /\ Counted(m) /\ OffsetsOK(m) /\ LastChk(m).open
      /\ OrderOK(m) /\ MetaOK(m)
  BY MasterOrderly DEF Exact
<1>2. ManagerOK(a) /\ IsClosed(m, a) /\ OffsetsOK(a) /\ Len(a.list) = Len(m.list)
  BY <1>1, CloseOpenOK, CloseOpenEffect, CloseOpenOffsets
<1>3. AddNewCheckpoint(m, id) = q
  BY DEF AddNewCheckpoint, Appended
<1> HIDE DEF a
<1>4. Orderly(a)
  BY <1>1, <1>2, OrderlyClosed
<1>5. ~LastChk(a).open /\ LastChk(a).id = LastChk(m).id
  <2>1. Len(m.list) \in 1..Len(m.list)
    BY <1>1, Parts
  <2> QED
    BY <1>2, <2>1 DEF IsClosed, ItemQueued, LastChk
<1>6. ManagerOK(b) /\ IsAppended(a, id, b) /\ OffsetsOK(b) /\ Len(b.list) = Len(a.list) + 1
  BY <1>2, AppendedOK, AppendedEffect, AppendedOffsets
<1> HIDE DEF b
<1>7. Orderly(b) /\ OrderOK(b)
  <2>1. Orderly(b)
    BY <1>2, <1>4, <1>5, <1>6, OrderlyAppended
  <2> QED
    BY <2>1 DEF Orderly
<1>8. LastChk(b).open
  BY <1>6 DEF IsAppended, LastChk
<1>9. ManagerOK(q) /\ IsAdvanced(b, q) /\ OffsetsOK(q)
  BY <1>6, <1>7, AdvancePersistenceCursorOK, AdvanceEffect, AdvanceOffsets
<1>10. Counted(q)
  BY <1>1, <1>3, AddNewCount
<1> HIDE DEF q
<1>11. Orderly(q)
  BY <1>6, <1>7, <1>9, OrderlyAdvanced
<1>12. LastChk(q).open
  <2>1. Len(b.list) \in 1..Len(b.list)
    BY <1>6, Parts
  <2>2. SameMids(b, q)
    BY <1>9 DEF IsAdvanced
  <2> QED
    BY <1>8, <2>1, <2>2 DEF SameMids, LastChk
<1> QED
  BY <1>3, <1>9, <1>10, <1>11, <1>12 DEF Exact

\* checkOpenCheckpoint_UNLOCKED.
LEMMA CheckOpenExact ==
  ASSUME AlwaysMaster, NEW m, Exact(m), NEW force, NEW timeUp
  PROVE  Exact(CheckOpenCheckpoint(m, force, timeUp))
<1>1. LastChk(m).id \in Nat
  BY LastFacts DEF Exact
<1>2. LastChk(m).id + 1 \in Nat /\ LastChk(m).id < LastChk(m).id + 1
  BY <1>1
<1>3. Exact(AddNewCheckpoint(m, LastChk(m).id + 1))
  BY <1>2, AddNewExact
<1> QED
  BY <1>3 DEF CheckOpenCheckpoint

\* The cursors that are done with the checkpoint that was closed.
LEMMA MoveFinishedExact ==
  ASSUME AlwaysMaster, NEW m, Exact(m), NEW oldId
  PROVE  Exact(MoveFinishedCursors(m, oldId))
<1> DEFINE q == MoveFinishedCursors(m, oldId)
           n == Len(m.list)
           done == Finished(m, oldId)
<1>1. /\ ManagerOK(m) /\ Orderly(m) /\ Counted(m) /\ OffsetsOK(m) /\ LastChk(m).open
      /\ OrderOK(m)
  BY MasterOrderly DEF Exact
<1>2. ManagerOK(q) /\ HaveMovedOn(m, done, q) /\ Counted(q)
  BY <1>1, MoveFinishedCursorsOK, MoveFinishedEffect, MoveFinishedCount
<1>3. /\ n \in Nat \ {0} /\ m \in Record(n) /\ m.cursor \in [Names -> Cursor]
      /\ Registered(m) \subseteq Names
  BY <1>1, Parts
<1>4. \A c \in done : q.cursor[c].offset = m.cursor[c].offset
  <2>1. q.cursor = [c \in Names |->
                      IF c \in done
                      THEN [m.cursor[c] EXCEPT !.chk = @ + 1, !.pos = Dummy]
                      ELSE m.cursor[c]]
    BY <1>3 DEF MoveFinishedCursors, Record, Finished
  <2>2. done \subseteq Names
    BY <1>3 DEF Finished
  <2> HIDE DEF done, q
  <2>3. ASSUME NEW c \in done
        PROVE  q.cursor[c].offset = m.cursor[c].offset
    <3>1. m.cursor[c] \in Cursor /\ c \in Names
      BY <1>3, <2>2
    <3>2. q.cursor[c] = [m.cursor[c] EXCEPT !.chk = m.cursor[c].chk + 1, !.pos = Dummy]
      BY <2>1, <3>1
    <3> QED
      BY <3>1, <3>2 DEF Cursor
  <2> QED
    BY <2>3
<1>5. \A c \in done : After(m.list[m.cursor[c].chk], m.cursor[c].pos) = {} /\ c \in Registered(m)
  BY DEF Finished, AtEnd, ChkOf
<1> HIDE DEF q, done
<1>6. Orderly(q)
  BY <1>1, <1>2, OrderlyMovedOn DEF done
<1>7. /\ SameMids(m, q) /\ \A c \in Names \ done : q.cursor[c] = m.cursor[c]
      /\ \A c \in done : /\ m.cursor[c].chk \in 1..(n - 1)
                         /\ q.cursor[c].chk = m.cursor[c].chk + 1 /\ q.cursor[c].pos = Dummy
  BY <1>2 DEF HaveMovedOn
<1>8. Registered(q) \subseteq Registered(m)
  BY <1>5, <1>7 DEF Registered
<1>9. ASSUME NEW d \in Registered(m)
      PROVE  OffsetOK(q, d)
  <2> DEFINE i == m.cursor[d].chk
             h == i + 1
             p == m.cursor[d].pos
  <2>1. i \in 1..n /\ p \in AllKeys /\ d \in Names /\ OffsetOK(m, d)
    BY <1>1, <1>3, Parts DEF OffsetsOK
  <2>2. CASE d \in done
    <3>1. i \in 1..(n - 1) /\ h \in Nat \ {0} /\ h \in 1..n
      BY <1>3, <1>7, <2>2
    <3>2. UpTo(m.list, h, Dummy) = UpTo(m.list, i, p)
      BY <1>1, <1>5, <2>1, <2>2, <3>1, EndIsNextDummy
    <3>3. h \in Nat \ {0} /\ \A j \in 1..h : q.list[j].mid = m.list[j].mid
      BY <1>3, <1>7, <3>1 DEF SameMids
    <3> HIDE DEF h
    <3>4. UpTo(q.list, h, Dummy) = UpTo(m.list, h, Dummy)
      BY <3>3, UpToSame
    <3>5. q.cursor[d].chk = h /\ q.cursor[d].pos = Dummy /\ q.cursor[d].offset = m.cursor[d].offset
      BY <1>4, <1>7, <2>2 DEF h
    <3> QED
      BY <2>1, <3>2, <3>4, <3>5 DEF OffsetOK
  <2>3. CASE d \notin done
    <3>1. q.cursor[d] = m.cursor[d]
      BY <1>7, <2>1, <2>3
    <3>2. SameCursor(m, q, d)
      BY <3>1 DEF SameCursor
    <3>3. \A j \in 1..m.cursor[d].chk : q.list[j].mid = m.list[j].mid
      BY <1>3, <1>7, <2>1 DEF SameMids
    <3> QED
      BY <1>1, <2>1, <3>2, <3>3, OffsetKept
  <2> QED
    BY <2>2, <2>3
<1>10. OffsetsOK(q)
  BY <1>8, <1>9 DEF OffsetsOK
<1>11. LastChk(q).open
  BY <1>1, <1>3, <1>7 DEF SameMids, LastChk
<1>12. Exact(q)
  BY <1>2, <1>6, <1>10, <1>11 DEF Exact
<1> QED
  BY <1>12 DEF q

\* The checkpoints that the scan drops are behind all cursors.
LEMMA DropUnrefExact ==
  ASSUME AlwaysMaster, NEW m, Exact(m)
  PROVE  Exact(DropUnref(m))
<1> DEFINE q == DropUnref(m)
           n == Len(m.list)
           r == NumUnref(m)
           gone == DocsIn(m.list, r) + 2 * r
<1>1. /\ ManagerOK(m) /\ Orderly(m) /\ Counted(m) /\ OffsetsOK(m) /\ LastChk(m).open
      /\ OrderOK(m)
  BY MasterOrderly DEF Exact
<1>2. ManagerOK(q) /\ IsCut(m, r, q) /\ Counted(q)
  BY <1>1, DropUnrefOK, DropUnrefEffect, DropUnrefCount
<1>3. /\ n \in Nat \ {0} /\ m \in Record(n) /\ m.cursor \in [Names -> Cursor]
      /\ Registered(m) \subseteq Names
  BY <1>1, Parts
<1>4. r \in Nat /\ gone \in Nat
  BY <1>2, DocsInNat DEF IsCut
<1>5. \A d \in Registered(m) : q.cursor[d].offset = DecrOffset(m.cursor[d].offset, gone)
  <2>1. q.cursor = [c \in Names |->
                      IF c \in Registered(m)
                      THEN [m.cursor[c] EXCEPT !.chk = @ - r, !.offset = DecrOffset(@, gone)]
                      ELSE m.cursor[c]]
    BY <1>3 DEF DropUnref, Record
  <2> HIDE DEF q, r, gone
  <2>2. ASSUME NEW d \in Registered(m)
        PROVE  q.cursor[d].offset = DecrOffset(m.cursor[d].offset, gone)
    <3> DEFINE o == DecrOffset(m.cursor[d].offset, gone)
               k == m.cursor[d].chk - r
    <3>1. m.cursor[d] \in Cursor /\ d \in Names
      BY <1>3
    <3>2. q.cursor[d] = [m.cursor[d] EXCEPT !.chk = k, !.offset = o]
      BY <2>1, <3>1
    <3> HIDE DEF o, k
    <3>3. q.cursor[d].offset = o
      BY <3>1, <3>2 DEF Cursor
    <3> QED
      BY <3>3 DEF o
  <2> QED
    BY <2>2
<1> HIDE DEF q, r
<1>6. /\ r < n /\ Len(q.list) = n - r
      /\ \A i \in 1..(n - r) : /\ q.list[i].mid = m.list[i + r].mid
                               /\ q.list[i].open = m.list[i + r].open
      /\ \A d \in Registered(m) : /\ r < m.cursor[d].chk
                                  /\ q.cursor[d].chk = m.cursor[d].chk - r
                                  /\ q.cursor[d].pos = m.cursor[d].pos
      /\ \A d \in Names \ Registered(m) : q.cursor[d] = m.cursor[d]
  BY <1>2 DEF IsCut
<1>7. Orderly(q)
  BY <1>1, <1>2, OrderlyCut
<1>8. LastChk(q).open
  <2>1. n - r \in 1..(n - r) /\ (n - r) + r = n
    BY <1>3, <1>4, <1>6
  <2> QED
    BY <1>1, <1>6, <2>1 DEF LastChk
<1>9. Registered(q) \subseteq Registered(m)
  BY <1>6 DEF Registered
<1>10. Follows(m.list, q.list, n, r)
  BY <1>6 DEF Follows
<1>11. ASSUME NEW d \in Registered(m)
       PROVE  OffsetOK(q, d)
  <2> DEFINE i == m.cursor[d].chk
             p == m.cursor[d].pos
             A == Cardinality(UpTo(m.list, i, p))
             B == Cardinality(UpTo(q.list, i - r, p))
  <2>1. i \in 1..n /\ r < i /\ OffsetOK(m, d)
    BY <1>1, <1>6, Parts DEF OffsetsOK
  <2>2. A = B + gone
    BY <1>1, <1>4, <1>10, <2>1, UpToCut
  <2>3. B \in Nat
    BY <1>3, <1>4, <2>1, UpToFinite
  <2>4. m.cursor[d].offset = A
    BY <2>1 DEF OffsetOK
  <2>5. q.cursor[d].offset = DecrOffset(A, gone)
    BY <1>5, <2>4
  <2> HIDE DEF A, B, gone
  <2>6. q.cursor[d].offset = B
    BY <1>4, <2>2, <2>3, <2>5 DEF DecrOffset
  <2> QED
    BY <1>6, <2>6 DEF OffsetOK, B
<1>12. OffsetsOK(q)
  BY <1>9, <1>11 DEF OffsetsOK
<1>13. Exact(q)
  BY <1>2, <1>7, <1>8, <1>12 DEF Exact
<1> QED
  BY <1>13 DEF q

\* removeClosedUnrefCheckpoints: a master does not collapse checkpoints.
LEMMA RemoveUnrefExact ==
  ASSUME AlwaysMaster, IsMaster, NEW m, Exact(m), NEW forced, NEW memHigh, NEW timeUp
  PROVE  Exact(RemoveClosedUnref(m, forced, memHigh, timeUp))
<1> DEFINE q == RemoveClosedUnref(m, forced, memHigh, timeUp)
           force  == /\ forced /\ memHigh
                     /\ Cardinality(Registered(m)) = Cardinality(LastChk(m).cursors)
           create == /\ IsMaster /\ CanCreateNewCheckpoint(m)
                     /\ NeedsNewCheckpoint(m, force, timeUp)
           oldId  == LastChk(m).id
           x == CheckOpenCheckpoint(m, force, timeUp)
           y == IF ~create THEN m ELSE IF oldId = 0 THEN x ELSE MoveFinishedCursors(x, oldId)
           z == DropUnref(y)
<1>1. q = y \/ q = z
  BY DEF RemoveClosedUnref, IsMaster
<1>2. Exact(x)
  BY CheckOpenExact
<1> HIDE DEF q, x
<1>3. Exact(MoveFinishedCursors(x, oldId))
  BY <1>2, MoveFinishedExact
<1> HIDE DEF create, oldId
<1>4. Exact(y)
  BY <1>2, <1>3
<1> HIDE DEF y
<1>5. Exact(z)
  BY <1>4, DropUnrefExact
<1>6. Exact(q)
  BY <1>1, <1>4, <1>5
<1> QED
  BY <1>6 DEF q
-----------------------------------------------------------------------------
\* An operation that keeps the items leaves the last checkpoint open.
LEMMA LastStaysOpen ==
  ASSUME NEW m, ManagerOK(m), LastChk(m).open, NEW q, SameMids(m, q)
  PROVE  LastChk(q).open
<1>1. Len(m.list) \in 1..Len(m.list)
  BY Parts
<1> QED
  BY <1>1 DEF SameMids, LastChk

\* nextItem's step within a checkpoint.
LEMMA StepCursorExact ==
  ASSUME AlwaysMaster, NEW m, Exact(m), NEW c \in Registered(m), ~AtEnd(m, c)
  PROVE  Exact(StepCursor(m, c))
<1> DEFINE q == StepCursor(m, c)
<1>1. /\ ManagerOK(m) /\ Orderly(m) /\ Counted(m) /\ OffsetsOK(m) /\ LastChk(m).open
      /\ OrderOK(m)
  BY MasterOrderly DEF Exact
<1>2. c \in Names
  BY <1>1, Parts
<1>3. /\ ManagerOK(q) /\ Moves(m, c, NextKey(ChkOf(m, c), m.cursor[c].pos), q)
      /\ Counted(q) /\ OffsetsOK(q)
  BY <1>1, <1>2, StepCursorOK, StepCursorEffect, StepCount, StepCursorOffsets
<1> HIDE DEF q
<1>4. Orderly(q)
  BY <1>1, <1>2, <1>3, OrderlyMoves
<1>5. LastChk(q).open
  BY <1>1, <1>3 DEF Moves, LastChk
<1>6. Exact(q)
  BY <1>3, <1>4, <1>5 DEF Exact
<1> QED
  BY <1>6 DEF q

\* decrTapCursorFromCheckpointEnd.
LEMMA DecrTapExact ==
  ASSUME AlwaysMaster, NEW m, Exact(m), NEW c \in Names
  PROVE  Exact(DecrTapCursorFromCheckpointEnd(m, c))
<1> DEFINE q == DecrTapCursorFromCheckpointEnd(m, c)
<1>1. /\ ManagerOK(m) /\ Orderly(m) /\ Counted(m) /\ OffsetsOK(m) /\ LastChk(m).open
      /\ OrderOK(m)
  BY MasterOrderly DEF Exact
<1>2. ManagerOK(q) /\ Counted(q) /\ OffsetsOK(q)
  BY <1>1, DecrTapCursorOK, StepCount, DecrTapOffsets
<1>3. q = m \/ Moves(m, c, PrevKey(ChkOf(m, c), End), q)
  BY <1>1, DecrTapCursorEffect
<1> HIDE DEF q
<1>4. Orderly(q)
  BY <1>1, <1>3, OrderlyMoves
<1>5. LastChk(q).open
  BY <1>1, <1>3 DEF Moves, LastChk
<1>6. Exact(q)
  BY <1>2, <1>4, <1>5 DEF Exact
<1> QED
  BY <1>6 DEF q

\* moveCursorToNextCheckpoint, from the end of a closed checkpoint.
LEMMA MoveCursorExact ==
  ASSUME AlwaysMaster, NEW m, Exact(m), NEW c \in Registered(m), CanMoveNext(m, c), AtEnd(m, c)
  PROVE  Exact(MoveCursorToNextCheckpoint(m, c))
<1> DEFINE q == MoveCursorToNextCheckpoint(m, c)
<1>1. /\ ManagerOK(m) /\ Orderly(m) /\ Counted(m) /\ OffsetsOK(m) /\ LastChk(m).open
      /\ OrderOK(m)
  BY MasterOrderly DEF Exact
<1>2. c \in Names /\ Len(m.list) \in Nat \ {0}
  BY <1>1, Parts
<1>3. /\ ManagerOK(q) /\ MovedOn(m, c, q) /\ OffsetsOK(q) /\ q.numItems = m.numItems
  BY <1>1, MoveCursorOK, MoveCursorEffect, MoveCursorOffsets, MoveCursorCount
<1> HIDE DEF q
<1>4. SameMids(m, q)
  BY <1>3 DEF MovedOn
<1>5. Orderly(q) /\ Counted(q) /\ LastChk(q).open
  BY <1>1, <1>2, <1>3, <1>4, OrderlyNext, CountedSame, LastStaysOpen
<1>6. Exact(q)
  BY <1>3, <1>5 DEF Exact
<1> QED
  BY <1>6 DEF q

\* nextItem in an open checkpoint.
LEMMA NextFromOpenExact ==
  ASSUME AlwaysMaster, NEW m, Exact(m), NEW c \in Registered(m)
  PROVE  Exact(NextFromOpen(m, c))
BY StepCursorExact DEF NextFromOpen

\* nextItem in a closed one.
LEMMA NextFromClosedExact ==
  ASSUME AlwaysMaster, NEW m, Exact(m), NEW c \in Registered(m)
  PROVE  Exact(NextFromClosed(m, c))
<1> DEFINE mm == MoveCursorToNextCheckpoint(m, c)
<1>1. CASE AtEnd(m, c) /\ CanMoveNext(m, c) /\ ~PastClosedOnly(m, c)
  <2>1. Exact(mm) /\ ManagerOK(mm) /\ c \in Registered(mm) /\ mm.cursor[c].pos = Dummy
    BY <1>1, MoveCursorExact, MoveCursorOK DEF Exact
  <2> HIDE DEF mm
  <2>2. ~AtEnd(mm, c)
    BY <2>1, DummyNotAtEnd
  <2>3. Exact(NextFromOpen(mm, c)) /\ Exact(StepCursor(mm, c))
    BY <2>1, <2>2, NextFromOpenExact, StepCursorExact
  <2> QED
    BY <1>1, <2>3 DEF NextFromClosed, mm
<1>2. CASE ~(AtEnd(m, c) /\ CanMoveNext(m, c) /\ ~PastClosedOnly(m, c))
  <2>1. NextFromClosed(m, c) = m \/ (~AtEnd(m, c) /\ NextFromClosed(m, c) = StepCursor(m, c))
    BY <1>2 DEF NextFromClosed
  <2> QED
    BY <2>1, StepCursorExact
<1> QED
  BY <1>1, <1>2

\* nextItem.
LEMMA AdvanceTapExact ==
  ASSUME AlwaysMaster, NEW m, Exact(m), NEW c \in Names
  PROVE  Exact(AdvanceTapCursor(m, c))
BY NextFromOpenExact, NextFromClosedExact DEF AdvanceTapCursor, Registered

\* registerTAPCursor: the offset is the number of items before the checkpoint, also if it
\* is computed from numItems.
LEMMA RegisterExact ==
  ASSUME AlwaysMaster, NEW m, Exact(m), NEW c \in Names, NEW id, NEW closedOnly \in BOOLEAN,
         NEW fromBeginning,
         KeepsPosition(m, c, id, fromBeginning) => m.cursor[c].chk = ChkWithId(m, id)
  PROVE  Exact(RegisterCursor(m, c, id, closedOnly, fromBeginning))
<1> DEFINE q == RegisterCursor(m, c, id, closedOnly, fromBeginning)
           n == Len(m.list)
           at == ChkWithId(m, id)
           r == at - 1
           hits == {i \in DOMAIN m.list : m.list[i].id = id}
           stays == KeepsPosition(m, c, id, fromBeginning)
           off == IF hits = {} THEN m.numItems - (NumDocs(LastChk(m)) + 1)
                  ELSE IF stays THEN m.cursor[c].offset ELSE DocsIn(m.list, r) + 2 * r
<1>1. /\ ManagerOK(m) /\ Orderly(m) /\ Counted(m) /\ OffsetsOK(m) /\ LastChk(m).open
      /\ OrderOK(m)
  BY MasterOrderly DEF Exact
<1>2. ManagerOK(q) /\ IsRegistered(m, c, at, q) /\ Counted(q)
  BY <1>1, RegisterCursorOK, RegisterCursorEffect, RegisterCount
<1>3. /\ n \in Nat \ {0} /\ m \in Record(n) /\ m.cursor \in [Names -> Cursor]
      /\ DOMAIN m.list = 1..n /\ Registered(m) \subseteq Names
  BY <1>1, Parts
<1>4. q.cursor[c].offset = off /\ q.cursor[c].pos = IF stays THEN m.cursor[c].pos ELSE Dummy
  BY <1>3 DEF RegisterCursor, Record
<1>5. /\ SameMids(m, q) /\ at \in 1..n /\ q.cursor[c].chk = at
      /\ \A d \in Names \ {c} : q.cursor[d] = m.cursor[d]
  BY <1>2 DEF IsRegistered
<1>6. /\ hits = {} => at = n
      /\ stays => hits # {} /\ m.cursor[c].chk = at /\ c \in Registered(m)
  <2>1. stays => c \in Registered(m) /\ m.list[m.cursor[c].chk].id = id
    BY DEF KeepsPosition, ChkOf, Registered
  <2>2. stays => m.cursor[c].chk \in DOMAIN m.list
    BY <1>1, <1>3, <2>1, Parts
  <2>3. stays => hits # {}
    BY <2>1, <2>2
  <2> QED
    BY <2>1, <2>3 DEF ChkWithId
<1> HIDE DEF q, at, hits, stays, n
<1>7. Cardinality(UpTo(m.list, at, Dummy)) = DocsIn(m.list, r) + 2 * r
  <2>1. UpTo(m.list, at, Dummy) = ItemsIn(m.list, r, ItemKeys)
    BY <1>1, <1>5, UpToDummy DEF n
  <2>2. r \in Nat /\ r < Len(m.list)
    BY <1>3, <1>5 DEF n
  <2>3. Cardinality(ItemsIn(m.list, r, ItemKeys)) = DocsIn(m.list, r) + 2 * r
    BY <1>1, <2>2, ClosedBefore
  <2> QED
    BY <2>1, <2>3
<1>8. off = Cardinality(UpTo(m.list, at, q.cursor[c].pos))
  <2>1. CASE stays
    <3>1. OffsetOK(m, c)
      BY <1>1, <1>6, <2>1 DEF OffsetsOK
    <3> QED
      BY <1>4, <1>6, <2>1, <3>1 DEF OffsetOK
  <2>2. CASE ~stays /\ hits # {}
    BY <1>4, <1>7, <2>2
  <2>3. CASE ~stays /\ hits = {}
    <3>1. /\ DocsIn(m.list, n) = DocsIn(m.list, n - 1) + NumDocs(LastChk(m))
          /\ DocsIn(m.list, n - 1) \in Nat /\ NumDocs(LastChk(m)) \in Nat
      BY <1>3, LastApart DEF n
    <3>2. m.numItems = DocsIn(m.list, n) + 2 * n - 1
      BY <1>1 DEF Counted, Items, n
    <3>3. off = m.numItems - (NumDocs(LastChk(m)) + 1) /\ at = n
      BY <1>6, <2>3
    <3>4. Cardinality(UpTo(m.list, at, Dummy)) = DocsIn(m.list, n - 1) + 2 * (n - 1)
      BY <1>7, <3>3
    <3> DEFINE docs == DocsIn(m.list, n - 1)
               last == NumDocs(LastChk(m))
    <3>5. /\ m.numItems = (docs + last) + 2 * n - 1 /\ docs \in Nat /\ last \in Nat
          /\ off = m.numItems - (last + 1)
          /\ Cardinality(UpTo(m.list, at, Dummy)) = docs + 2 * (n - 1)
      BY <3>1, <3>2, <3>3, <3>4
    <3> HIDE DEF off, docs, last
    <3>6. off = docs + 2 * (n - 1)
      BY <1>3, <3>5
    <3>7. off = Cardinality(UpTo(m.list, at, Dummy))
      BY <3>5, <3>6
    <3> QED
      BY <1>4, <2>3, <3>7
  <2> QED
    BY <2>1, <2>2, <2>3
<1> HIDE DEF off
<1>9. UpTo(q.list, at, q.cursor[c].pos) = UpTo(m.list, at, q.cursor[c].pos)
  <2> DEFINE p == q.cursor[c].pos
  <2>1. at \in Nat \ {0} /\ \A j \in 1..at : q.list[j].mid = m.list[j].mid
    BY <1>3, <1>5 DEF SameMids, n
  <2> HIDE DEF p
  <2>2. UpTo(q.list, at, p) = UpTo(m.list, at, p)
    BY <2>1, UpToSame
  <2> QED
    BY <2>2 DEF p
<1>10. OffsetOK(q, c)
  BY <1>4, <1>5, <1>8, <1>9 DEF OffsetOK
<1>11. OffsetsOK(q)
  BY <1>1, <1>5, <1>10, OneMoves
<1>12. Orderly(q) /\ LastChk(q).open
  BY <1>1, <1>2, <1>5, OrderlyRegistered, LastStaysOpen
<1>13. Exact(q)
  BY <1>2, <1>11, <1>12 DEF Exact
<1> QED
  BY <1>13 DEF q

\* removeTAPCursor.
LEMMA RemoveExact ==
  ASSUME AlwaysMaster, NEW m, Exact(m), NEW c \in Names, c # Persistence
  PROVE  Exact(RemoveCursor(m, c))
<1> DEFINE q == RemoveCursor(m, c)
<1>1. /\ ManagerOK(m) /\ Orderly(m) /\ Counted(m) /\ OffsetsOK(m) /\ LastChk(m).open
  BY DEF Exact
<1>2. ManagerOK(q) /\ IsRemoved(m, c, q) /\ Counted(q)
  BY <1>1, RemoveCursorOK, RemoveCursorEffect, RemoveCount
<1> HIDE DEF q
<1>3. /\ SameMids(m, q) /\ c \notin Registered(q)
      /\ \A d \in Names \ {c} : q.cursor[d] = m.cursor[d]
  BY <1>2 DEF IsRemoved, Registered
<1>4. OffsetsOK(q)
  BY <1>1, <1>3, OneMoves
<1>5. Orderly(q) /\ LastChk(q).open
  BY <1>1, <1>2, <1>3, OrderlyRemoved, LastStaysOpen
<1>6. Exact(q)
  BY <1>2, <1>4, <1>5 DEF Exact
<1> QED
  BY <1>6 DEF q

\* getAllItemsForPersistence: the flusher has everything, and its offset is numItems.
LEMMA TakeAllExact ==
  ASSUME AlwaysMaster, NEW m, Exact(m)
  PROVE  Exact(TakeAllForPersistence(m))
<1> DEFINE q == TakeAllForPersistence(m)
           n == Len(m.list)
           c == Persistence
           at == LastToTake(m, c)
           p == LastKey(m.list[n])
<1>1. /\ ManagerOK(m) /\ Orderly(m) /\ Counted(m) /\ OffsetsOK(m) /\ LastChk(m).open
      /\ OrderOK(m)
  BY MasterOrderly DEF Exact
<1>2. ManagerOK(q) /\ IsTaken(m, at, q) /\ Counted(q)
  BY <1>1, TakeAllOK, TakeAllEffect, TakeAllCount
<1>3. /\ n \in Nat \ {0} /\ n \in 1..n /\ m \in Record(n) /\ m.cursor \in [Names -> Cursor]
      /\ c \in Names
  BY <1>1, Parts, MetaKeysDiffer DEF MetaFact
<1>4. q.cursor[c].offset = m.numItems
  BY <1>3 DEF TakeAllForPersistence, Record, Cursor
<1>5. at \in 1..n /\ (m.list[at].open \/ at = n)
  <2>1. m.cursor[c].chk \in 1..n /\ at \in m.cursor[c].chk..n /\ (m.list[at].open \/ at = n)
    BY <1>2 DEF IsTaken
  <2> QED
    BY <1>3, <2>1
<1>6. at = n
  BY <1>1, <1>5 DEF OrderOK
<1> HIDE DEF q, at
<1>7. /\ SameMids(m, q) /\ q.cursor[c].chk = n /\ q.cursor[c].pos = p
      /\ \A d \in Names \ {c} : q.cursor[d] = m.cursor[d]
  BY <1>2, <1>6 DEF IsTaken
<1>8. After(m.list[n], p) = {} /\ p \in AllKeys
  <2>1. /\ ChkOK(m.list[n], m.mutationCounter) /\ m.mutationCounter \in Nat
        /\ \A k \in AllKeys : Rank(m.list[n], k) \in Nat
        /\ Present(m.list[n]) \subseteq AllKeys
    BY <1>1, <1>3, RankFacts
  <2>2. p \in Present(m.list[n]) /\ \A i \in Present(m.list[n]) : Rank(m.list[n], i) <= Rank(m.list[n], p)
    BY <2>1, LastKeyPresent
  <2> HIDE DEF p
  <2> QED
    BY <2>1, <2>2 DEF After
<1> HIDE DEF p
<1>9. UpTo(m.list, n, p) = ItemsIn(m.list, n, ItemKeys)
  BY <1>1, <1>3, <1>8, UpToEnd
<1>10. Cardinality(ItemsIn(m.list, n, ItemKeys)) = m.numItems
  BY <1>1, AllItems
<1>11. UpTo(q.list, n, p) = UpTo(m.list, n, p)
  <2>1. n \in Nat \ {0} /\ \A j \in 1..n : q.list[j].mid = m.list[j].mid
    BY <1>3, <1>7 DEF SameMids
  <2> HIDE DEF n
  <2> QED
    BY <2>1, UpToSame
<1>12. OffsetOK(q, c)
  BY <1>4, <1>7, <1>9, <1>10, <1>11 DEF OffsetOK
<1>13. OffsetsOK(q)
  BY <1>1, <1>3, <1>7, <1>12, OneMoves
<1>14. Orderly(q) /\ LastChk(q).open
  BY <1>1, <1>2, <1>7, OrderlyTaken, LastStaysOpen
<1>15. Exact(q)
  BY <1>2, <1>13, <1>14 DEF Exact
<1> QED
  BY <1>15 DEF q

\* A manager with one new checkpoint.
LEMMA FreshExact ==
  ASSUME NEW q, ManagerOK(q), NEW id, NEW names, IsFresh(q, id, names), q.numItems = 1,
         \A d \in names : q.cursor[d].offset = 0
  PROVE  Exact(q)
<1>1. /\ Orderly(q) /\ Counted(q) /\ OrderOK(q)
  BY OrderlyFresh, OrderFresh, FreshCount
<1>2. /\ Len(q.list) = 1 /\ q.list[1].open /\ Registered(q) = names
      /\ \A d \in names : q.cursor[d].chk = 1 /\ q.cursor[d].pos = Dummy
  BY DEF IsFresh
<1>3. UpTo(q.list, 1, Dummy) = {}
  <2>1. 1 \in 1..Len(q.list)
    BY <1>2
  <2>2. UpTo(q.list, 1, Dummy) = ItemsIn(q.list, 1 - 1, ItemKeys)
    BY <1>1, <2>1, UpToDummy
  <2>3. 1..(1 - 1) = {}
    OBVIOUS
  <2>4. ItemsIn(q.list, 1 - 1, ItemKeys) = {}
    BY <2>3 DEF ItemsIn
  <2> QED
    BY <2>2, <2>4
<1>4. Cardinality(UpTo(q.list, 1, Dummy)) = 0
  BY <1>3, FS_EmptySet
<1>5. OffsetsOK(q)
  BY <1>2, <1>4 DEF OffsetsOK, OffsetOK
<1>6. LastChk(q).open
  BY <1>2 DEF LastChk
<1> QED
  BY <1>1, <1>5, <1>6 DEF Exact

\* setOpenCheckpointId with an id that is not smaller, or in a list of one checkpoint.
LEMMA SetIdExact ==
  ASSUME NEW m, Exact(m), NEW id \in Nat,
         ~MayBeEmpty => Len(m.list) = 1 \/ LastChk(m).id <= id
  PROVE  Exact(SetOpenCheckpointId(m, id))
<1> DEFINE q == SetOpenCheckpointId(m, id)
<1>1. /\ ManagerOK(m) /\ ShapeOK(m) /\ Orderly(m) /\ Counted(m) /\ OffsetsOK(m) /\ LastChk(m).open
  BY DEF Exact, ManagerOK
<1>2. ManagerOK(q) /\ IdIsSet(m, id, q) /\ Counted(q) /\ Orderly(q)
  BY <1>1, SetOpenIdOK, SetOpenIdEffect, ResetSetCount, OrderlySetId
<1> HIDE DEF q
<1>3. SameMids(m, q) /\ q.cursor = m.cursor
  BY <1>2 DEF IdIsSet
<1>4. LastChk(q).open
  BY <1>1, <1>3, LastStaysOpen
<1>5. Registered(q) = Registered(m) /\ Persistence \in Names
  BY <1>3, MetaKeysDiffer DEF Registered, MetaFact
<1>6. ASSUME NEW d \in Registered(m)
      PROVE  OffsetOK(q, d)
  <2>1. m.cursor[d].chk \in 1..Len(m.list) /\ OffsetOK(m, d) /\ Len(m.list) \in Nat
    BY <1>1, Parts DEF OffsetsOK
  <2>2. SameCursor(m, q, d)
    BY <1>3 DEF SameCursor
  <2>3. \A j \in 1..m.cursor[d].chk : q.list[j].mid = m.list[j].mid
    BY <1>3, <2>1 DEF SameMids
  <2> QED
    BY <1>1, <2>1, <2>2, <2>3, OffsetKept
<1>7. Exact(q)
  BY <1>2, <1>4, <1>5, <1>6 DEF Exact, OffsetsOK
<1> QED
  BY <1>7 DEF q
-----------------------------------------------------------------------------
\* What is left is what the cursor has not reached: the rest of its checkpoint and all
\* of those after it.
LEMMA RemainingIsAhead ==
  ASSUME AlwaysMaster, NEW m, Exact(m), NEW c \in Registered(m)
  PROVE  m.numItems - m.cursor[c].offset = ItemsAhead(m, c)
<1> DEFINE n == Len(m.list)
           i == m.cursor[c].chk
           p == m.cursor[c].pos
           A == UpTo(m.list, i, p)
           R == After(m.list[i], p)
           H == {i} \X R
           F == {d \in ((i + 1)..n) \X ItemKeys : m.list[d[1]].mid[d[2]] # 0}
           T == ItemsIn(m.list, n, ItemKeys)
<1>1. /\ ManagerOK(m) /\ Counted(m) /\ OffsetsOK(m) /\ LastChk(m).open /\ OrderOK(m)
  BY MasterOrderly DEF Exact
<1>2. n \in Nat \ {0} /\ i \in 1..n /\ p \in AllKeys /\ m.list[i].mid[p] # 0
  BY <1>1, Parts
<1>3. /\ \A k \in AllKeys : Rank(m.list[i], k) \in Nat
      /\ Rank(m.list[i], Dummy) = 0 /\ Present(m.list[i]) \subseteq AllKeys
  BY <1>1, <1>2, RankFacts
<1>4. R = {k \in ItemKeys : /\ m.list[i].mid[k] # 0
                            /\ ~(Rank(m.list[i], k) <= Rank(m.list[i], p))}
  <2>1. /\ Rank(m.list[i], p) \in Nat /\ ~(Rank(m.list[i], Dummy) > Rank(m.list[i], p))
    BY <1>2, <1>3
  <2>2. \A k \in AllKeys : (k \in R) <=> (m.list[i].mid[k] # 0 /\ Rank(m.list[i], k) > Rank(m.list[i], p))
    BY DEF After, Present
  <2>3. R \subseteq AllKeys /\ Dummy \notin R
    BY <2>1 DEF After, Present
  <2>4. \A k \in AllKeys : (Rank(m.list[i], k) > Rank(m.list[i], p))
                              <=> ~(Rank(m.list[i], k) <= Rank(m.list[i], p))
    BY <1>3, <2>1
  <2> HIDE DEF R
  <2> QED
    BY <2>2, <2>3, <2>4 DEF ItemKeys
<1>5. m.cursor[c].offset = Cardinality(A) /\ m.numItems = Cardinality(T)
  BY <1>1, AllItems DEF OffsetsOK, OffsetOK
<1>6. IsFiniteSet(T) /\ IsFiniteSet(A) /\ Cardinality(A) \in Nat
  BY <1>2, ItemsFinite, UpToFinite DEF ItemKeys
<1>7. T = A \cup (H \cup F)
  <2>1. ASSUME NEW d \in T
        PROVE  d \in A \/ d \in H \/ d \in F
    <3>1. /\ d = <<d[1], d[2]>> /\ d[1] \in 1..n /\ d[2] \in ItemKeys
          /\ m.list[d[1]].mid[d[2]] # 0
      BY DEF ItemsIn
    <3>2. CASE d[1] < i
      <4>1. d[1] \in 1..i /\ d[1] # i
        BY <1>2, <3>1, <3>2
      <4>2. d \in ItemsIn(m.list, i, ItemKeys)
        BY <3>1, <4>1 DEF ItemsIn
      <4> QED
        BY <4>1, <4>2 DEF UpTo
    <3>3. CASE d[1] = i
      <4>1. CASE Rank(m.list[i], d[2]) <= Rank(m.list[i], p)
        <5>1. d[1] \in 1..i
          BY <1>2, <3>3
        <5>2. d \in ItemsIn(m.list, i, ItemKeys)
          BY <3>1, <5>1 DEF ItemsIn
        <5> QED
          BY <3>3, <4>1, <5>2 DEF UpTo
      <4>2. CASE ~(Rank(m.list[i], d[2]) <= Rank(m.list[i], p))
        <5>1. d[2] \in R
          BY <1>4, <3>1, <3>3, <4>2
        <5> QED
          BY <3>1, <3>3, <5>1
      <4> QED
        BY <4>1, <4>2
    <3>4. CASE d[1] > i
      <4>1. d[1] \in (i + 1)..n
        BY <1>2, <3>1, <3>4
      <4> QED
        BY <3>1, <4>1
    <3>5. d[1] < i \/ d[1] = i \/ d[1] > i
      BY <1>2, <3>1
    <3> HIDE DEF A, H, F, T
    <3> QED
      BY <3>2, <3>3, <3>4, <3>5
  <2>2. A \subseteq T
    <3>1. A \subseteq ItemsIn(m.list, i, ItemKeys)
      BY DEF UpTo
    <3>2. 1..i \subseteq 1..n
      BY <1>2
    <3>3. ItemsIn(m.list, i, ItemKeys) \subseteq T
      BY <3>2 DEF ItemsIn
    <3> HIDE DEF A, T
    <3> QED
      BY <3>1, <3>3
  <2>3. H \subseteq T
    BY <1>2, <1>4 DEF ItemsIn
  <2>4. F \subseteq T
    <3>1. (i + 1)..n \subseteq 1..n
      BY <1>2
    <3> QED
      BY <3>1 DEF ItemsIn
  <2> HIDE DEF A, H, F, T
  <2> QED
    BY <2>1, <2>2, <2>3, <2>4
<1>8. A \cap (H \cup F) = {} /\ H \cap F = {}
  <2>1. A \cap H = {}
    BY <1>4 DEF UpTo
  <2>2. \A d \in F : d[1] \in (i + 1)..n
    OBVIOUS
  <2>3. \A d \in A : d[1] \in 1..i
    BY DEF UpTo, ItemsIn
  <2>4. \A d \in H : d[1] = i
    OBVIOUS
  <2> HIDE DEF A, H, F
  <2> QED
    BY <1>2, <2>1, <2>2, <2>3, <2>4
<1>9. IsFiniteSet(H) /\ IsFiniteSet(F) /\ IsFiniteSet(R)
  <2>1. H \subseteq T /\ F \subseteq T
    BY <1>7
  <2>2. IsFiniteSet(AllKeys)
    BY KeysFinite
  <2>3. R \subseteq AllKeys
    BY <1>4 DEF ItemKeys
  <2> HIDE DEF H, F, R, T
  <2> QED
    BY <1>6, <2>1, <2>2, <2>3, FS_Subset
<1>10. ItemsAhead(m, c) = Cardinality(R) + Cardinality(F)
  BY DEF ItemsAhead, ChkOf, ItemKeys
<1>11. Cardinality(H) = Cardinality(R)
  BY <1>9, ColumnCount
<1> HIDE DEF A, H, F, T, R
<1>12. IsFiniteSet(H \cup F) /\ Cardinality(H \cup F) = Cardinality(H) + Cardinality(F)
  BY <1>8, <1>9, CountBoth
<1>13. Cardinality(T) = Cardinality(A) + Cardinality(H \cup F)
  BY <1>6, <1>7, <1>8, <1>12, CountBoth
<1>14. Cardinality(H \cup F) \in Nat
  BY <1>12, FS_CardinalityType
<1>15. m.numItems - m.cursor[c].offset = Cardinality(H \cup F)
  BY <1>5, <1>6, <1>13, <1>14
<1> QED
  BY <1>10, <1>11, <1>12, <1>15

-----------------------------------------------------------------------------
\* The checkpoint that queueDirty finds is open.
LEMMA BeforeExact ==
  ASSUME AlwaysMaster, Exact(cm), NEW timeUp
  PROVE  Exact(BeforeQueueing(timeUp))
BY CheckOpenExact DEF BeforeQueueing

\* A client's mutation.
LEMMA QueueDirtyExact ==
  ASSUME AlwaysMaster, IInv, Exact(cm), NEW k \in Keys, QueueDirty(k)
  PROVE  Exact(cm')
<1>1. PICK timeUp \in BOOLEAN :
        LET m == BeforeQueueing(timeUp)
            q == QueueItem(m, k)
        IN LastChk(m).open /\ Becomes([q EXCEPT !.numItems =
                                IF LastChk(m).mid[k] = 0 THEN @ + 1 ELSE @])
  BY DEF QueueDirty
<1> DEFINE m == BeforeQueueing(timeUp)
           q == QueueItem(m, k)
           items == IF LastChk(m).mid[k] = 0 THEN q.numItems + 1 ELSE q.numItems
           z == [q EXCEPT !.numItems = items]
<1>2. Exact(m)
  BY BeforeExact
<1>3. cm' = z
  BY <1>1 DEF Becomes
<1> HIDE DEF m
<1>4. k \in AllKeys \ {Dummy, Start}
  BY MetaKeysDiffer DEF MetaFact
<1>5. ManagerOK(m) /\ OrderOK(m) /\ MetaOK(m) /\ OffsetsOK(m) /\ LastChk(m).open
  BY <1>2, MasterOrderly DEF Exact
<1>6. /\ ManagerOK(q) /\ OffsetsOK(q) /\ Len(q.list) = Len(m.list)
      /\ q.list[Len(m.list)].open = LastChk(m).open
  BY <1>4, <1>5, QueueItemOK, QueueItemEffect, QueueItemOffsets
<1> HIDE DEF q
<1>7. q \in Record(Len(q.list))
  BY <1>6, Parts
<1>8. z.list = q.list /\ z.cursor = q.cursor
  BY <1>7 DEF Record
<1> HIDE DEF z
<1>9. OffsetsOK(z)
  BY <1>6, <1>8, OffsetsHere
<1>10. LastChk(z).open
  BY <1>5, <1>6, <1>8 DEF LastChk
<1>11. IInv' /\ Orderly(cm') /\ Counted(cm')
  BY QueueDirtyOK, QueueOrder, QueueDirtyCount DEF Exact
<1> QED
  BY <1>3, <1>9, <1>10, <1>11 DEF Exact, IInv

\* The calls of a TAP connection.
LEMMA TapExact ==
  ASSUME AlwaysMaster, Exact(cm), NEW t \in TapNames,
         NextItem(t) \/ WaitAtCheckpointEnd(t) \/ RegisterTAPCursor(t) \/ RemoveTAPCursor(t)
  PROVE  Exact(cm')
<1>1. t \in Names /\ t # Persistence
  BY MetaKeysDiffer, NamesAssumption DEF MetaFact
<1>2. CASE NextItem(t)
  BY <1>1, <1>2, AdvanceTapExact DEF NextItem, Becomes
<1>3. CASE WaitAtCheckpointEnd(t)
  BY <1>1, <1>3, DecrTapExact DEF WaitAtCheckpointEnd, Becomes
<1>4. CASE RegisterTAPCursor(t)
  <2>1. PICK id \in 1..(MaxCheckpointId + 1), fromBeginning \in BOOLEAN :
          /\ ~RegisterStrays(t, id, fromBeginning)
          /\ Becomes(RegisterCursor(cm, t, id, t \in BackupTaps, fromBeginning))
    BY <1>4 DEF RegisterTAPCursor
  <2> DEFINE closedOnly == t \in BackupTaps
  <2>2. closedOnly \in BOOLEAN /\ cm' = RegisterCursor(cm, t, id, closedOnly, fromBeginning)
    BY <2>1 DEF Becomes
  <2> HIDE DEF closedOnly
  <2>3. KeepsPosition(cm, t, id, fromBeginning) => cm.cursor[t].chk = ChkWithId(cm, id)
    BY <2>1 DEF RegisterStrays
  <2> QED
    BY <1>1, <2>2, <2>3, RegisterExact
<1>5. CASE RemoveTAPCursor(t)
  BY <1>1, <1>5, RemoveExact DEF RemoveTAPCursor, Becomes
<1> QED
  BY <1>2, <1>3, <1>4, <1>5

\* The flusher, the remover, and the tasks and commands that add or empty checkpoints.
LEMMA TaskExact ==
  ASSUME AlwaysMaster, IInv, Exact(cm),
         \/ GetAllItemsForPersistence \/ RemoveClosedUnrefCheckpoints
         \/ CheckVBOpenCheckpoint \/ CreateNewCheckpoint \/ SetCheckpointExtension \/ Clear
  PROVE  Exact(cm')
<1>1. ManagerOK(cm) /\ IsMaster /\ cm \in Record(Len(cm.list))
  BY MasterFact, Parts DEF IInv
<1>2. LastChk(cm).id + 1 \in Nat /\ LastChk(cm).id < LastChk(cm).id + 1
  BY <1>1, LastFacts
<1>3. CASE GetAllItemsForPersistence
  BY <1>3, TakeAllExact DEF GetAllItemsForPersistence, Becomes
<1>4. CASE RemoveClosedUnrefCheckpoints
  BY <1>1, <1>4, RemoveUnrefExact DEF RemoveClosedUnrefCheckpoints, Becomes
<1>5. CASE CheckVBOpenCheckpoint
  BY <1>5, CheckOpenExact DEF CheckVBOpenCheckpoint, Becomes
<1>6. CASE CreateNewCheckpoint
  BY <1>2, <1>6, AddNewExact DEF CreateNewCheckpoint, Becomes
<1>7. CASE SetCheckpointExtension
  <2>1. PICK extend \in BOOLEAN : cm' = [cm EXCEPT !.extension = extend]
    BY <1>7 DEF SetCheckpointExtension, Becomes
  <2>2. OnlyCounters(cm, cm') /\ cm'.numItems = cm.numItems
    BY <1>1, <2>1 DEF Record, OnlyCounters
  <2> QED
    BY <2>2, ExactHere
<1>8. CASE Clear
  <2> DEFINE id == IF vbState = "active" THEN 1 ELSE 0
             y == [cm EXCEPT !.list = <<NewCheckpoint(id, 0)>>,
                             !.mutationCounter = 2, !.numItems = 1]
  <2>1. cm' = ResetCursors(y) /\ cm' = Cleared(cm, id) /\ id \in Nat
    BY <1>8 DEF Clear, Becomes, Cleared
  <2>2. /\ y.numItems = 1 /\ "numItems" \in DOMAIN y /\ "cursor" \in DOMAIN y
        /\ y.cursor = cm.cursor /\ cm.cursor \in [Names -> Cursor]
    BY <1>1 DEF Record
  <2>3. ManagerOK(Cleared(cm, id))
    BY <1>1, <2>1, ClearOK DEF Cleared
  <2> HIDE DEF id, y
  <2>4. cm'.numItems = 1
    BY <2>1, <2>2 DEF ResetCursors
  <2>5. \A d \in Registered(cm) : cm'.cursor[d].offset = 0
    <3>1. Registered(y) = Registered(cm) /\ Registered(cm) \subseteq Names
      BY <2>2 DEF Registered
    <3>2. \A d \in Registered(cm) :
            cm'.cursor[d] = [cm.cursor[d] EXCEPT !.chk = 1, !.pos = Dummy, !.offset = 0]
      BY <2>1, <2>2, <3>1 DEF ResetCursors
    <3>3. \A d \in Registered(cm) : cm.cursor[d] \in Cursor
      BY <2>2, <3>1
    <3> QED
      BY <3>2, <3>3 DEF Cursor
  <2>6. IsFresh(cm', id, Registered(cm))
    BY <1>1, <2>1, ClearEffect
  <2> QED
    BY <2>1, <2>3, <2>4, <2>5, <2>6, FreshExact
<1> QED
  BY <1>3, <1>4, <1>5, <1>6, <1>7, <1>8

\* A new manager.
LEMMA NewManagerExact ==
  ASSUME NEW id \in Nat, NEW names \in SUBSET Names, Persistence \in names
  PROVE  Exact(NewManager(id, names))
<1> DEFINE q == NewManager(id, names)
<1>1. ManagerOK(q) /\ IsFresh(q, id, names) /\ q.numItems = 1
  BY NewManagerOK, NewManagerEffect DEF NewManager
<1>2. \A d \in names : q.cursor[d].offset = 0
  BY DEF NewManager, NoCursor
<1> HIDE DEF q
<1>3. Exact(q)
  BY <1>1, <1>2, FreshExact
<1> QED
  BY <1>3 DEF q

\* The vbucket's backfills; its state does not change.
LEMMA VBucketExact ==
  ASSUME AlwaysMaster, IInv, Exact(cm),
         \/ InitialVBucketStream \/ CloseBackfill
         \/ \E to \in VBStates : SetVBucketState(to)
  PROVE  Exact(cm')
<1>1. CASE InitialVBucketStream
  <2>1. CASE cm' = SetOpenCheckpointId(ResetManager(cm, vbState), 0)
    <3> DEFINE names == Registered(cm) \cup {Persistence}
               z == NewManager(StartId(vbState), names)
    <3>1. StartId(vbState) \in Nat /\ names \in SUBSET Names
      BY MetaKeysDiffer DEF StartId, Registered, MetaFact
    <3>2. Exact(z) /\ Len(z.list) = 1
      BY <3>1, NewManagerExact, NewManagerEffect DEF IsFresh
    <3>3. z = ResetManager(cm, vbState)
      BY DEF ResetManager
    <3> HIDE DEF z
    <3> QED
      BY <2>1, <3>2, <3>3, SetIdExact
  <2>2. CASE MayBeEmpty /\ cm' = SetOpenCheckpointId(cm, 0)
    BY <2>2, SetIdExact
  <2> QED
    BY <1>1, <2>1, <2>2 DEF InitialVBucketStream, Becomes
<1>2. CASE CloseBackfill
  BY <1>2 DEF CloseBackfill, Becomes
<1>3. ASSUME NEW to \in VBStates, SetVBucketState(to)
      PROVE  FALSE
  BY <1>3 DEF SetVBucketState, AlwaysMaster, IInv, OthersOK
<1> QED
  BY <1>1, <1>2, <1>3

\* No step of a master miscounts, and none finds its last checkpoint closed.
LEMMA ExactNext ==
  ASSUME AlwaysMaster, IInv, Exact(cm), failure # "assertion", [Next]_vars
  PROVE  Exact(cm') /\ failure' # "assertion"
<1>1. CASE UNCHANGED vars
  BY <1>1 DEF vars
<1>2. CASE Next
  <2>1. 0..MaxCheckpointId \subseteq Nat /\ 1..MaxCheckpointId \subseteq Nat
    BY BoundsAssumption
  <2>2. ~AcceptsCheckpointMessages
    BY MasterFact
  <2>3. \/ \E k \in Keys : QueueDirty(k)
        \/ \E t \in TapNames : \/ NextItem(t) \/ WaitAtCheckpointEnd(t)
                               \/ RegisterTAPCursor(t) \/ RemoveTAPCursor(t)
        \/ \/ GetAllItemsForPersistence \/ RemoveClosedUnrefCheckpoints
           \/ CheckVBOpenCheckpoint \/ CreateNewCheckpoint \/ SetCheckpointExtension \/ Clear
        \/ \/ InitialVBucketStream \/ CloseBackfill
           \/ \E to \in VBStates : SetVBucketState(to)
        \/ QueueDirtyAborts
        \/ \E t \in TapNames : RegisterTAPCursorStrays(t)
    BY <1>2, <2>1, <2>2 DEF Next, CheckpointStart, CheckpointStartStrays, CheckpointEnd
  <2>4. CASE QueueDirtyAborts
    <3>1. \A timeUp \in BOOLEAN : LastChk(BeforeQueueing(timeUp)).open
      BY BeforeExact DEF Exact
    <3> QED
      BY <2>4, <3>1 DEF QueueDirtyAborts
  <2>5. CASE \E t \in TapNames : RegisterTAPCursorStrays(t)
    BY <2>5 DEF RegisterTAPCursorStrays
  <2>6. CASE \E k \in Keys : QueueDirty(k)
    BY <2>6, QueueDirtyExact DEF QueueDirty, Becomes
  <2>7. CASE \E t \in TapNames : \/ NextItem(t) \/ WaitAtCheckpointEnd(t)
                                 \/ RegisterTAPCursor(t) \/ RemoveTAPCursor(t)
    <3>1. UNCHANGED failure
      BY <2>7 DEF NextItem, WaitAtCheckpointEnd, RegisterTAPCursor, RemoveTAPCursor, Becomes
    <3> QED
      BY <2>7, <3>1, TapExact
  <2>8. CASE \/ GetAllItemsForPersistence \/ RemoveClosedUnrefCheckpoints
             \/ CheckVBOpenCheckpoint \/ CreateNewCheckpoint \/ SetCheckpointExtension \/ Clear
    <3>1. UNCHANGED failure
      BY <2>8 DEF GetAllItemsForPersistence, RemoveClosedUnrefCheckpoints, Becomes,
                  CheckVBOpenCheckpoint, CreateNewCheckpoint, SetCheckpointExtension, Clear
    <3> QED
      BY <2>8, <3>1, TaskExact
  <2>9. CASE \/ InitialVBucketStream \/ CloseBackfill
             \/ \E to \in VBStates : SetVBucketState(to)
    <3>1. UNCHANGED failure
      BY <2>9 DEF InitialVBucketStream, CloseBackfill, SetVBucketState, Becomes
    <3> QED
      BY <2>9, <3>1, VBucketExact
  <2> QED
    BY <2>3, <2>4, <2>5, <2>6, <2>7, <2>8, <2>9
<1> QED
  BY <1>1, <1>2

\* On a master: nothing is miscounted, and no assertion has failed.
ExactInv == Exact(cm) /\ failure # "assertion"

\* The inductive invariant of the counts: on a vbucket that is always a master, the last
\* checkpoint is open, and numItems and every cursor's offset are what they stand for.
THEOREM ExactInvariance ==
  ASSUME AlwaysMaster
  PROVE  Spec => []ExactInv
<1>1. Init => ExactInv
  <2> SUFFICES ASSUME Init
               PROVE  ExactInv
    OBVIOUS
  <2>1. PICK id \in {StartId(vbState)} \cup 1..MaxCheckpointId : cm = FreshManager(id)
    BY DEF Init
  <2>2. id \in Nat /\ {Persistence} \in SUBSET Names
    BY BoundsAssumption, MetaKeysDiffer DEF StartId, MetaFact
  <2>3. Exact(cm)
    BY <2>1, <2>2, NewManagerExact DEF FreshManager
  <2> QED
    BY <2>3 DEF Init, ExactInv
<1>2. IInv /\ ExactInv /\ [Next]_vars => ExactInv'
  BY ExactNext DEF ExactInv
<1>3. Spec => []IInv
  BY Invariance
<1> QED
  BY <1>1, <1>2, <1>3, PTL DEF Spec

\* What getNumItemsForPersistence and getNumItemsForTAPConnection compute on a master is
\* the number of items that the flusher or the connection has yet to reach, whatever was
\* deduplicated or dropped meanwhile, wherever the cursor was registered.
THEOREM RemainingStaysExact ==
  ASSUME AlwaysMaster
  PROVE  Spec => []RemainingExact
<1>1. ExactInv => RemainingExact
  BY RemainingIsAhead DEF ExactInv, RemainingExact
<1> QED
  BY <1>1, ExactInvariance, PTL

\* queueDirty's assertion does not fail on a vbucket that is always a master.
THEOREM MasterNeverAborts ==
  ASSUME AlwaysMaster
  PROVE  Spec => []NeverAborts
<1>1. ExactInv => NeverAborts
  BY DEF ExactInv, NeverAborts
<1> QED
  BY <1>1, ExactInvariance, PTL
=============================================================================
