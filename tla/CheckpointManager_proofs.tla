---------------------- MODULE CheckpointManager_proofs ----------------------
(***************************************************************************)
(* For every set of keys and TAP connections, every configuration and all  *)
(* bounds: the manager keeps its type, its cursors are live and its names  *)
(* belong to cursors.  The three are proved together, as the inductive     *)
(* invariant ManagerOK: a cursor's next position is only known to exist    *)
(* because it points to an item now, and its name is only found where it   *)
(* is moved from because it is registered there.                           *)
(***************************************************************************)
EXTENDS CheckpointManager, NaturalsInduction, SequenceTheorems,
        FiniteSetTheorems, TLAPS
-----------------------------------------------------------------------------
(***************************************************************************)
(* Minima and maxima of sets of natural numbers.                           *)
(***************************************************************************)

\* A nonempty set of numbers has a smallest one.
LEMMA NatMin ==
  ASSUME NEW T, T \subseteq Nat, T # {}
  PROVE  \E n \in T : \A i \in T : n <= i
<1> DEFINE R == OpToRel(<, Nat)
<1>1. PICK n \in T : \A i \in T : <<i, n>> \notin R
  BY NatLessThanWellFounded, WFMin, Zenon
<1>2. \A i \in T : ~(i < n)
  BY <1>1 DEF OpToRel
<1> QED
  BY <1>2

\* So has its image under a rank: what NextKey and FirstReferenced choose exists.
LEMMA RankMin ==
  ASSUME NEW T, T # {}, NEW f \in [T -> Nat]
  PROVE  \E x \in T : \A y \in T : f[x] <= f[y]
<1> DEFINE V == {f[x] : x \in T}
<1>1. V \subseteq Nat /\ V # {}
  OBVIOUS
<1>2. PICK n \in V : \A i \in V : n <= i
  BY <1>1, NatMin
<1> QED
  BY <1>2

\* A function on 1..n is a sequence of length n.
LEMMA FunIsSeq ==
  ASSUME NEW n \in Nat, NEW S, NEW f \in [1..n -> S]
  PROVE  f \in Seq(S) /\ Len(f) = n /\ DOMAIN f = 1..n
  OBVIOUS

\* and bounded ones have a largest.
LEMMA RankMax ==
  ASSUME NEW T, T # {}, NEW f \in [T -> Nat], NEW b \in Nat, \A x \in T : f[x] <= b
  PROVE  \E x \in T : \A y \in T : f[y] <= f[x]
<1> DEFINE g == [x \in T |-> b - f[x]]
<1>1. g \in [T -> Nat]
  OBVIOUS
<1>2. PICK x \in T : \A y \in T : g[x] <= g[y]
  BY <1>1, RankMin
<1> QED
  BY <1>2
-----------------------------------------------------------------------------
(***************************************************************************)
(* The inductive invariant.                                                *)
(***************************************************************************)

\* Both first meta items are there, and no id is ahead of the counter.
ChkOK(c, counter) ==
  /\ c \in Checkpoint
  /\ c.mid[Dummy] # 0
  /\ c.mid[Start] # 0
  /\ \A k \in AllKeys : c.mid[k] <= counter

\* The manager, save for where the cursors are.
ShapeOK(m) ==
  /\ m \in Manager
  /\ \A i \in 1..Len(m.list) : ChkOK(m.list[i], m.mutationCounter)
  /\ \A i \in 1..Len(m.list) : m.list[i].cursors \subseteq Registered(m)
  /\ Persistence \in Registered(m)

CursorOK(m, c) ==
  /\ m.cursor[c].chk \in 1..Len(m.list)
  /\ m.list[m.cursor[c].chk].mid[m.cursor[c].pos] # 0
  /\ c \in m.list[m.cursor[c].chk].cursors

ManagerOK(m) == ShapeOK(m) /\ \A c \in Registered(m) : CursorOK(m, c)

MetaFact ==
  /\ Dummy \in AllKeys /\ Start \in AllKeys /\ End \in AllKeys
  /\ Keys \subseteq AllKeys
  /\ Dummy # Start /\ Dummy # End /\ Start # End
  /\ Dummy \notin Keys /\ Start \notin Keys /\ End \notin Keys
  /\ Persistence \in Names /\ TapNames \subseteq Names

\* The keys of the meta items and the persistence cursor's name differ from all others.
LEMMA MetaKeysDiffer == MetaFact
  BY KeysAssumption DEF MetaFact, AllKeys, MetaKeys, Dummy, Start, End, Names

\* A manager with n checkpoints, its list as a function.
Record(n) == [list : [1..n -> Checkpoint], cursor : [Names -> Cursor],
              numItems : Int, mutationCounter : Nat, collapsed : BOOLEAN,
              extension : BOOLEAN, lastClosedId : Int, preChkId : Int]

\* What a well-shaped manager is made of.
LEMMA ShapeFacts ==
  ASSUME NEW m, ShapeOK(m)
  PROVE  /\ Len(m.list) \in Nat \ {0}
         /\ m \in Record(Len(m.list))
         /\ DOMAIN m.list = 1..Len(m.list)
         /\ Registered(m) = {c \in Names : m.cursor[c].chk # 0}
         /\ LastChk(m) = m.list[Len(m.list)]
<1>1. m.list \in Seq(Checkpoint) /\ m.list # <<>>
  BY DEF ShapeOK, Manager
<1>2. /\ Len(m.list) \in Nat \ {0} /\ DOMAIN m.list = 1..Len(m.list)
      /\ m.list \in [1..Len(m.list) -> Checkpoint]
  BY <1>1
<1>3. m \in Record(Len(m.list))
  BY <1>2 DEF ShapeOK, Manager, Record
<1> QED
  BY <1>2, <1>3 DEF Registered, LastChk

\* How a well-shaped manager is put together.
LEMMA ShapeIntro ==
  ASSUME NEW n \in Nat \ {0}, NEW m \in Record(n),
         \A i \in 1..n : ChkOK(m.list[i], m.mutationCounter),
         \A i \in 1..n : m.list[i].cursors \subseteq Registered(m),
         Persistence \in Registered(m)
  PROVE  ShapeOK(m) /\ Len(m.list) = n /\ DOMAIN m.list = 1..n
<1>1. m.list \in [1..n -> Checkpoint]
  BY DEF Record
<1>2. m.list \in Seq(Checkpoint) /\ Len(m.list) = n /\ m.list # <<>> /\ DOMAIN m.list = 1..n
  BY <1>1, FunIsSeq
<1>3. m \in Manager
  BY <1>2 DEF Record, Manager
<1> QED
  BY <1>2, <1>3 DEF ShapeOK

\* An operation that leaves the items alone.
LEMMA SameItems ==
  ASSUME NEW m, ShapeOK(m), NEW q \in Record(Len(m.list)),
         q.mutationCounter = m.mutationCounter,
         \A i \in 1..Len(m.list) : /\ q.list[i].mid = m.list[i].mid
                                   /\ q.list[i].cursors \subseteq Registered(q),
         Persistence \in Registered(q),
         \A c \in Registered(q) :
           /\ q.cursor[c].chk \in 1..Len(m.list)
           /\ m.list[q.cursor[c].chk].mid[q.cursor[c].pos] # 0
           /\ c \in q.list[q.cursor[c].chk].cursors
  PROVE  ManagerOK(q)
<1> DEFINE n == Len(m.list)
<1>1. n \in Nat \ {0}
  BY ShapeFacts
<1>2. \A i \in 1..n : ChkOK(q.list[i], q.mutationCounter)
  BY DEF ShapeOK, ChkOK, Record
<1>3. ShapeOK(q) /\ Len(q.list) = n
  BY <1>1, <1>2, ShapeIntro
<1>4. \A c \in Registered(q) : CursorOK(q, c)
  BY <1>3 DEF CursorOK
<1> QED
  BY <1>3, <1>4 DEF ManagerOK

-----------------------------------------------------------------------------
(***************************************************************************)
(* Neighbours in a checkpoint's list.                                      *)
(***************************************************************************)

LEMMA RankType ==
  ASSUME NEW c, NEW b, ChkOK(c, b), NEW k \in AllKeys
  PROVE  /\ Rank(c, k) \in Nat /\ c.mid[k] \in Nat
         /\ c.mid[k] # 0 /\ k # Dummy => Rank(c, k) > 0
  BY DEF ChkOK, Checkpoint, Rank

\* The item that a cursor steps to is there, and there is none between the two.
LEMMA NextKeyPresent ==
  ASSUME NEW c, NEW b, ChkOK(c, b), NEW k \in AllKeys, After(c, k) # {}
  PROVE  /\ NextKey(c, k) \in After(c, k)
         /\ \A i \in After(c, k) : Rank(c, NextKey(c, k)) <= Rank(c, i)
<1> DEFINE f == [j \in After(c, k) |-> Rank(c, j)]
<1>1. f \in [After(c, k) -> Nat]
  BY RankType DEF After, Present
<1>2. \E j \in After(c, k) : \A i \in After(c, k) : f[j] <= f[i]
  BY <1>1, RankMin
<1> QED
  BY <1>2 DEF NextKey

\* Every item but the first has a predecessor.
LEMMA PrevKeyPresent ==
  ASSUME NEW c, NEW b, ChkOK(c, b), NEW k \in AllKeys, c.mid[k] # 0, k # Dummy
  PROVE  /\ PrevKey(c, k) \in Before(c, k)
         /\ \A i \in Before(c, k) : Rank(c, i) <= Rank(c, PrevKey(c, k))
<1> DEFINE f == [j \in Before(c, k) |-> Rank(c, j)]
<1>1. f \in [Before(c, k) -> Nat] /\ \A j \in Before(c, k) : f[j] <= Rank(c, k)
  BY RankType DEF Before, Present
<1>2. Dummy \in Before(c, k)
  BY RankType, MetaKeysDiffer DEF Before, Present, MetaFact, ChkOK, Rank
<1>3. Rank(c, k) \in Nat
  BY RankType
<1>4. \E j \in Before(c, k) : \A i \in Before(c, k) : f[i] <= f[j]
  BY <1>1, <1>2, <1>3, RankMax
<1> QED
  BY <1>4 DEF PrevKey

\* The last item of a checkpoint is there, and none comes after it.
LEMMA LastKeyPresent ==
  ASSUME NEW c, NEW b \in Nat, ChkOK(c, b)
  PROVE  /\ LastKey(c) \in Present(c)
         /\ \A i \in Present(c) : Rank(c, i) <= Rank(c, LastKey(c))
<1> DEFINE f == [j \in Present(c) |-> Rank(c, j)]
<1>1. f \in [Present(c) -> Nat] /\ \A j \in Present(c) : f[j] <= b + 1
  BY RankType DEF Present, ChkOK, Rank
<1>2. Dummy \in Present(c)
  BY MetaKeysDiffer DEF Present, MetaFact, ChkOK
<1> DEFINE d == b + 1
<1>3. d \in Nat /\ \A j \in Present(c) : f[j] <= d
  BY <1>1
<1> HIDE DEF d
<1>4. \E j \in Present(c) : \A i \in Present(c) : f[i] <= f[j]
  BY <1>1, <1>2, <1>3, RankMax
<1> QED
  BY <1>4 DEF LastKey
-----------------------------------------------------------------------------
(***************************************************************************)
(* The operators that the operations are composed of.                      *)
(***************************************************************************)

LEMMA MoveCursorOK ==
  ASSUME NEW m, ManagerOK(m), NEW c \in Registered(m), CanMoveNext(m, c)
  PROVE  /\ ManagerOK(MoveCursorToNextCheckpoint(m, c))
         /\ c \in Registered(MoveCursorToNextCheckpoint(m, c))
         /\ MoveCursorToNextCheckpoint(m, c).cursor[c].pos = Dummy
<1> DEFINE q == MoveCursorToNextCheckpoint(m, c)
           n == Len(m.list)
           here == m.cursor[c].chk
<1>0. ShapeOK(m) /\ \A d \in Registered(m) : CursorOK(m, d)
  BY DEF ManagerOK
<1>1. /\ n \in Nat \ {0} /\ m \in Record(n) /\ DOMAIN m.list = 1..n
      /\ c \in Names /\ Registered(m) = {d \in Names : m.cursor[d].chk # 0}
  BY <1>0, ShapeFacts
<1>2. here \in 1..(n - 1)
  BY <1>0, <1>1 DEF CursorOK, CanMoveNext
<1>3. /\ q.list = [i \in 1..n |->
                     IF i = here THEN [m.list[i] EXCEPT !.cursors = @ \ {c}]
                     ELSE IF i = here + 1 THEN [m.list[i] EXCEPT !.cursors = @ \cup {c}]
                     ELSE m.list[i]]
      /\ q.cursor = [m.cursor EXCEPT ![c].chk = here + 1, ![c].pos = Dummy]
      /\ q = [m EXCEPT !.list = q.list, !.cursor = q.cursor]
  BY <1>1 DEF MoveCursorToNextCheckpoint, Record
<1> HIDE DEF q
<1>4. ASSUME NEW i \in 1..n
      PROVE  /\ q.list[i] \in Checkpoint
             /\ q.list[i].mid = m.list[i].mid
             /\ q.list[i].cursors \subseteq m.list[i].cursors \cup {c}
             /\ i = here + 1 => c \in q.list[i].cursors
             /\ m.list[i].cursors \subseteq q.list[i].cursors \cup {c}
  <2>1. m.list[i] \in Checkpoint /\ m.list[i].cursors \in SUBSET Names
    BY <1>1 DEF Record, Checkpoint
  <2>2. q.list[i] = IF i = here
                    THEN [m.list[i] EXCEPT !.cursors = m.list[i].cursors \ {c}]
                    ELSE IF i = here + 1
                    THEN [m.list[i] EXCEPT !.cursors = m.list[i].cursors \cup {c}]
                    ELSE m.list[i]
    BY <1>3
  <2> HIDE DEF here, n
  <2>3. CASE i = here
    <3>1. here # here + 1
      BY <1>2
    <3> QED
      BY <2>1, <2>2, <2>3, <3>1 DEF Checkpoint
  <2>4. CASE i # here /\ i = here + 1
    BY <2>1, <2>2, <2>4, <1>1 DEF Checkpoint
  <2>5. CASE i # here /\ i # here + 1
    BY <2>1, <2>2, <2>5
  <2> QED
    BY <2>3, <2>4, <2>5
<1>5. /\ q.cursor \in [Names -> Cursor]
      /\ q.cursor[c].chk = here + 1 /\ q.cursor[c].pos = Dummy
      /\ \A d \in Names \ {c} : q.cursor[d] = m.cursor[d]
  <2>1. m.cursor \in [Names -> Cursor]
    BY <1>1 DEF Record
  <2>2. here + 1 \in Nat /\ Dummy \in AllKeys
    BY <1>2, <1>1, MetaKeysDiffer DEF MetaFact
  <2>3. q.cursor = [m.cursor EXCEPT ![c].chk = here + 1, ![c].pos = Dummy] /\ c \in Names
    BY <1>1, <1>3
  <2> HIDE DEF here
  <2> QED
    BY <2>1, <2>2, <2>3 DEF Cursor
<1>6. q \in Record(n)
  <2>1. q.list \in [1..n -> Checkpoint]
    BY <1>3, <1>4
  <2> QED
    BY <2>1, <1>1, <1>3, <1>5 DEF Record
<1>7. Registered(q) = Registered(m)
  BY <1>1, <1>2, <1>5 DEF Registered
<1>8. \A i \in 1..n : /\ q.list[i].mid = m.list[i].mid
                      /\ q.list[i].cursors \subseteq Registered(q)
  BY <1>0, <1>4, <1>7 DEF ShapeOK
<1>9. ASSUME NEW d \in Registered(q)
      PROVE  /\ q.cursor[d].chk \in 1..n
             /\ m.list[q.cursor[d].chk].mid[q.cursor[d].pos] # 0
             /\ d \in q.list[q.cursor[d].chk].cursors
  <2> HIDE DEF here, n
  <2>1. CASE d = c
    <3>1. here + 1 \in 1..n /\ m.list[here + 1].mid[Dummy] # 0
      BY <1>0, <1>1, <1>2 DEF ShapeOK, ChkOK
    <3>2. c \in q.list[here + 1].cursors
      BY <3>1, <1>2, <1>4
    <3> QED
      BY <3>1, <3>2, <2>1, <1>5
  <2>2. CASE d # c
    BY <2>2, <1>0, <1>1, <1>4, <1>5, <1>7 DEF CursorOK, n
  <2> QED
    BY <2>1, <2>2
<1> QED
  <2>1. q.mutationCounter = m.mutationCounter
    BY <1>1, <1>3 DEF Record
  <2> HIDE DEF q, n
  <2> QED
    BY <2>1, <1>0, <1>5, <1>6, <1>7, <1>8, <1>9, SameItems DEF n, q, ShapeOK

\* From any shape: a cursor at the first item of the first checkpoint is live.
LEMMA ResetCursorsOK ==
  ASSUME NEW m, ShapeOK(m)
  PROVE  ManagerOK(ResetCursors(m))
<1> DEFINE q == ResetCursors(m)
           n == Len(m.list)
           R == Registered(m)
<1>1. /\ n \in Nat \ {0} /\ m \in Record(n) /\ DOMAIN m.list = 1..n
      /\ R = {d \in Names : m.cursor[d].chk # 0}
  BY ShapeFacts
<1>2. /\ q.list = [i \in 1..n |-> IF i = 1
                                  THEN [m.list[i] EXCEPT !.cursors = @ \cup R]
                                  ELSE m.list[i]]
      /\ q.cursor = [c \in Names |->
                       IF c \in R
                       THEN [m.cursor[c] EXCEPT !.chk = 1, !.pos = Dummy, !.offset = 0]
                       ELSE m.cursor[c]]
      /\ q = [m EXCEPT !.list = q.list, !.cursor = q.cursor]
      /\ q.mutationCounter = m.mutationCounter
  BY <1>1 DEF ResetCursors, Record
<1> HIDE DEF q, n, R
<1>3. ASSUME NEW i \in 1..n
      PROVE  /\ q.list[i] \in Checkpoint
             /\ q.list[i].mid = m.list[i].mid
             /\ q.list[i].cursors \subseteq R
             /\ i = 1 => R \subseteq q.list[i].cursors
  <2>1. m.list[i] \in Checkpoint /\ m.list[i].cursors \subseteq R
    BY <1>1 DEF Record, ShapeOK, n, R
  <2>2. R \subseteq Names
    BY <1>1
  <2>3. q.list[i] = IF i = 1 THEN [m.list[i] EXCEPT !.cursors = @ \cup R] ELSE m.list[i]
    BY <1>2
  <2>4. CASE i = 1
    BY <2>1, <2>2, <2>3, <2>4 DEF Checkpoint
  <2>5. CASE i # 1
    BY <2>1, <2>3, <2>5
  <2> QED
    BY <2>4, <2>5
<1>4. ASSUME NEW c \in Names
      PROVE  /\ q.cursor[c] \in Cursor
             /\ c \in R => q.cursor[c].chk = 1 /\ q.cursor[c].pos = Dummy
             /\ c \notin R => q.cursor[c] = m.cursor[c]
  <2>1. m.cursor[c] \in Cursor /\ Dummy \in AllKeys
    BY <1>1, MetaKeysDiffer DEF Record, MetaFact
  <2>2. q.cursor[c] = IF c \in R
                      THEN [m.cursor[c] EXCEPT !.chk = 1, !.pos = Dummy, !.offset = 0]
                      ELSE m.cursor[c]
    BY <1>2
  <2>3. ASSUME c \in R
        PROVE  q.cursor[c] \in Cursor /\ q.cursor[c].chk = 1 /\ q.cursor[c].pos = Dummy
    <3>1. q.cursor[c] = [m.cursor[c] EXCEPT !.chk = 1, !.pos = Dummy, !.offset = 0]
      BY <2>2, <2>3
    <3>2. q.cursor[c] = [chk |-> 1, pos |-> Dummy, offset |-> 0,
                         closedOnly |-> m.cursor[c].closedOnly,
                         openId |-> m.cursor[c].openId]
      BY <2>1, <3>1 DEF Cursor
    <3>3. m.cursor[c].closedOnly \in BOOLEAN /\ m.cursor[c].openId \in Nat
      BY <2>1 DEF Cursor
    <3> QED
      BY <2>1, <3>2, <3>3 DEF Cursor
  <2> QED
    BY <2>1, <2>2, <2>3
<1>5. Registered(q) = R
  BY <1>1, <1>4 DEF Registered
<1>6. q \in Record(n)
  <2>1. q.list \in [1..n -> Checkpoint] /\ q.cursor \in [Names -> Cursor]
    BY <1>2, <1>3, <1>4
  <2> QED
    BY <2>1, <1>1, <1>2 DEF Record
<1>7. Persistence \in R /\ m.list[1].mid[Dummy] # 0
  BY <1>1 DEF ShapeOK, ChkOK, R, n
<1>8. \A c \in R : /\ q.cursor[c].chk \in 1..n
                   /\ m.list[q.cursor[c].chk].mid[q.cursor[c].pos] # 0
                   /\ c \in q.list[q.cursor[c].chk].cursors
  BY <1>1, <1>3, <1>4, <1>7
<1> QED
  BY <1>2, <1>3, <1>5, <1>6, <1>7, <1>8, SameItems DEF q, n

\* Only the id of the last checkpoint changes.
LEMMA SetOpenIdOK ==
  ASSUME NEW m, ShapeOK(m), NEW id \in Nat
  PROVE  /\ ShapeOK(SetOpenCheckpointId(m, id))
         /\ ManagerOK(m) => ManagerOK(SetOpenCheckpointId(m, id))
<1> DEFINE q == SetOpenCheckpointId(m, id)
           n == Len(m.list)
<1>1. n \in Nat \ {0} /\ m \in Record(n) /\ DOMAIN m.list = 1..n
  BY ShapeFacts
<1>2. /\ q.list = [m.list EXCEPT ![n] = [m.list[n] EXCEPT !.id = id]]
      /\ q = [m EXCEPT !.list = q.list]
      /\ q.mutationCounter = m.mutationCounter /\ q.cursor = m.cursor
  BY <1>1 DEF SetOpenCheckpointId, Record
<1> HIDE DEF q, n
<1>3. ASSUME NEW i \in 1..n
      PROVE  /\ q.list[i] \in Checkpoint
             /\ q.list[i].mid = m.list[i].mid
             /\ q.list[i].cursors = m.list[i].cursors
  <2>1. m.list[i] \in Checkpoint
    BY <1>1 DEF Record
  <2>2. q.list[i] = IF i = n THEN [m.list[i] EXCEPT !.id = id] ELSE m.list[i]
    BY <1>1, <1>2 DEF Record
  <2>3. CASE i = n
    BY <2>1, <2>2, <2>3 DEF Checkpoint
  <2> QED
    BY <2>1, <2>2, <2>3
<1>4. q \in Record(n)
  <2>1. q.list \in [1..n -> Checkpoint]
    BY <1>1, <1>2, <1>3 DEF Record
  <2> QED
    BY <2>1, <1>1, <1>2 DEF Record
<1>5. Registered(q) = Registered(m)
  BY <1>2 DEF Registered
<1>6. ShapeOK(q) /\ Len(q.list) = n
  <2>1. \A i \in 1..n : ChkOK(q.list[i], q.mutationCounter)
    BY <1>2, <1>3 DEF ShapeOK, ChkOK, n
  <2>2. \A i \in 1..n : q.list[i].cursors \subseteq Registered(q)
    BY <1>3, <1>5 DEF ShapeOK, n
  <2> QED
    BY <2>1, <2>2, <1>1, <1>4, <1>5, ShapeIntro DEF ShapeOK
<1>7. ASSUME ManagerOK(m), NEW c \in Registered(q)
      PROVE  CursorOK(q, c)
  BY <1>2, <1>3, <1>5, <1>6, <1>7 DEF ManagerOK, CursorOK, n
<1> QED
  BY <1>6, <1>7 DEF ManagerOK, q

\* Only the place of one cursor changes, within its checkpoint.
OnlyCursor(m, c, q) ==
  /\ q \in Record(Len(m.list))
  /\ q.list = m.list
  /\ q.mutationCounter = m.mutationCounter
  /\ q.cursor[c].chk = m.cursor[c].chk
  /\ ChkOf(m, c).mid[q.cursor[c].pos] # 0
  /\ \A d \in Names \ {c} : q.cursor[d] = m.cursor[d]

\* A cursor that is placed on an item of its own checkpoint leaves the manager well-shaped.
LEMMA CursorOnly ==
  ASSUME NEW m, ManagerOK(m), NEW c \in Registered(m), NEW q, OnlyCursor(m, c, q)
  PROVE  ManagerOK(q)
<1> USE DEF OnlyCursor
<1> DEFINE n == Len(m.list)
<1>1. ShapeOK(m) /\ \A d \in Registered(m) : CursorOK(m, d)
  BY DEF ManagerOK
<1>2. Registered(q) = Registered(m)
  BY DEF Registered
<1>3. ASSUME NEW d \in Registered(q)
      PROVE  /\ q.cursor[d].chk \in 1..n
             /\ m.list[q.cursor[d].chk].mid[q.cursor[d].pos] # 0
             /\ d \in q.list[q.cursor[d].chk].cursors
  <2>1. CASE d = c
    BY <2>1, <1>1 DEF CursorOK, ChkOf
  <2>2. CASE d # c
    BY <2>2, <1>1, <1>2 DEF CursorOK, Registered
  <2> QED
    BY <2>1, <2>2
<1> QED
  BY <1>1, <1>2, <1>3, SameItems DEF ShapeOK

\* Only counters and flags change that say nothing about where the cursors are.
OnlyCounters(m, q) ==
  /\ q \in Record(Len(m.list))
  /\ q.list = m.list
  /\ q.cursor = m.cursor
  /\ q.mutationCounter = m.mutationCounter

\* Counts and flags are no part of the manager's shape.
LEMMA SameCursors ==
  ASSUME NEW m, ShapeOK(m), NEW q, OnlyCounters(m, q)
  PROVE  /\ ShapeOK(q)
         /\ ManagerOK(m) => ManagerOK(q)
<1> USE DEF OnlyCounters
<1>1. Registered(q) = Registered(m)
  BY DEF Registered
<1>2. ShapeOK(q)
  BY <1>1, ShapeFacts, ShapeIntro DEF ShapeOK
<1>3. ASSUME ManagerOK(m), NEW c \in Registered(q)
      PROVE  CursorOK(q, c)
  BY <1>1, <1>3 DEF ManagerOK, CursorOK
<1> QED
  BY <1>2, <1>3 DEF ManagerOK

\* One cursor takes another place in its checkpoint.
Placed(m, c, p, o) ==
  [m EXCEPT !.cursor = [m.cursor EXCEPT ![c] =
                          [m.cursor[c] EXCEPT !.pos = p, !.offset = o]]]

\* Placing a cursor on an item of its checkpoint.
LEMMA PlacedOK ==
  ASSUME NEW m, ManagerOK(m), NEW c \in Registered(m), NEW p \in AllKeys,
         ChkOf(m, c).mid[p] # 0, NEW o \in Int
  PROVE  ManagerOK(Placed(m, c, p, o))
<1> DEFINE x == [m.cursor[c] EXCEPT !.pos = p, !.offset = o]
           q == Placed(m, c, p, o)
<1>1. /\ m \in Record(Len(m.list)) /\ c \in Names
      /\ m.cursor \in [Names -> Cursor] /\ m.cursor[c] \in Cursor
  BY ShapeFacts DEF ManagerOK, Record
<1>0. x = [m.cursor[c] EXCEPT !.pos = p, !.offset = o]
  OBVIOUS
<1>3. q = [m EXCEPT !.cursor = [m.cursor EXCEPT ![c] = x]]
  BY DEF Placed
<1> HIDE DEF x, q
<1>2. x \in Cursor /\ x.chk = m.cursor[c].chk /\ x.pos = p
  <2> DEFINE y == m.cursor[c]
  <2>1. y \in Cursor /\ x = [y EXCEPT !.pos = p, !.offset = o]
    BY <1>0, <1>1
  <2> HIDE DEF y
  <2>2. x = [chk |-> y.chk, pos |-> p, offset |-> o,
             closedOnly |-> y.closedOnly, openId |-> y.openId]
    BY <2>1 DEF Cursor
  <2>3. y.chk \in Nat /\ y.openId \in Nat /\ y.closedOnly \in BOOLEAN
    BY <2>1 DEF Cursor
  <2> QED
    BY <2>2, <2>3 DEF Cursor, y
<1>4. /\ q.cursor = [m.cursor EXCEPT ![c] = x]
      /\ q.list = m.list /\ q.mutationCounter = m.mutationCounter
      /\ q \in Record(Len(m.list))
  BY <1>1, <1>2, <1>3 DEF Record
<1>5. q.cursor[c] = x /\ \A d \in Names \ {c} : q.cursor[d] = m.cursor[d]
  BY <1>1, <1>4
<1>6. q.cursor[c].chk = m.cursor[c].chk /\ ChkOf(m, c).mid[q.cursor[c].pos] # 0
  BY <1>2, <1>5
<1>7. OnlyCursor(m, c, q)
  BY <1>4, <1>5, <1>6 DEF OnlyCursor
<1> QED
  BY <1>7, CursorOnly DEF q

\* A position that is not the last has a next one in the same checkpoint.
LEMMA NextFacts ==
  ASSUME NEW m, ManagerOK(m), NEW c \in Registered(m), ~AtEnd(m, c)
  PROVE  /\ NextKey(ChkOf(m, c), m.cursor[c].pos) \in AllKeys
         /\ ChkOf(m, c).mid[NextKey(ChkOf(m, c), m.cursor[c].pos)] # 0
<1>1. /\ ChkOK(ChkOf(m, c), m.mutationCounter)
      /\ m.cursor[c].pos \in AllKeys
  BY ShapeFacts DEF ManagerOK, ShapeOK, CursorOK, ChkOf, Record, Cursor
<1>2. NextKey(ChkOf(m, c), m.cursor[c].pos) \in After(ChkOf(m, c), m.cursor[c].pos)
  BY <1>1, NextKeyPresent DEF AtEnd
<1> QED
  BY <1>2 DEF After, Present

\* Stepping a cursor that is not at the end of its checkpoint (++currentPos).
LEMMA StepCursorOK ==
  ASSUME NEW m, ManagerOK(m), NEW c \in Registered(m), ~AtEnd(m, c)
  PROVE  ManagerOK(StepCursor(m, c))
<1> DEFINE p == NextKey(ChkOf(m, c), m.cursor[c].pos)
           o == m.cursor[c].offset + 1
<1>1. /\ m \in Record(Len(m.list)) /\ c \in Names
      /\ m.cursor \in [Names -> Cursor] /\ m.cursor[c] \in Cursor
  BY ShapeFacts DEF ManagerOK, Record
<1>2. o \in Int /\ p \in AllKeys /\ ChkOf(m, c).mid[p] # 0
  BY <1>1, NextFacts DEF Cursor
<1>3. StepCursor(m, c) = Placed(m, c, p, o)
  BY <1>1 DEF Placed, StepCursor, Record, Cursor
<1> HIDE DEF p, o
<1> QED
  BY <1>2, <1>3, PlacedOK

\* decrTapCursorFromCheckpointEnd, whatever checkpoint the cursor is in.
LEMMA DecrTapCursorOK ==
  ASSUME NEW m, ManagerOK(m), NEW c \in Names
  PROVE  ManagerOK(DecrTapCursorFromCheckpointEnd(m, c))
<1> DEFINE p == PrevKey(ChkOf(m, c), End)
           o == DecrOffset(m.cursor[c].offset, 1)
<1>1. SUFFICES ASSUME m.cursor[c].chk # 0, m.cursor[c].pos = End
               PROVE  ManagerOK(DecrTapCursorFromCheckpointEnd(m, c))
  BY DEF DecrTapCursorFromCheckpointEnd
<1>2. /\ m \in Record(Len(m.list)) /\ c \in Registered(m)
      /\ m.cursor \in [Names -> Cursor] /\ m.cursor[c] \in Cursor
  BY <1>1, ShapeFacts DEF ManagerOK, Record, Registered
<1>3. ChkOK(ChkOf(m, c), m.mutationCounter) /\ ChkOf(m, c).mid[End] # 0
  BY <1>1, <1>2 DEF ManagerOK, ShapeOK, CursorOK, ChkOf
<1>4. p \in Before(ChkOf(m, c), End)
  BY <1>3, PrevKeyPresent, MetaKeysDiffer DEF MetaFact
<1>5. p \in AllKeys /\ ChkOf(m, c).mid[p] # 0 /\ o \in Int
  BY <1>2, <1>4 DEF Before, Present, DecrOffset, Cursor
<1>6. DecrTapCursorFromCheckpointEnd(m, c) = Placed(m, c, p, o)
  BY <1>1, <1>2 DEF Placed, DecrTapCursorFromCheckpointEnd, Record, Cursor
<1> HIDE DEF p, o
<1> QED
  BY <1>2, <1>5, <1>6, PlacedOK

\* A manager that is given by its list and its cursors.
Assembled(q, n) ==
  /\ n \in Nat \ {0}
  /\ q \in Record(n)
  /\ \A i \in 1..n : ChkOK(q.list[i], q.mutationCounter)
  /\ \A i \in 1..n : q.list[i].cursors \subseteq Registered(q)
  /\ Persistence \in Registered(q)
  /\ \A c \in Registered(q) : /\ q.cursor[c].chk \in 1..n
                              /\ q.list[q.cursor[c].chk].mid[q.cursor[c].pos] # 0
                              /\ c \in q.list[q.cursor[c].chk].cursors

\* A manager that is made of good parts is well-shaped.
LEMMA AssembledOK ==
  ASSUME NEW n, NEW q, Assembled(q, n)
  PROVE  ManagerOK(q) /\ Len(q.list) = n
<1>1. ShapeOK(q) /\ Len(q.list) = n
  BY ShapeIntro DEF Assembled
<1>2. \A c \in Registered(q) : CursorOK(q, c)
  BY <1>1 DEF CursorOK, Assembled
<1> QED
  BY <1>1, <1>2 DEF ManagerOK

\* What a live manager is made of.
LEMMA Disassemble ==
  ASSUME NEW m, ManagerOK(m)
  PROVE  Assembled(m, Len(m.list))
BY ShapeFacts DEF ManagerOK, ShapeOK, CursorOK, Assembled

\* Checkpoint::queueDirty of a document or of a start or end item.
LEMMA QueueItemOK ==
  ASSUME NEW m, ManagerOK(m), NEW k \in AllKeys \ {Dummy}
  PROVE  ManagerOK(QueueItem(m, k)) /\ Len(QueueItem(m, k).list) = Len(m.list)
<1> DEFINE q == QueueItem(m, k)
           n == Len(m.list)
           c == m.list[n]
           new == m.mutationCounter + 1
<1>1. Assembled(m, n)
  BY Disassemble
<1>2. new \in Nat /\ new # 0 /\ n \in 1..n /\ c \in Checkpoint
  BY <1>1 DEF Assembled, Record
<1>3. /\ q.list = [m.list EXCEPT ![n] = [c EXCEPT !.mid = [c.mid EXCEPT ![k] = new]]]
      /\ q.mutationCounter = new
      /\ q = [m EXCEPT !.list = q.list, !.cursor = q.cursor, !.mutationCounter = new]
  BY <1>1 DEF QueueItem, Assembled, Record
<1>4. ASSUME NEW d \in Names
      PROVE  q.cursor[d] = IF m.cursor[d].chk = n /\ c.mid[k] # 0
                           THEN [m.cursor[d] EXCEPT
                                   !.offset = IF c.mid[k] <= c.mid[m.cursor[d].pos]
                                              THEN DecrOffset(m.cursor[d].offset, 1)
                                              ELSE m.cursor[d].offset,
                                   !.pos = IF m.cursor[d].pos = k THEN PrevKey(c, k)
                                           ELSE m.cursor[d].pos]
                           ELSE m.cursor[d]
  BY <1>1 DEF QueueItem, Assembled, Record, Cursor
<1>5. DOMAIN q.cursor = Names /\ q.cursor = [d \in Names |-> q.cursor[d]]
  BY <1>1 DEF QueueItem, Assembled, Record
<1> HIDE DEF q, n, c, new
<1>6. c.mid[k] # 0 => PrevKey(c, k) \in AllKeys \ {k} /\ c.mid[PrevKey(c, k)] # 0
  <2>1. ChkOK(c, m.mutationCounter)
    BY <1>1, <1>2 DEF Assembled, c
  <2>2. c.mid[k] # 0 => PrevKey(c, k) \in Before(c, k)
    BY <2>1, PrevKeyPresent
  <2> QED
    BY <2>1, <2>2, RankType DEF Before, Present
<1>7. ASSUME NEW d \in Names
      PROVE  /\ q.cursor[d] \in Cursor
             /\ q.cursor[d].chk = m.cursor[d].chk
             /\ \/ q.cursor[d].pos = m.cursor[d].pos
                \/ m.cursor[d].chk = n /\ c.mid[q.cursor[d].pos] # 0
  <2> DEFINE x == m.cursor[d]
             o == IF c.mid[k] <= c.mid[x.pos] THEN DecrOffset(x.offset, 1) ELSE x.offset
             p == IF x.pos = k THEN PrevKey(c, k) ELSE x.pos
  <2>1. x \in Cursor
    BY <1>1 DEF Assembled, Record
  <2>2. x.chk = n /\ c.mid[k] # 0 => q.cursor[d] = [x EXCEPT !.offset = o, !.pos = p]
    BY <1>4
  <2>3. ~(x.chk = n /\ c.mid[k] # 0) => q.cursor[d] = x
    BY <1>4
  <2>4. o \in Int
    BY <2>1 DEF Cursor, DecrOffset
  <2>5. x.chk = n /\ c.mid[k] # 0 =>
          p \in AllKeys /\ (p = x.pos \/ c.mid[p] # 0)
    BY <1>6, <2>1 DEF Cursor
  <2> HIDE DEF o, p
  <2>6. CASE x.chk = n /\ c.mid[k] # 0
    <3>0. q.cursor[d] = [x EXCEPT !.offset = o, !.pos = p]
      BY <2>2, <2>6
    <3> HIDE DEF x
    <3>1. q.cursor[d] = [chk |-> x.chk, pos |-> p, offset |-> o,
                         closedOnly |-> x.closedOnly, openId |-> x.openId]
      BY <2>1, <3>0 DEF Cursor
    <3>2. x.chk \in Nat /\ x.openId \in Nat /\ x.closedOnly \in BOOLEAN
      BY <2>1 DEF Cursor
    <3> QED
      BY <2>4, <2>5, <2>6, <3>1, <3>2 DEF Cursor, x
  <2> QED
    BY <2>1, <2>3, <2>6
<1>8. ASSUME NEW i \in 1..n
      PROVE  /\ q.list[i] \in Checkpoint
             /\ q.list[i].cursors = m.list[i].cursors
             /\ ChkOK(q.list[i], new)
             /\ \A j \in AllKeys : m.list[i].mid[j] # 0 => q.list[i].mid[j] # 0
  <2>1. ChkOK(m.list[i], m.mutationCounter) /\ m.mutationCounter \in Nat
    BY <1>1 DEF Assembled, Record
  <2>2. q.list[i] = IF i = n THEN [c EXCEPT !.mid = [c.mid EXCEPT ![k] = new]]
                    ELSE m.list[i]
    BY <1>1, <1>3 DEF Assembled, Record
  <2>3. CASE i = n
    <3>1. c = m.list[i] /\ ChkOK(c, m.mutationCounter)
      BY <2>1, <2>3 DEF c
    <3>2. /\ q.list[i] \in Checkpoint /\ q.list[i].cursors = c.cursors
          /\ q.list[i].mid = [c.mid EXCEPT ![k] = new]
      BY <1>2, <2>2, <2>3 DEF Checkpoint
    <3>3. \A j \in AllKeys : q.list[i].mid[j] = IF j = k THEN new ELSE c.mid[j]
      BY <1>2, <3>2 DEF Checkpoint
    <3>4. \A j \in AllKeys : /\ c.mid[j] \in Nat /\ c.mid[j] <= m.mutationCounter
                             /\ q.list[i].mid[j] <= new
                             /\ c.mid[j] # 0 => q.list[i].mid[j] # 0
      BY <2>1, <3>1, <3>3, <1>2 DEF ChkOK, Checkpoint, new
    <3> QED
      BY <3>1, <3>2, <3>4, MetaKeysDiffer DEF ChkOK, MetaFact
  <2>4. CASE i # n
    <3>1. q.list[i] = m.list[i] /\ m.list[i] \in Checkpoint
      BY <2>1, <2>2, <2>4 DEF ChkOK
    <3>2. \A j \in AllKeys : m.list[i].mid[j] <= new
      BY <2>1 DEF ChkOK, Checkpoint, new
    <3> QED
      BY <2>1, <3>1, <3>2 DEF ChkOK
  <2> QED
    BY <2>3, <2>4
<1>9. Registered(q) = Registered(m)
  BY <1>7 DEF Registered
<1>10. Assembled(q, n)
  <2>1. q.list \in [1..n -> Checkpoint] /\ q.cursor \in [Names -> Cursor]
    BY <1>1, <1>3, <1>5, <1>7, <1>8 DEF Assembled, Record
  <2>2. q \in Record(n)
    BY <1>1, <1>2, <1>3, <2>1 DEF Assembled, Record
  <2>3. ASSUME NEW d \in Registered(q)
        PROVE  /\ q.cursor[d].chk \in 1..n
               /\ q.list[q.cursor[d].chk].mid[q.cursor[d].pos] # 0
               /\ d \in q.list[q.cursor[d].chk].cursors
    <3>1. /\ d \in Names /\ m.cursor[d].chk \in 1..n
          /\ m.list[m.cursor[d].chk].mid[m.cursor[d].pos] # 0
          /\ d \in m.list[m.cursor[d].chk].cursors
      BY <1>1, <1>9 DEF Assembled, Registered
    <3>2. m.list[m.cursor[d].chk].mid[q.cursor[d].pos] # 0
      BY <1>7, <3>1 DEF c
    <3>3. q.cursor[d].pos \in AllKeys
      BY <1>7, <3>1 DEF Cursor
    <3> QED
      BY <1>7, <1>8, <3>1, <3>2, <3>3
  <2> QED
    BY <1>1, <1>3, <1>8, <1>9, <2>2, <2>3 DEF Assembled
<1> QED
  BY <1>10, AssembledOK DEF q, n

\* closeOpenCheckpoint_UNLOCKED.
LEMMA CloseOpenOK ==
  ASSUME NEW m, ManagerOK(m), NEW id
  PROVE  /\ ManagerOK(CloseOpenCheckpoint(m, id))
         /\ Len(CloseOpenCheckpoint(m, id).list) = Len(m.list)
<1> DEFINE z == CloseOpenCheckpoint(m, id)
           q == QueueItem(m, End)
           n == Len(m.list)
<1>1. SUFFICES ASSUME id = LastChk(m).id, LastChk(m).open
               PROVE  ManagerOK(z) /\ Len(z.list) = n
  BY DEF CloseOpenCheckpoint
<1>2. ManagerOK(q) /\ Len(q.list) = n
  BY QueueItemOK, MetaKeysDiffer DEF MetaFact
<1>3. Assembled(q, n)
  BY <1>2, Disassemble
<1> HIDE DEF q, n
<1>4. z = [q EXCEPT !.numItems = @ + 1, !.list[n].open = FALSE]
  BY <1>1, <1>2 DEF CloseOpenCheckpoint, q, n
<1> HIDE DEF z
<1>5. /\ z.list = [q.list EXCEPT ![n] = [q.list[n] EXCEPT !.open = FALSE]]
      /\ z.cursor = q.cursor /\ z.mutationCounter = q.mutationCounter
      /\ z = [q EXCEPT !.list = z.list, !.numItems = q.numItems + 1]
  BY <1>3, <1>4 DEF Assembled, Record
<1>6. ASSUME NEW i \in 1..n
      PROVE  /\ z.list[i] \in Checkpoint
             /\ z.list[i].mid = q.list[i].mid
             /\ z.list[i].cursors = q.list[i].cursors
  <2>1. q.list[i] \in Checkpoint
    BY <1>3 DEF Assembled, Record
  <2>2. z.list[i] = IF i = n THEN [q.list[i] EXCEPT !.open = FALSE] ELSE q.list[i]
    BY <1>3, <1>5, ZenonT(60) DEF Assembled, Record
  <2>3. CASE i = n
    BY <2>1, <2>2, <2>3 DEF Checkpoint
  <2> QED
    BY <2>1, <2>2, <2>3
<1>7. z \in Record(n)
  <2>1. z.list \in [1..n -> Checkpoint]
    BY <1>3, <1>5, <1>6 DEF Assembled, Record
  <2> QED
    <3>1. z = [list |-> z.list, cursor |-> q.cursor, numItems |-> q.numItems + 1,
               mutationCounter |-> q.mutationCounter, collapsed |-> q.collapsed,
               extension |-> q.extension, lastClosedId |-> q.lastClosedId,
               preChkId |-> q.preChkId]
      BY <1>3, <1>5 DEF Assembled, Record
    <3>2. /\ q.cursor \in [Names -> Cursor] /\ q.numItems + 1 \in Int
          /\ q.mutationCounter \in Nat /\ q.collapsed \in BOOLEAN
          /\ q.extension \in BOOLEAN /\ q.lastClosedId \in Int /\ q.preChkId \in Int
      BY <1>3 DEF Assembled, Record
    <3> QED
      BY <2>1, <3>1, <3>2 DEF Record
<1>8. Registered(z) = Registered(q)
  BY <1>5 DEF Registered
<1>9. Assembled(z, n)
  BY <1>3, <1>5, <1>6, <1>7, <1>8, ZenonT(60) DEF Assembled, ChkOK
<1> QED
  BY <1>9, AssembledOK

\* A checkpoint fresh from its constructor.
LEMMA NewCheckpointOK ==
  ASSUME NEW id \in Nat, NEW b \in Nat
  PROVE  /\ ChkOK(NewCheckpoint(id, b), b + 2)
         /\ NewCheckpoint(id, b).cursors = {}
<1> DEFINE c == NewCheckpoint(id, b)
<1>1. /\ c.id = id /\ c.open = TRUE /\ c.cursors = {}
      /\ c.mid = [k \in AllKeys |-> IF k = Dummy THEN b + 1
                                    ELSE IF k = Start THEN b + 2 ELSE 0]
      /\ c = [id |-> c.id, open |-> c.open, mid |-> c.mid, cursors |-> c.cursors]
  BY DEF NewCheckpoint
<1> HIDE DEF c
<1>2. c.mid \in [AllKeys -> Nat] /\ \A k \in AllKeys : c.mid[k] <= b + 2
  BY <1>1
<1>3. c.mid[Dummy] # 0 /\ c.mid[Start] # 0
  BY <1>1, MetaKeysDiffer DEF MetaFact
<1>4. c \in Checkpoint
  BY <1>1, <1>2 DEF Checkpoint
<1> QED
  BY <1>1, <1>2, <1>3, <1>4 DEF ChkOK, c

\* The checkpoint that addNewCheckpoint_UNLOCKED appends.
Appended(m, id) ==
  [m EXCEPT !.list = Append(@, NewCheckpoint(id, m.mutationCounter)),
            !.mutationCounter = @ + 2,
            !.numItems = @ + 1]

\* addNewCheckpoint_UNLOCKED's second half, the new checkpoint.
LEMMA AppendedOK ==
  ASSUME NEW m, ManagerOK(m), NEW id \in Nat
  PROVE  ManagerOK(Appended(m, id)) /\ Len(Appended(m, id).list) = Len(m.list) + 1
<1> DEFINE z == Appended(m, id)
           n == Len(m.list)
           c == NewCheckpoint(id, m.mutationCounter)
<1>1. Assembled(m, n)
  BY Disassemble
<1>2. /\ m.mutationCounter \in Nat /\ ChkOK(c, m.mutationCounter + 2) /\ c.cursors = {}
      /\ c \in Checkpoint
  BY <1>1, NewCheckpointOK DEF Assembled, Record, ChkOK
<1>3. m.list \in Seq(Checkpoint)
  BY DEF ManagerOK, ShapeOK, Manager
<1> HIDE DEF n, c
<1>4. /\ z.list = Append(m.list, c)
      /\ z.cursor = m.cursor /\ z.mutationCounter = m.mutationCounter + 2
      /\ z = [m EXCEPT !.list = z.list, !.mutationCounter = m.mutationCounter + 2,
                       !.numItems = m.numItems + 1]
  BY <1>1 DEF Appended, Assembled, Record, c
<1> HIDE DEF z
<1>5. /\ z.list \in [1..(n + 1) -> Checkpoint]
      /\ z.list[n + 1] = c
      /\ \A i \in 1..n : z.list[i] = m.list[i]
  <2>1. /\ z.list \in Seq(Checkpoint) /\ Len(z.list) = n + 1
        /\ z.list[n + 1] = c /\ \A i \in 1..n : z.list[i] = m.list[i]
    BY <1>2, <1>3, <1>4, AppendProperties DEF n
  <2> QED
    BY <2>1
<1>6. n \in Nat \ {0} /\ \A i \in 1..(n + 1) : i \in 1..n \/ i = n + 1
  BY <1>1 DEF Assembled
<1>7. z \in Record(n + 1)
  <2>1. z = [list |-> z.list, cursor |-> m.cursor, numItems |-> m.numItems + 1,
             mutationCounter |-> m.mutationCounter + 2, collapsed |-> m.collapsed,
             extension |-> m.extension, lastClosedId |-> m.lastClosedId,
             preChkId |-> m.preChkId]
    BY <1>1, <1>4 DEF Assembled, Record
  <2>2. /\ m.cursor \in [Names -> Cursor] /\ m.numItems + 1 \in Int
        /\ m.mutationCounter + 2 \in Nat /\ m.collapsed \in BOOLEAN
        /\ m.extension \in BOOLEAN /\ m.lastClosedId \in Int /\ m.preChkId \in Int
    BY <1>1 DEF Assembled, Record
  <2> QED
    BY <1>5, <2>1, <2>2 DEF Record
<1>8. Registered(z) = Registered(m)
  BY <1>4 DEF Registered
<1>9. ASSUME NEW i \in 1..(n + 1)
      PROVE  ChkOK(z.list[i], z.mutationCounter) /\ z.list[i].cursors \subseteq Registered(z)
  <2>1. CASE i = n + 1
    BY <1>2, <1>4, <1>5, <2>1
  <2>2. CASE i \in 1..n
    <3>1. z.list[i] = m.list[i] /\ ChkOK(m.list[i], m.mutationCounter)
      BY <1>1, <1>5, <2>2 DEF Assembled
    <3>2. \A k \in AllKeys : m.list[i].mid[k] <= m.mutationCounter + 2
      BY <3>1, <1>2 DEF ChkOK, Checkpoint
    <3> QED
      BY <1>1, <1>4, <1>8, <2>2, <3>1, <3>2 DEF Assembled, ChkOK
  <2> QED
    BY <1>6, <2>1, <2>2
<1>10. Assembled(z, n + 1)
  <2>1. \A d \in Registered(z) :
          /\ z.cursor[d].chk \in 1..n
          /\ z.list[z.cursor[d].chk].mid[z.cursor[d].pos] # 0
          /\ d \in z.list[z.cursor[d].chk].cursors
    BY <1>1, <1>4, <1>5, <1>8 DEF Assembled
  <2>2. Persistence \in Registered(z) /\ \A d \in Registered(z) : z.cursor[d].chk \in 1..(n + 1)
    BY <1>1, <1>8, <2>1 DEF Assembled
  <2> QED
    BY <1>1, <1>6, <1>7, <1>8, <1>9, <2>1, <2>2 DEF Assembled
<1> QED
  BY <1>10, AssembledOK DEF z, n

\* addNewCheckpoint_UNLOCKED's move of a persistence cursor that is done.
LEMMA AdvancePersistenceCursorOK ==
  ASSUME NEW m, ManagerOK(m)
  PROVE  ManagerOK(AdvancePersistenceCursor(m))
<1> DEFINE c == Persistence
           p == m.cursor[c].pos
           o == m.cursor[c].offset + 1
           skip == ~AtEnd(m, c) /\ NextKey(ChkOf(m, c), p) = End
           mm == IF skip THEN [m EXCEPT !.cursor[c].pos = End, !.cursor[c].offset = @ + 1]
                         ELSE m
           go == AtEnd(mm, c) /\ CanMoveNext(mm, c)
           z == [MoveCursorToNextCheckpoint(mm, c) EXCEPT !.preChkId = ChkOf(mm, c).id]
<1>0. AdvancePersistenceCursor(m) = IF go THEN z ELSE mm
  BY DEF AdvancePersistenceCursor
<1>1. /\ m \in Record(Len(m.list)) /\ c \in Registered(m) /\ c \in Names
      /\ m.cursor \in [Names -> Cursor] /\ m.cursor[c] \in Cursor
  BY ShapeFacts DEF ManagerOK, ShapeOK, Record
<1>2. ManagerOK(mm)
  <2>1. CASE skip
    <3>1. ChkOf(m, c).mid[End] # 0 /\ End \in AllKeys /\ o \in Int
      BY <1>1, <2>1, NextFacts DEF Cursor
    <3>2. mm = Placed(m, c, End, o)
      BY <1>1, <2>1 DEF Placed, Record, Cursor
    <3> HIDE DEF mm, c, o
    <3> QED
      BY <1>1, <3>1, <3>2, PlacedOK
  <2> QED
    BY <2>1
<1> HIDE DEF mm
<1>3. ASSUME go
      PROVE  ManagerOK(z)
  <2> DEFINE y == MoveCursorToNextCheckpoint(mm, c)
  <2>1. c \in Registered(mm)
    BY <1>2 DEF ManagerOK, ShapeOK
  <2>2. ManagerOK(y)
    BY <1>2, <1>3, <2>1, MoveCursorOK
  <2>3. ChkOf(mm, c).id \in Int
    BY <1>2, <2>1 DEF ManagerOK, ShapeOK, ChkOK, Checkpoint, CursorOK, ChkOf
  <2>4. y \in Record(Len(y.list)) /\ ShapeOK(y)
    BY <2>2, ShapeFacts DEF ManagerOK
  <2> HIDE DEF y
  <2>5. z = [y EXCEPT !.preChkId = ChkOf(mm, c).id]
    BY DEF y
  <2> HIDE DEF z
  <2>6. OnlyCounters(y, z)
    BY <2>3, <2>4, <2>5 DEF OnlyCounters, Record
  <2> QED
    BY <2>2, <2>4, <2>6, SameCursors
<1> QED
  BY <1>0, <1>2, <1>3

\* addNewCheckpoint_UNLOCKED as a whole.
LEMMA AddNewCheckpointOK ==
  ASSUME NEW m, ManagerOK(m), NEW id \in Nat
  PROVE  ManagerOK(AddNewCheckpoint(m, id))
<1> DEFINE closed == CloseOpenCheckpoint(m, LastChk(m).id)
<1>1. ManagerOK(closed)
  BY CloseOpenOK
<1>2. AddNewCheckpoint(m, id) = AdvancePersistenceCursor(Appended(closed, id))
  BY DEF AddNewCheckpoint, Appended
<1> HIDE DEF closed
<1> QED
  BY <1>1, <1>2, AppendedOK, AdvancePersistenceCursorOK

\* What the last checkpoint of a well-shaped manager is.
LEMMA LastFacts ==
  ASSUME NEW m, ManagerOK(m)
  PROVE  /\ LastChk(m).id \in Nat /\ LastChk(m).cursors \subseteq Registered(m)
         /\ LastChk(m) \in Checkpoint /\ OpenId(m) \in Nat
<1>1. LastChk(m) \in Checkpoint /\ LastChk(m).cursors \subseteq Registered(m)
  BY ShapeFacts DEF ManagerOK, ShapeOK, Record
<1> QED
  BY <1>1 DEF Checkpoint, OpenId

\* checkOpenCheckpoint_UNLOCKED, which may add a checkpoint.
LEMMA CheckOpenCheckpointOK ==
  ASSUME NEW m, ManagerOK(m), NEW force, NEW timeUp
  PROVE  ManagerOK(CheckOpenCheckpoint(m, force, timeUp))
<1>1. LastChk(m).id + 1 \in Nat
  BY LastFacts
<1> QED
  BY <1>1, AddNewCheckpointOK DEF CheckOpenCheckpoint
-----------------------------------------------------------------------------
(***************************************************************************)
(* Counting, and putting a manager together.                               *)
(***************************************************************************)

LEMMA NumDocsNat ==
  ASSUME NEW c
  PROVE  NumDocs(c) \in Nat
<1>1. IsFiniteSet(Docs(c))
  BY KeysAssumption, FS_Subset DEF Docs
<1> QED
  BY <1>1, FS_CardinalityType DEF NumDocs

\* A list's documents are counted by a natural number.
LEMMA DocsInNat ==
  ASSUME NEW list, NEW n \in Int
  PROVE  DocsIn(list, n) \in Nat
<1> DEFINE D == {d \in (1..n) \X Keys : list[d[1]].mid[d[2]] # 0}
<1>1. IsFiniteSet(1..n)
  BY FS_Interval
<1>2. IsFiniteSet((1..n) \X Keys)
  BY <1>1, KeysAssumption, FS_Product
<1>3. IsFiniteSet(D)
  BY <1>2, FS_Subset
<1>4. Cardinality(D) \in Nat
  BY <1>3, FS_CardinalityType
<1> QED
  BY <1>4 DEF DocsIn

\* The number of items that collapsing takes away is an integer.
LEMMA NumCollapsedInt ==
  ASSUME NEW list, NEW n \in Int
  PROVE  NumCollapsed(list, n) \in Int
BY DocsInNat, NumDocsNat DEF NumCollapsed

\* A manager with another list and other cursors.
Rebuilt(m, list, cursor, numItems, counter) ==
  [m EXCEPT !.list = list, !.cursor = cursor, !.numItems = numItems,
            !.mutationCounter = counter]

Fits(m, n, list, cursor, numItems, counter) ==
  /\ m \in Record(Len(m.list))
  /\ n \in Nat
  /\ list \in [1..n -> Checkpoint]
  /\ cursor \in [Names -> Cursor]
  /\ numItems \in Int
  /\ counter \in Nat

\* The parts of a manager whose list and cursors are replaced together.
LEMMA RebuiltParts ==
  ASSUME NEW m, NEW n, NEW list, NEW cursor, NEW numItems, NEW counter,
         Fits(m, n, list, cursor, numItems, counter)
  PROVE  /\ Rebuilt(m, list, cursor, numItems, counter) \in Record(n)
         /\ Rebuilt(m, list, cursor, numItems, counter).list = list
         /\ Rebuilt(m, list, cursor, numItems, counter).cursor = cursor
         /\ Rebuilt(m, list, cursor, numItems, counter).mutationCounter = counter
<1> DEFINE q == Rebuilt(m, list, cursor, numItems, counter)
<1> USE DEF Fits
<1>0. q = [m EXCEPT !.list = list, !.cursor = cursor, !.numItems = numItems,
                   !.mutationCounter = counter]
  BY DEF Rebuilt
<1> HIDE DEF q
<1>1. q = [list |-> list, cursor |-> cursor, numItems |-> numItems,
           mutationCounter |-> counter, collapsed |-> m.collapsed,
           extension |-> m.extension, lastClosedId |-> m.lastClosedId,
           preChkId |-> m.preChkId]
  BY <1>0 DEF Record
<1>2. /\ m.collapsed \in BOOLEAN /\ m.extension \in BOOLEAN
      /\ m.lastClosedId \in Int /\ m.preChkId \in Int
  BY DEF Record
<1>3. q \in Record(n)
  BY <1>1, <1>2 DEF Record
<1> QED
  BY <1>1, <1>3 DEF q
-----------------------------------------------------------------------------
(***************************************************************************)
(* TAP cursors come and go.                                                *)
(***************************************************************************)

LEMMA ChkWithIdType ==
  ASSUME NEW m, ManagerOK(m), NEW id
  PROVE  ChkWithId(m, id) \in 1..Len(m.list)
<1> DEFINE hits == {i \in DOMAIN m.list : m.list[i].id = id}
<1>1. Len(m.list) \in Nat \ {0} /\ DOMAIN m.list = 1..Len(m.list)
  BY ShapeFacts DEF ManagerOK
<1>2. hits \subseteq Nat /\ hits \subseteq 1..Len(m.list)
  BY <1>1
<1>3. hits # {} => \E i \in hits : \A j \in hits : i <= j
  <2> HIDE DEF hits
  <2> QED
    BY <1>2, NatMin
<1> QED
  BY <1>1, <1>2, <1>3 DEF ChkWithId

\* registerTAPCursor_UNLOCKED, but for a cursor that keeps a position of another list.
LEMMA RegisterCursorOK ==
  ASSUME NEW m, ManagerOK(m), NEW c \in Names, NEW id, NEW closedOnly \in BOOLEAN,
         NEW fromBeginning,
         KeepsPosition(m, c, id, fromBeginning) => m.cursor[c].chk = ChkWithId(m, id)
  PROVE  ManagerOK(RegisterCursor(m, c, id, closedOnly, fromBeginning))
<1> DEFINE q == RegisterCursor(m, c, id, closedOnly, fromBeginning)
           n == Len(m.list)
           at == ChkWithId(m, id)
           stays == KeepsPosition(m, c, id, fromBeginning)
           off == IF {i \in DOMAIN m.list : m.list[i].id = id} = {}
                  THEN m.numItems - (NumDocs(LastChk(m)) + 1)
                  ELSE IF stays THEN m.cursor[c].offset
                  ELSE DocsIn(m.list, at - 1) + 2 * (at - 1)
           pos == IF stays THEN m.cursor[c].pos ELSE Dummy
           open == IF closedOnly THEN OpenId(m) ELSE 0
           x == [chk |-> at, pos |-> pos, offset |-> off, closedOnly |-> closedOnly,
                 openId |-> open]
           list == [i \in 1..n |->
                      IF i = at THEN [m.list[i] EXCEPT !.cursors = @ \cup {c}]
                      ELSE IF i = m.cursor[c].chk
                      THEN [m.list[i] EXCEPT !.cursors = @ \ {c}]
                      ELSE m.list[i]]
           cursor == [m.cursor EXCEPT ![c] = x]
<1>1. Assembled(m, n) /\ DOMAIN m.list = 1..n /\ at \in 1..n
  BY Disassemble, ShapeFacts, ChkWithIdType DEF ManagerOK
<1>2. q = Rebuilt(m, list, cursor, m.numItems, m.mutationCounter)
  BY <1>1 DEF RegisterCursor, Rebuilt, Assembled, Record
<1>3. /\ m.cursor \in [Names -> Cursor] /\ m.cursor[c] \in Cursor
      /\ m.numItems \in Int /\ m.mutationCounter \in Nat /\ m \in Record(n)
  BY <1>1 DEF Assembled, Record
<1>4. off \in Int /\ pos \in AllKeys /\ open \in Nat
  <2>1. off \in Int
    BY <1>1, <1>3, NumDocsNat, DocsInNat DEF Cursor
  <2>2. pos \in AllKeys
    BY <1>3, MetaKeysDiffer DEF Cursor, MetaFact
  <2>3. open \in Nat
    BY LastFacts
  <2> QED
    BY <2>1, <2>2, <2>3
<1>5. m.list[at].mid[pos] # 0
  <2>1. CASE stays
    BY <1>1, <2>1 DEF KeepsPosition, Assembled, Registered
  <2>2. CASE ~stays
    BY <1>1, <2>2 DEF Assembled, ChkOK
  <2> QED
    BY <2>1, <2>2
<1> HIDE DEF q, n, at, pos, off, open
<1>6. x \in Cursor /\ x.chk = at /\ x.pos = pos
  BY <1>1, <1>4 DEF Cursor, Assembled
<1> HIDE DEF x
<1>7. /\ cursor \in [Names -> Cursor] /\ cursor[c] = x
      /\ \A d \in Names \ {c} : cursor[d] = m.cursor[d]
  BY <1>3, <1>6
<1>8. ASSUME NEW i \in 1..n
      PROVE  /\ list[i] \in Checkpoint
             /\ list[i].mid = m.list[i].mid
             /\ list[i].cursors \subseteq m.list[i].cursors \cup {c}
             /\ m.list[i].cursors \subseteq list[i].cursors \cup {c}
             /\ i = at => c \in list[i].cursors
  <2>1. m.list[i] \in Checkpoint
    BY <1>1 DEF Assembled, Record
  <2>2. list[i] = IF i = at THEN [m.list[i] EXCEPT !.cursors = @ \cup {c}]
                  ELSE IF i = m.cursor[c].chk THEN [m.list[i] EXCEPT !.cursors = @ \ {c}]
                  ELSE m.list[i]
    OBVIOUS
  <2> HIDE DEF list
  <2>3. CASE i = at
    BY <2>1, <2>2, <2>3 DEF Checkpoint
  <2>4. CASE i # at /\ i = m.cursor[c].chk
    <3>1. list[i] = [m.list[i] EXCEPT !.cursors = m.list[i].cursors \ {c}]
      BY <2>2, <2>4
    <3> QED
      BY <2>1, <2>4, <3>1 DEF Checkpoint
  <2>5. CASE i # at /\ i # m.cursor[c].chk
    BY <2>1, <2>2, <2>5
  <2> QED
    BY <2>3, <2>4, <2>5
<1>9. list \in [1..n -> Checkpoint]
  BY <1>8
<1> HIDE DEF list, cursor
<1>10. /\ q \in Record(n) /\ q.list = list /\ q.cursor = cursor
       /\ q.mutationCounter = m.mutationCounter
  <2>1. Fits(m, n, list, cursor, m.numItems, m.mutationCounter)
    BY <1>1, <1>3, <1>7, <1>9 DEF Assembled, Fits, n
  <2> QED
    BY <2>1, <1>2, RebuiltParts
<1>11. Registered(q) = Registered(m) \cup {c}
  BY <1>1, <1>6, <1>7, <1>10 DEF Registered
<1>12. Assembled(q, n)
  <2>1. ASSUME NEW i \in 1..n
        PROVE  ChkOK(q.list[i], q.mutationCounter) /\ q.list[i].cursors \subseteq Registered(q)
    BY <1>1, <1>8, <1>10, <1>11 DEF Assembled, ChkOK
  <2>2. ASSUME NEW d \in Registered(q)
        PROVE  /\ q.cursor[d].chk \in 1..n
               /\ q.list[q.cursor[d].chk].mid[q.cursor[d].pos] # 0
               /\ d \in q.list[q.cursor[d].chk].cursors
    <3>1. CASE d = c
      BY <1>1, <1>5, <1>6, <1>7, <1>8, <1>10, <3>1
    <3>2. CASE d # c
      <4>1. d \in Names /\ d \in Registered(m) /\ q.cursor[d] = m.cursor[d]
        BY <1>7, <1>10, <1>11, <3>2 DEF Registered
      <4> QED
        BY <1>1, <1>8, <1>10, <3>2, <4>1 DEF Assembled
    <3> QED
      BY <3>1, <3>2
  <2> QED
    BY <1>1, <1>10, <1>11, <2>1, <2>2 DEF Assembled
<1> QED
  BY <1>12, AssembledOK DEF q

\* The value for a name without a cursor.
LEMMA NoCursorType == NoCursor \in Cursor /\ NoCursor.chk = 0
BY MetaKeysDiffer DEF NoCursor, Cursor, MetaFact

\* removeTAPCursor.
LEMMA RemoveCursorOK ==
  ASSUME NEW m, ManagerOK(m), NEW c \in Names, c # Persistence
  PROVE  ManagerOK(RemoveCursor(m, c))
<1> DEFINE q == RemoveCursor(m, c)
           n == Len(m.list)
           list == [i \in 1..n |-> [m.list[i] EXCEPT !.cursors = @ \ {c}]]
           cursor == [m.cursor EXCEPT ![c] = NoCursor]
<1>0. SUFFICES ASSUME m.cursor[c].chk # 0
               PROVE  ManagerOK(q)
  BY DEF RemoveCursor
<1>1. Assembled(m, n) /\ DOMAIN m.list = 1..n
  BY Disassemble, ShapeFacts DEF ManagerOK
<1>2. q = Rebuilt(m, list, cursor, m.numItems, m.mutationCounter)
  BY <1>0, <1>1 DEF RemoveCursor, Rebuilt, Assembled, Record
<1>3. /\ m.cursor \in [Names -> Cursor]
      /\ m.numItems \in Int /\ m.mutationCounter \in Nat /\ m \in Record(n)
  BY <1>1 DEF Assembled, Record
<1> HIDE DEF q, n
<1>4. /\ cursor \in [Names -> Cursor] /\ cursor[c].chk = 0
      /\ \A d \in Names \ {c} : cursor[d] = m.cursor[d]
  BY <1>3, NoCursorType
<1>5. ASSUME NEW i \in 1..n
      PROVE  /\ list[i] \in Checkpoint
             /\ list[i].mid = m.list[i].mid
             /\ list[i].cursors = m.list[i].cursors \ {c}
  <2>1. m.list[i] \in Checkpoint
    BY <1>1 DEF Assembled, Record
  <2>2. list[i] = [m.list[i] EXCEPT !.cursors = m.list[i].cursors \ {c}]
    OBVIOUS
  <2> HIDE DEF list
  <2> QED
    BY <2>1, <2>2 DEF Checkpoint
<1>6. list \in [1..n -> Checkpoint]
  BY <1>5
<1> HIDE DEF list, cursor
<1>7. /\ q \in Record(n) /\ q.list = list /\ q.cursor = cursor
      /\ q.mutationCounter = m.mutationCounter
  <2>1. Fits(m, n, list, cursor, m.numItems, m.mutationCounter)
    BY <1>1, <1>3, <1>4, <1>6 DEF Assembled, Fits, n
  <2> QED
    BY <2>1, <1>2, RebuiltParts
<1>8. Registered(q) = Registered(m) \ {c}
  BY <1>4, <1>7 DEF Registered
<1>9. ASSUME NEW i \in 1..n
      PROVE  ChkOK(q.list[i], q.mutationCounter) /\ q.list[i].cursors \subseteq Registered(q)
  BY <1>1, <1>5, <1>7, <1>8 DEF Assembled, ChkOK
<1>10. ASSUME NEW d \in Registered(q)
       PROVE  /\ q.cursor[d].chk \in 1..n
              /\ q.list[q.cursor[d].chk].mid[q.cursor[d].pos] # 0
              /\ d \in q.list[q.cursor[d].chk].cursors
  <2>1. d \in Names \ {c} /\ d \in Registered(m) /\ q.cursor[d] = m.cursor[d]
    BY <1>4, <1>7, <1>8 DEF Registered
  <2> QED
    BY <1>1, <1>5, <1>7, <2>1 DEF Assembled
<1>11. Assembled(q, n)
  BY <1>1, <1>7, <1>8, <1>9, <1>10 DEF Assembled
<1> QED
  BY <1>11, AssembledOK
-----------------------------------------------------------------------------
(***************************************************************************)
(* The checkpoint remover.                                                 *)
(***************************************************************************)

LEMMA MoveFinishedCursorsOK ==
  ASSUME NEW m, ManagerOK(m), NEW oldId
  PROVE  ManagerOK(MoveFinishedCursors(m, oldId))
<1> DEFINE q == MoveFinishedCursors(m, oldId)
           n == Len(m.list)
           done == {c \in Registered(m) :
                      /\ ChkOf(m, c).id = oldId
                      /\ AtEnd(m, c) /\ CanMoveNext(m, c)}
           list == [i \in 1..n |->
                      [m.list[i] EXCEPT !.cursors =
                         (@ \ {c \in done : m.cursor[c].chk = i})
                           \cup {c \in done : m.cursor[c].chk = i - 1}]]
           cursor == [c \in Names |->
                        IF c \in done
                        THEN [m.cursor[c] EXCEPT !.chk = @ + 1, !.pos = Dummy]
                        ELSE m.cursor[c]]
<1>1. Assembled(m, n) /\ DOMAIN m.list = 1..n
  BY Disassemble, ShapeFacts DEF ManagerOK
<1>2. q = Rebuilt(m, list, cursor, m.numItems, m.mutationCounter)
  BY <1>1 DEF MoveFinishedCursors, Rebuilt, Assembled, Record
<1>3. /\ m.cursor \in [Names -> Cursor]
      /\ m.numItems \in Int /\ m.mutationCounter \in Nat /\ m \in Record(n)
  BY <1>1 DEF Assembled, Record
<1>4. done \subseteq Registered(m) /\ \A c \in done : m.cursor[c].chk < n
  BY DEF CanMoveNext
<1> HIDE DEF q, n, done
<1>5. ASSUME NEW c \in Names
      PROVE  /\ cursor[c] \in Cursor
             /\ c \in done => cursor[c].chk = m.cursor[c].chk + 1 /\ cursor[c].pos = Dummy
             /\ c \notin done => cursor[c] = m.cursor[c]
  <2> DEFINE x == m.cursor[c]
  <2>1. x \in Cursor /\ x.chk \in Nat /\ x.offset \in Int /\ x.openId \in Nat
        /\ x.closedOnly \in BOOLEAN
    BY <1>3 DEF Cursor
  <2>2. CASE c \in done
    <3>1. cursor[c] = [x EXCEPT !.chk = x.chk + 1, !.pos = Dummy]
      BY <2>2
    <3> HIDE DEF x, cursor
    <3>2. cursor[c] = [chk |-> x.chk + 1, pos |-> Dummy, offset |-> x.offset,
                       closedOnly |-> x.closedOnly, openId |-> x.openId]
      BY <2>1, <3>1 DEF Cursor
    <3> QED
      BY <2>1, <2>2, <3>2, MetaKeysDiffer DEF Cursor, MetaFact, x
  <2> QED
    BY <2>1, <2>2
<1>6. ASSUME NEW i \in 1..n
      PROVE  /\ list[i] \in Checkpoint
             /\ list[i].mid = m.list[i].mid
             /\ list[i].cursors = (m.list[i].cursors \ {c \in done : m.cursor[c].chk = i})
                                    \cup {c \in done : m.cursor[c].chk = i - 1}
  <2> DEFINE C == (m.list[i].cursors \ {c \in done : m.cursor[c].chk = i})
                    \cup {c \in done : m.cursor[c].chk = i - 1}
  <2>1. m.list[i] \in Checkpoint
    BY <1>1 DEF Assembled, Record
  <2>2. C \subseteq Names
    BY <1>4, <2>1 DEF Checkpoint, Registered
  <2>3. list[i] = [m.list[i] EXCEPT !.cursors = C]
    OBVIOUS
  <2> HIDE DEF list, C
  <2>4. list[i] \in Checkpoint /\ list[i].mid = m.list[i].mid /\ list[i].cursors = C
    BY <2>1, <2>2, <2>3 DEF Checkpoint
  <2> QED
    BY <2>4 DEF C
<1>7. list \in [1..n -> Checkpoint] /\ cursor \in [Names -> Cursor]
  BY <1>5, <1>6
<1> HIDE DEF list, cursor
<1>8. /\ q \in Record(n) /\ q.list = list /\ q.cursor = cursor
      /\ q.mutationCounter = m.mutationCounter
  <2>1. Fits(m, n, list, cursor, m.numItems, m.mutationCounter)
    BY <1>1, <1>3, <1>7 DEF Assembled, Fits, n
  <2> QED
    BY <2>1, <1>2, RebuiltParts
<1>9. Registered(q) = Registered(m)
  <2>1. \A c \in Names : m.cursor[c].chk \in Nat
    BY <1>3 DEF Cursor
  <2>2. \A c \in Names : q.cursor[c].chk = m.cursor[c].chk \/ c \in done
    BY <1>5, <1>8
  <2>3. \A c \in done : m.cursor[c].chk # 0 /\ m.cursor[c].chk + 1 # 0
    BY <1>4, <2>1 DEF Registered
  <2> QED
    BY <1>4, <1>5, <1>8, <2>2, <2>3 DEF Registered
<1>10. ASSUME NEW i \in 1..n
       PROVE  ChkOK(q.list[i], q.mutationCounter) /\ q.list[i].cursors \subseteq Registered(q)
  BY <1>1, <1>4, <1>6, <1>8, <1>9 DEF Assembled, ChkOK
<1>11. ASSUME NEW d \in Registered(q)
       PROVE  /\ q.cursor[d].chk \in 1..n
              /\ q.list[q.cursor[d].chk].mid[q.cursor[d].pos] # 0
              /\ d \in q.list[q.cursor[d].chk].cursors
  <2>1. /\ d \in Names /\ d \in Registered(m) /\ m.cursor[d].chk \in 1..n
        /\ m.list[m.cursor[d].chk].mid[m.cursor[d].pos] # 0
        /\ d \in m.list[m.cursor[d].chk].cursors /\ n \in Nat
    BY <1>1, <1>9 DEF Assembled, Registered
  <2>2. CASE d \in done
    <3> DEFINE j == m.cursor[d].chk + 1
    <3>1. j \in 1..n /\ m.cursor[d].chk = j - 1
      BY <1>4, <2>1, <2>2
    <3>2. q.cursor[d].chk = j /\ q.cursor[d].pos = Dummy
      BY <1>5, <1>8, <2>1, <2>2
    <3> HIDE DEF j
    <3>3. d \in q.list[j].cursors /\ q.list[j].mid[Dummy] # 0
      BY <1>1, <1>6, <1>8, <2>2, <3>1 DEF Assembled, ChkOK
    <3> QED
      BY <3>1, <3>2, <3>3
  <2>3. CASE d \notin done
    BY <1>5, <1>6, <1>8, <2>1, <2>3
  <2> QED
    BY <2>2, <2>3
<1>12. Assembled(q, n)
  BY <1>1, <1>8, <1>9, <1>10, <1>11 DEF Assembled
<1> QED
  BY <1>12, AssembledOK DEF q

\* The scan stops at or before the first checkpoint that a cursor is in.
LEMMA NumUnrefBound ==
  ASSUME NEW m, ManagerOK(m)
  PROVE  /\ NumUnref(m) \in Nat /\ NumUnref(m) < Len(m.list)
         /\ \A c \in Registered(m) : NumUnref(m) < m.cursor[c].chk
<1> DEFINE n == Len(m.list)
           held == {i \in 1..n : ValidCursors(m, i) # {}}
           first == FirstReferenced(m)
<1>1. Assembled(m, n) /\ DOMAIN m.list = 1..n
  BY Disassemble, ShapeFacts DEF ManagerOK
<1>2. \A c \in Registered(m) : m.cursor[c].chk \in held
  BY <1>1 DEF Assembled, ValidCursors
<1>3. held # {} /\ held \subseteq Nat /\ held \subseteq 1..n
  BY <1>1, <1>2 DEF Assembled
<1>4. first = CHOOSE i \in held : \A j \in held : i <= j
  BY <1>1 DEF FirstReferenced
<1> HIDE DEF held, n
<1>5. \E i \in held : \A j \in held : i <= j
  BY <1>3, NatMin
<1>6. first \in held /\ \A j \in held : first <= j
  BY <1>4, <1>5
<1> HIDE DEF first
<1>7. NumUnref(m) \in Nat /\ NumUnref(m) <= first - 1
  <2>1. first - 1 \in Nat /\ n \in Nat
    BY <1>1, <1>3, <1>6 DEF Assembled
  <2>2. MaxCheckpoints \in Nat
    BY ConfigAssumption
  <2> QED
    BY <2>1, <2>2 DEF NumUnref, MinOf, MaxOf, first, n
<1>8. first \in 1..n /\ n \in Nat
  BY <1>1, <1>3, <1>6 DEF Assembled
<1>9. \A c \in Registered(m) : first <= m.cursor[c].chk /\ m.cursor[c].chk \in Nat
  BY <1>2, <1>3, <1>6
<1> QED
  BY <1>7, <1>8, <1>9 DEF n

\* removeClosedUnrefCheckpoints drops the unreferenced checkpoints at the front.
LEMMA DropUnrefOK ==
  ASSUME NEW m, ManagerOK(m)
  PROVE  ManagerOK(DropUnref(m))
<1> DEFINE q == DropUnref(m)
           n == Len(m.list)
           r == NumUnref(m)
           gone == DocsIn(m.list, r) + 2 * r
           stopped == KeepClosed /\ r > 0 /\ n - r <= MaxCheckpoints
           Scanned(i) == ~stopped /\ i = FirstReferenced(m)
           list == [i \in 1..(n - r) |->
                      IF Scanned(i + r)
                      THEN [m.list[i + r] EXCEPT !.cursors = ValidCursors(m, i + r)]
                      ELSE m.list[i + r]]
           cursor == [c \in Names |->
                        IF c \in Registered(m)
                        THEN [m.cursor[c] EXCEPT !.chk = @ - r,
                                                 !.offset = DecrOffset(@, gone)]
                        ELSE m.cursor[c]]
<1>1. Assembled(m, n)
  BY Disassemble
<1>2. /\ m.cursor \in [Names -> Cursor]
      /\ m.numItems \in Int /\ m.mutationCounter \in Nat /\ m \in Record(n)
  BY <1>1 DEF Assembled, Record
<1>3. q = Rebuilt(m, list, cursor, m.numItems - gone, m.mutationCounter)
  BY <1>2 DEF DropUnref, Rebuilt, Record
<1>4. r \in Nat /\ r < n /\ \A c \in Registered(m) : r < m.cursor[c].chk
  BY NumUnrefBound
<1>5. gone \in Int
  BY <1>4, DocsInNat
<1> HIDE DEF q, n, r, gone, Scanned
<1>6. ASSUME NEW c \in Names
      PROVE  /\ cursor[c] \in Cursor
             /\ c \in Registered(m) => /\ cursor[c].chk = m.cursor[c].chk - r
                                       /\ cursor[c].pos = m.cursor[c].pos
             /\ c \notin Registered(m) => cursor[c] = m.cursor[c]
  <2> DEFINE x == m.cursor[c]
             k == x.chk - r
             o == DecrOffset(x.offset, gone)
  <2>1. x \in Cursor /\ x.chk \in Nat /\ x.offset \in Int /\ x.openId \in Nat
        /\ x.closedOnly \in BOOLEAN /\ x.pos \in AllKeys
    BY <1>2 DEF Cursor
  <2>2. CASE c \in Registered(m)
    <3>1. cursor[c] = [x EXCEPT !.chk = k, !.offset = o]
      BY <2>2
    <3>2. k \in Nat /\ o \in Int
      BY <1>4, <1>5, <2>1, <2>2 DEF DecrOffset
    <3> HIDE DEF x, cursor, k, o
    <3>3. cursor[c] = [chk |-> k, pos |-> x.pos, offset |-> o,
                       closedOnly |-> x.closedOnly, openId |-> x.openId]
      BY <2>1, <3>1 DEF Cursor
    <3>4. cursor[c] \in Cursor /\ cursor[c].chk = k /\ cursor[c].pos = x.pos
      BY <2>1, <3>2, <3>3 DEF Cursor
    <3> QED
      BY <2>2, <3>4 DEF x, k
  <2> QED
    BY <2>1, <2>2
<1>7. ASSUME NEW i \in 1..(n - r)
      PROVE  /\ list[i] \in Checkpoint /\ i + r \in 1..n
             /\ list[i].mid = m.list[i + r].mid
             /\ list[i].cursors \subseteq m.list[i + r].cursors
             /\ ValidCursors(m, i + r) \subseteq list[i].cursors
  <2> DEFINE j == i + r
             V == ValidCursors(m, j)
  <2>1. j \in 1..n
    BY <1>1, <1>4 DEF Assembled
  <2>2. list[i] = IF Scanned(j) THEN [m.list[j] EXCEPT !.cursors = V] ELSE m.list[j]
    OBVIOUS
  <2> HIDE DEF list, j
  <2>3. m.list[j] \in Checkpoint /\ V \subseteq m.list[j].cursors
    BY <1>1, <2>1 DEF Assembled, Record, ValidCursors
  <2> HIDE DEF V
  <2>4. /\ list[i] \in Checkpoint /\ list[i].mid = m.list[j].mid
        /\ list[i].cursors \subseteq m.list[j].cursors /\ V \subseteq list[i].cursors
    <3>1. CASE Scanned(j)
      <4>1. list[i] = [m.list[j] EXCEPT !.cursors = V]
        BY <2>2, <3>1
      <4> QED
        BY <2>3, <4>1 DEF Checkpoint
    <3>2. CASE ~Scanned(j)
      BY <2>2, <2>3, <3>2
    <3> QED
      BY <3>1, <3>2
  <2> QED
    BY <2>1, <2>4 DEF j, V
<1>8. list \in [1..(n - r) -> Checkpoint] /\ cursor \in [Names -> Cursor]
  BY <1>6, <1>7
<1> HIDE DEF list, cursor
<1>9. /\ q \in Record(n - r) /\ q.list = list /\ q.cursor = cursor
      /\ q.mutationCounter = m.mutationCounter
  <2>1. Fits(m, n - r, list, cursor, m.numItems - gone, m.mutationCounter)
    BY <1>1, <1>2, <1>4, <1>5, <1>8 DEF Assembled, Fits, n
  <2> QED
    BY <2>1, <1>3, RebuiltParts
<1>10. Registered(q) = Registered(m)
  <2>1. \A c \in Names : m.cursor[c].chk \in Nat
    BY <1>2 DEF Cursor
  <2>2. \A c \in Names : IF c \in Registered(m) THEN q.cursor[c].chk = m.cursor[c].chk - r
                                                ELSE q.cursor[c].chk = m.cursor[c].chk
    BY <1>6, <1>9
  <2> QED
    BY <1>4, <2>1, <2>2 DEF Registered
<1>11. ASSUME NEW i \in 1..(n - r)
       PROVE  ChkOK(q.list[i], q.mutationCounter) /\ q.list[i].cursors \subseteq Registered(q)
  BY <1>1, <1>7, <1>9, <1>10 DEF Assembled, ChkOK
<1>12. ASSUME NEW d \in Registered(q)
       PROVE  /\ q.cursor[d].chk \in 1..(n - r)
              /\ q.list[q.cursor[d].chk].mid[q.cursor[d].pos] # 0
              /\ d \in q.list[q.cursor[d].chk].cursors
  <2> DEFINE j == q.cursor[d].chk
  <2>1. /\ d \in Names /\ d \in Registered(m) /\ m.cursor[d].chk \in 1..n
        /\ m.list[m.cursor[d].chk].mid[m.cursor[d].pos] # 0
        /\ d \in m.list[m.cursor[d].chk].cursors /\ n \in Nat
    BY <1>1, <1>10 DEF Assembled, Registered
  <2>2. j = m.cursor[d].chk - r /\ q.cursor[d].pos = m.cursor[d].pos
    BY <1>6, <1>9, <2>1
  <2>3. j \in 1..(n - r) /\ m.cursor[d].chk = j + r
    BY <1>4, <2>1, <2>2
  <2> HIDE DEF j
  <2>4. d \in ValidCursors(m, j + r)
    BY <2>1, <2>3 DEF ValidCursors
  <2>5. d \in q.list[j].cursors /\ q.list[j].mid = m.list[j + r].mid
    BY <1>7, <1>9, <2>3, <2>4
  <2> QED
    BY <2>1, <2>2, <2>3, <2>5 DEF j
<1>13. Assembled(q, n - r)
  <2>1. n - r \in Nat \ {0} /\ Persistence \in Registered(q)
    BY <1>1, <1>4, <1>10 DEF Assembled
  <2> QED
    BY <1>9, <1>11, <1>12, <2>1 DEF Assembled
<1> QED
  BY <1>13, AssembledOK DEF q

\* Merging keeps what the last checkpoint has, and invents no ids.
LEMMA MergedMidOK ==
  ASSUME NEW list, NEW to \in Nat \ {0}, NEW b,
         \A i \in 1..to : ChkOK(list[i], b)
  PROVE  /\ MergedMid(list, to) \in [AllKeys -> Nat]
         /\ \A k \in AllKeys : MergedMid(list, to)[k] <= b
         /\ \A k \in AllKeys : list[to].mid[k] # 0 => MergedMid(list, to)[k] # 0
<1> DEFINE q == MergedMid(list, to)
<1>1. ASSUME NEW k \in AllKeys
      PROVE  /\ q[k] \in Nat /\ q[k] <= b
             /\ list[to].mid[k] # 0 => q[k] # 0
  <2> DEFINE holders == {i \in 1..to : list[i].mid[k] # 0}
             top == CHOOSE i \in holders : \A j \in holders : j <= i
  <2>1. q[k] = IF k \in Keys /\ holders # {} THEN list[top].mid[k] ELSE list[to].mid[k]
    BY DEF MergedMid
  <2>2. \A i \in 1..to : list[i].mid[k] \in Nat /\ list[i].mid[k] <= b
    BY DEF ChkOK, Checkpoint
  <2>3. holders # {} => \E i \in holders : \A j \in holders : j <= i
    <3> DEFINE f == [i \in holders |-> i]
    <3>1. f \in [holders -> Nat] /\ \A i \in holders : f[i] <= to
      OBVIOUS
    <3>2. to \in Nat
      OBVIOUS
    <3> HIDE DEF holders
    <3>3. ASSUME holders # {}
          PROVE  \E i \in holders : \A j \in holders : f[j] <= f[i]
      <4> HIDE DEF f
      <4> QED
        BY <3>1, <3>2, <3>3, RankMax
    <3> QED
      BY <3>3
  <2>4. holders # {} => top \in holders
    BY <2>3
  <2>5. CASE k \in Keys /\ holders # {}
    <3>1. top \in 1..to /\ list[top].mid[k] # 0
      BY <2>4, <2>5
    <3> HIDE DEF q, top, holders
    <3> QED
      BY <2>1, <2>2, <2>5, <3>1
  <2>6. CASE ~(k \in Keys /\ holders # {})
    <3> HIDE DEF q, top, holders
    <3> QED
      BY <2>1, <2>2, <2>6
  <2> QED
    BY <2>5, <2>6
<1>2. q = [k \in AllKeys |-> q[k]]
  BY DEF MergedMid
<1> HIDE DEF q
<1>3. q \in [AllKeys -> Nat]
  BY <1>1, <1>2
<1> QED
  BY <1>1, <1>3 DEF q

\* collapseClosedCheckpoints merges all closed checkpoints into the last of them.
LEMMA CollapseClosedOK ==
  ASSUME NEW m, ManagerOK(m)
  PROVE  ManagerOK(CollapseClosed(m))
<1> DEFINE q == CollapseClosed(m)
           n == Len(m.list)
           t == n - 1
           slow == (UNION {m.list[i].cursors : i \in 1..(t - 1)}) \cap Registered(m)
           fast == (m.list[t].cursors \cup m.list[n].cursors) \cap Registered(m)
           lost == NumCollapsed(m.list, t)
           Moved(c) ==
             IF c \in slow THEN [m.cursor[c] EXCEPT !.chk = 1, !.pos = Dummy, !.offset = 0]
             ELSE IF c \in Registered(m) THEN [m.cursor[c] EXCEPT !.chk = @ - (t - 1)]
             ELSE m.cursor[c]
           one == [m.list[t] EXCEPT !.mid = MergedMid(m.list, t), !.cursors = @ \cup slow]
           list == <<one, m.list[n]>>
           cursor == [c \in Names |->
                        IF c \in fast
                        THEN [Moved(c) EXCEPT !.offset = DecrOffset(@, lost)]
                        ELSE Moved(c)]
<1>0. SUFFICES ASSUME ~(n <= 2)
               PROVE  ManagerOK(q)
  BY DEF CollapseClosed
<1>1. Assembled(m, n)
  BY Disassemble
<1>2. /\ m.cursor \in [Names -> Cursor]
      /\ m.numItems \in Int /\ m.mutationCounter \in Nat /\ m \in Record(n)
  BY <1>1 DEF Assembled, Record
<1>3. q = Rebuilt(m, list, cursor, m.numItems - lost, m.mutationCounter)
  BY <1>0, <1>2 DEF CollapseClosed, Rebuilt, Record
<1>4. t \in 1..n /\ n \in 1..n /\ t \in Nat \ {0} /\ n = t + 1 /\ lost \in Int
  BY <1>0, <1>1, NumCollapsedInt DEF Assembled
<1>5. slow \subseteq Registered(m) /\ Registered(m) \subseteq Names
  BY DEF Registered
<1>6. \A c \in Registered(m) \ slow : m.cursor[c].chk = t \/ m.cursor[c].chk = n
  <2>1. \A c \in Registered(m) : /\ m.cursor[c].chk \in 1..n
                                 /\ c \in m.list[m.cursor[c].chk].cursors
    BY <1>1 DEF Assembled
  <2>2. \A i \in 1..n : i = t \/ i = n \/ i \in 1..(t - 1)
    BY <1>4
  <2>3. \A c \in Registered(m) : m.cursor[c].chk \in 1..(t - 1) => c \in slow
    BY <2>1
  <2> QED
    BY <2>1, <2>2, <2>3
<1> HIDE DEF q, n, t, slow, fast, lost
<1>7. ASSUME NEW c \in Names
      PROVE  /\ cursor[c] \in Cursor
             /\ c \in slow => cursor[c].chk = 1 /\ cursor[c].pos = Dummy
             /\ c \in Registered(m) \ slow => /\ cursor[c].chk = m.cursor[c].chk - (t - 1)
                                              /\ cursor[c].pos = m.cursor[c].pos
             /\ c \notin Registered(m) => cursor[c].chk = 0
  <2> DEFINE x == m.cursor[c]
             y == Moved(c)
  <2>1. x \in Cursor /\ x.chk \in Nat /\ x.offset \in Int /\ x.openId \in Nat
        /\ x.closedOnly \in BOOLEAN /\ x.pos \in AllKeys
    BY <1>2 DEF Cursor
  <2>2. cursor[c] = IF c \in fast THEN [y EXCEPT !.offset = DecrOffset(y.offset, lost)]
                    ELSE y
    OBVIOUS
  <2>3. y = IF c \in slow THEN [x EXCEPT !.chk = 1, !.pos = Dummy, !.offset = 0]
            ELSE IF c \in Registered(m) THEN [x EXCEPT !.chk = x.chk - (t - 1)]
            ELSE x
    OBVIOUS
  <2> HIDE DEF cursor, x, y
  <2>4. /\ y \in Cursor
        /\ c \in slow => y.chk = 1 /\ y.pos = Dummy
        /\ c \in Registered(m) \ slow => y.chk = x.chk - (t - 1) /\ y.pos = x.pos
        /\ c \notin Registered(m) => y.chk = 0
    <3>1. CASE c \in slow
      <4>1. y = [chk |-> 1, pos |-> Dummy, offset |-> 0,
                 closedOnly |-> x.closedOnly, openId |-> x.openId]
        BY <2>1, <2>3, <3>1 DEF Cursor
      <4> QED
        BY <1>5, <2>1, <3>1, <4>1, MetaKeysDiffer DEF Cursor, MetaFact
    <3>2. CASE c \in Registered(m) \ slow
      <4> DEFINE k == x.chk - (t - 1)
      <4>1. k \in Nat
        BY <1>4, <1>6, <3>2 DEF x
      <4>2. y = [x EXCEPT !.chk = k]
        BY <2>3, <3>2
      <4> HIDE DEF k
      <4>3. y = [chk |-> k, pos |-> x.pos, offset |-> x.offset,
                 closedOnly |-> x.closedOnly, openId |-> x.openId]
        BY <2>1, <4>2 DEF Cursor
      <4>4. y \in Cursor /\ y.chk = k /\ y.pos = x.pos
        BY <2>1, <4>1, <4>3 DEF Cursor
      <4> QED
        BY <3>2, <4>4 DEF k
    <3>3. CASE c \notin Registered(m)
      BY <1>5, <2>1, <2>3, <3>3 DEF Registered, x
    <3> QED
      BY <3>1, <3>2, <3>3
  <2>5. cursor[c] \in Cursor /\ cursor[c].chk = y.chk /\ cursor[c].pos = y.pos
    <3>1. CASE c \in fast
      <4> DEFINE o == DecrOffset(y.offset, lost)
      <4>1. /\ o \in Int /\ y.chk \in Nat /\ y.openId \in Nat
            /\ y.closedOnly \in BOOLEAN /\ y.pos \in AllKeys
        BY <1>4, <2>4 DEF DecrOffset, Cursor
      <4>2. cursor[c] = [y EXCEPT !.offset = o]
        BY <2>2, <3>1
      <4> HIDE DEF o
      <4>3. cursor[c] = [chk |-> y.chk, pos |-> y.pos, offset |-> o,
                         closedOnly |-> y.closedOnly, openId |-> y.openId]
        BY <2>4, <4>2 DEF Cursor
      <4> QED
        BY <4>1, <4>3 DEF Cursor
    <3> QED
      BY <2>2, <2>4, <3>1
  <2> QED
    BY <2>4, <2>5 DEF x
<1>8. /\ one \in Checkpoint /\ ChkOK(one, m.mutationCounter)
      /\ one.cursors = m.list[t].cursors \cup slow
      /\ \A k \in AllKeys : m.list[t].mid[k] # 0 => one.mid[k] # 0
  <2> DEFINE mid == MergedMid(m.list, t)
             b == m.mutationCounter
  <2>1. m.list[t] \in Checkpoint /\ ChkOK(m.list[t], b)
    BY <1>1, <1>4 DEF Assembled, ChkOK
  <2>2. \A i \in 1..t : ChkOK(m.list[i], b)
    BY <1>1, <1>4 DEF Assembled
  <2>3. one = [m.list[t] EXCEPT !.mid = mid, !.cursors = m.list[t].cursors \cup slow]
    OBVIOUS
  <2> HIDE DEF mid, b, one
  <2>4. /\ mid \in [AllKeys -> Nat]
        /\ \A k \in AllKeys : mid[k] <= b
        /\ \A k \in AllKeys : m.list[t].mid[k] # 0 => mid[k] # 0
    BY <1>4, <2>2, MergedMidOK DEF mid
  <2>5. one = [id |-> m.list[t].id, open |-> m.list[t].open, mid |-> mid,
               cursors |-> m.list[t].cursors \cup slow]
    BY <2>1, <2>3 DEF Checkpoint
  <2>6. m.list[t].id \in Nat /\ m.list[t].open \in BOOLEAN /\ m.list[t].cursors \subseteq Names
    BY <2>1 DEF Checkpoint
  <2>7. /\ one \in Checkpoint /\ one.cursors = m.list[t].cursors \cup slow /\ one.mid = mid
    BY <1>5, <2>4, <2>5, <2>6 DEF Checkpoint
  <2> QED
    BY <2>1, <2>4, <2>7, MetaKeysDiffer DEF ChkOK, MetaFact, b
<1> HIDE DEF one
<1>9. /\ list \in [1..2 -> Checkpoint] /\ list[1] = one /\ list[2] = m.list[n]
      /\ cursor \in [Names -> Cursor]
  <2>1. m.list[n] \in Checkpoint
    BY <1>1, <1>4 DEF Assembled, Record
  <2>2. cursor \in [Names -> Cursor]
    BY <1>7
  <2> HIDE DEF cursor
  <2> QED
    BY <1>8, <2>1, <2>2
<1> HIDE DEF list, cursor
<1>10. /\ q \in Record(2) /\ q.list = list /\ q.cursor = cursor
       /\ q.mutationCounter = m.mutationCounter
  <2>1. Fits(m, 2, list, cursor, m.numItems - lost, m.mutationCounter)
    BY <1>1, <1>2, <1>4, <1>9 DEF Assembled, Fits, n
  <2> QED
    BY <2>1, <1>3, RebuiltParts
<1>11. Registered(q) = Registered(m)
  <2>1. \A c \in Registered(m) : q.cursor[c].chk # 0
    BY <1>4, <1>5, <1>6, <1>7, <1>10
  <2>2. \A c \in Names \ Registered(m) : q.cursor[c].chk = 0
    BY <1>7, <1>10
  <2> QED
    BY <1>5, <2>1, <2>2 DEF Registered
<1>12. /\ \A i \in 1..n : m.list[i].cursors \subseteq Registered(m)
       /\ ChkOK(m.list[n], m.mutationCounter)
  BY <1>1, <1>4 DEF Assembled
<1>13. ASSUME NEW i \in 1..2
       PROVE  ChkOK(q.list[i], q.mutationCounter) /\ q.list[i].cursors \subseteq Registered(q)
  <2>1. CASE i = 1
    BY <1>4, <1>5, <1>8, <1>9, <1>10, <1>11, <1>12, <2>1
  <2>2. CASE i = 2
    BY <1>4, <1>9, <1>10, <1>11, <1>12, <2>2
  <2> QED
    BY <2>1, <2>2
<1>14. ASSUME NEW d \in Registered(q)
       PROVE  /\ q.cursor[d].chk \in 1..2
              /\ q.list[q.cursor[d].chk].mid[q.cursor[d].pos] # 0
              /\ d \in q.list[q.cursor[d].chk].cursors
  <2>1. /\ d \in Names /\ d \in Registered(m)
        /\ m.list[m.cursor[d].chk].mid[m.cursor[d].pos] # 0
        /\ m.cursor[d].pos \in AllKeys
        /\ d \in m.list[m.cursor[d].chk].cursors
    BY <1>1, <1>2, <1>5, <1>11 DEF Assembled, Cursor
  <2>2. CASE d \in slow
    BY <1>7, <1>8, <1>9, <1>10, <2>1, <2>2 DEF ChkOK
  <2>3. CASE d \notin slow /\ m.cursor[d].chk = t
    <3>1. q.cursor[d].chk = 1 /\ q.cursor[d].pos = m.cursor[d].pos
      BY <1>4, <1>7, <1>10, <2>1, <2>3
    <3> QED
      BY <1>8, <1>9, <1>10, <2>1, <2>3, <3>1
  <2>4. CASE d \notin slow /\ m.cursor[d].chk = n
    <3>1. q.cursor[d].chk = 2 /\ q.cursor[d].pos = m.cursor[d].pos
      BY <1>4, <1>7, <1>10, <2>1, <2>4
    <3> QED
      BY <1>9, <1>10, <2>1, <2>4, <3>1
  <2> QED
    BY <1>6, <2>1, <2>2, <2>3, <2>4
<1>15. Assembled(q, 2)
  BY <1>1, <1>10, <1>11, <1>13, <1>14 DEF Assembled
<1> QED
  BY <1>15, AssembledOK

\* removeClosedUnrefCheckpoints as a whole.
LEMMA RemoveClosedUnrefOK ==
  ASSUME NEW m, ManagerOK(m), NEW forced, NEW memHigh, NEW timeUp
  PROVE  ManagerOK(RemoveClosedUnref(m, forced, memHigh, timeUp))
BY CheckOpenCheckpointOK, MoveFinishedCursorsOK, DropUnrefOK, CollapseClosedOK
   DEF RemoveClosedUnref
-----------------------------------------------------------------------------
(***************************************************************************)
(* Reading through a cursor.                                               *)
(***************************************************************************)

\* The start item follows the dummy item.
LEMMA DummyNotAtEnd ==
  ASSUME NEW m, ManagerOK(m), NEW c \in Registered(m), m.cursor[c].pos = Dummy
  PROVE  ~AtEnd(m, c)
<1>1. ChkOK(ChkOf(m, c), m.mutationCounter)
  BY DEF ManagerOK, ShapeOK, CursorOK, ChkOf
<1>2. Start \in After(ChkOf(m, c), Dummy)
  BY <1>1, MetaKeysDiffer DEF ChkOK, After, Present, Rank, MetaFact
<1> QED
  BY <1>2 DEF AtEnd

\* nextItem in an open checkpoint.
LEMMA NextFromOpenOK ==
  ASSUME NEW m, ManagerOK(m), NEW c \in Registered(m)
  PROVE  ManagerOK(NextFromOpen(m, c))
BY StepCursorOK DEF NextFromOpen

\* nextItem in a closed checkpoint, which may go on to the next one.
LEMMA NextFromClosedOK ==
  ASSUME NEW m, ManagerOK(m), NEW c \in Registered(m)
  PROVE  ManagerOK(NextFromClosed(m, c))
<1> DEFINE mm == MoveCursorToNextCheckpoint(m, c)
<1>1. CanMoveNext(m, c) =>
        ManagerOK(mm) /\ c \in Registered(mm) /\ mm.cursor[c].pos = Dummy
  BY MoveCursorOK
<1> HIDE DEF mm
<1>2. CanMoveNext(m, c) => ManagerOK(StepCursor(mm, c)) /\ ManagerOK(NextFromOpen(mm, c))
  BY <1>1, DummyNotAtEnd, StepCursorOK, NextFromOpenOK
<1>3. ~AtEnd(m, c) => ManagerOK(StepCursor(m, c))
  BY StepCursorOK
<1> QED
  BY <1>2, <1>3 DEF NextFromClosed, mm

\* nextItem as a whole.
LEMMA AdvanceTapCursorOK ==
  ASSUME NEW m, ManagerOK(m), NEW c \in Names
  PROVE  ManagerOK(AdvanceTapCursor(m, c))
BY NextFromOpenOK, NextFromClosedOK DEF AdvanceTapCursor, Registered

\* getAllItemsForPersistence.
LEMMA TakeAllOK ==
  ASSUME NEW m, ManagerOK(m)
  PROVE  ManagerOK(TakeAllForPersistence(m))
<1> DEFINE q == TakeAllForPersistence(m)
           n == Len(m.list)
           c == Persistence
           here == m.cursor[c].chk
           at == LastToTake(m, c)
           stops == {i \in here..n : m.list[i].open \/ i = n}
           x == [m.cursor[c] EXCEPT !.chk = at, !.pos = LastKey(m.list[at]),
                                    !.offset = m.numItems]
           list == [i \in 1..n |->
                      IF i = at THEN [m.list[i] EXCEPT !.cursors = @ \cup {c}]
                      ELSE IF i \in here..(at - 1)
                      THEN [m.list[i] EXCEPT !.cursors = @ \ {c}]
                      ELSE m.list[i]]
           cursor == [m.cursor EXCEPT ![c] = x]
           z == Rebuilt(m, list, cursor, m.numItems, m.mutationCounter)
<1>1. Assembled(m, n) /\ DOMAIN m.list = 1..n
  BY Disassemble, ShapeFacts DEF ManagerOK
<1>2. /\ m.cursor \in [Names -> Cursor] /\ c \in Names /\ m.cursor[c] \in Cursor
      /\ m.numItems \in Int /\ m.mutationCounter \in Nat /\ m \in Record(n)
      /\ n \in Nat /\ here \in 1..n
  BY <1>1 DEF Assembled, Record, Registered
<1>3. q = [z EXCEPT !.preChkId = LastClosedId(m)]
  BY <1>1, <1>2 DEF TakeAllForPersistence, Rebuilt, Record, Cursor
<1>4. at \in 1..n
  <2>1. stops # {} /\ stops \subseteq Nat /\ stops \subseteq 1..n
    BY <1>2
  <2>2. at = CHOOSE i \in stops : \A j \in stops : i <= j
    BY DEF LastToTake
  <2> HIDE DEF stops, at
  <2>3. \E i \in stops : \A j \in stops : i <= j
    BY <2>1, NatMin
  <2> QED
    BY <2>1, <2>2, <2>3
<1> HIDE DEF q, n, c, here, at
<1>5. LastKey(m.list[at]) \in AllKeys /\ m.list[at].mid[LastKey(m.list[at])] # 0
  <2>1. ChkOK(m.list[at], m.mutationCounter) /\ m.mutationCounter \in Nat
    BY <1>1, <1>2, <1>4 DEF Assembled
  <2> QED
    BY <2>1, LastKeyPresent DEF Present
<1>6. x \in Cursor /\ x.chk = at /\ x.pos = LastKey(m.list[at])
  <2> DEFINE y == m.cursor[c]
             p == LastKey(m.list[at])
  <2>1. y \in Cursor /\ y.closedOnly \in BOOLEAN /\ y.openId \in Nat /\ at \in Nat
        /\ p \in AllKeys /\ x = [y EXCEPT !.chk = at, !.pos = p, !.offset = m.numItems]
    BY <1>2, <1>4, <1>5 DEF Cursor
  <2> HIDE DEF x, y, p
  <2>2. x = [chk |-> at, pos |-> p, offset |-> m.numItems,
             closedOnly |-> y.closedOnly, openId |-> y.openId]
    BY <2>1 DEF Cursor
  <2> QED
    BY <1>2, <2>1, <2>2 DEF Cursor, p
<1> HIDE DEF x
<1>7. /\ cursor \in [Names -> Cursor] /\ cursor[c] = x
      /\ \A d \in Names \ {c} : cursor[d] = m.cursor[d]
  BY <1>2, <1>6
<1>8. ASSUME NEW i \in 1..n
      PROVE  /\ list[i] \in Checkpoint
             /\ list[i].mid = m.list[i].mid
             /\ list[i].cursors \subseteq m.list[i].cursors \cup {c}
             /\ m.list[i].cursors \subseteq list[i].cursors \cup {c}
             /\ i = at => c \in list[i].cursors
  <2> DEFINE passed == i \in here..(at - 1)
  <2>1. m.list[i] \in Checkpoint
    BY <1>1 DEF Assembled, Record
  <2>2. list[i] = IF i = at THEN [m.list[i] EXCEPT !.cursors = @ \cup {c}]
                  ELSE IF passed THEN [m.list[i] EXCEPT !.cursors = @ \ {c}]
                  ELSE m.list[i]
    OBVIOUS
  <2> HIDE DEF list, passed
  <2>3. CASE i = at
    BY <1>2, <2>1, <2>2, <2>3 DEF Checkpoint
  <2>4. CASE i # at /\ passed
    <3>1. list[i] = [m.list[i] EXCEPT !.cursors = m.list[i].cursors \ {c}]
      BY <2>2, <2>4
    <3> QED
      BY <2>1, <2>4, <3>1 DEF Checkpoint
  <2>5. CASE i # at /\ ~passed
    BY <2>1, <2>2, <2>5
  <2> QED
    BY <2>3, <2>4, <2>5
<1>9. list \in [1..n -> Checkpoint]
  BY <1>8
<1> HIDE DEF list, cursor
<1>10. /\ z \in Record(n) /\ z.list = list /\ z.cursor = cursor
       /\ z.mutationCounter = m.mutationCounter
  <2>1. Fits(m, n, list, cursor, m.numItems, m.mutationCounter)
    BY <1>2, <1>7, <1>9 DEF Fits, n
  <2> QED
    BY <2>1, RebuiltParts
<1> HIDE DEF z
<1>11. Registered(z) = Registered(m)
  BY <1>1, <1>2, <1>4, <1>6, <1>7, <1>10 DEF Registered, Assembled, c
<1>12. c \in Registered(m)
  BY <1>1 DEF Assembled, c
<1>13. ASSUME NEW i \in 1..n
       PROVE  ChkOK(z.list[i], z.mutationCounter) /\ z.list[i].cursors \subseteq Registered(z)
  BY <1>1, <1>8, <1>10, <1>11, <1>12 DEF Assembled, ChkOK
<1>14. ASSUME NEW d \in Registered(z)
       PROVE  /\ z.cursor[d].chk \in 1..n
              /\ z.list[z.cursor[d].chk].mid[z.cursor[d].pos] # 0
              /\ d \in z.list[z.cursor[d].chk].cursors
  <2>1. CASE d = c
    BY <1>4, <1>5, <1>6, <1>7, <1>8, <1>10, <2>1
  <2>2. CASE d # c
    <3>1. d \in Names /\ d \in Registered(m) /\ z.cursor[d] = m.cursor[d]
      BY <1>7, <1>10, <1>11, <2>2 DEF Registered
    <3> QED
      BY <1>1, <1>8, <1>10, <2>2, <3>1 DEF Assembled
  <2> QED
    BY <2>1, <2>2
<1>15. Assembled(z, n)
  BY <1>1, <1>10, <1>11, <1>13, <1>14 DEF Assembled
<1>16. ManagerOK(z) /\ Len(z.list) = n
  BY <1>15, AssembledOK
<1>17. LastClosedId(m) \in Int
  <2>1. OpenId(m) \in Nat /\ m.lastClosedId \in Int
    BY <1>2, LastFacts DEF Record
  <2> QED
    BY <2>1 DEF LastClosedId
<1>18. OnlyCounters(z, q)
  BY <1>3, <1>10, <1>16, <1>17 DEF OnlyCounters, Record
<1> QED
  BY <1>16, <1>18, SameCursors DEF ManagerOK, q
-----------------------------------------------------------------------------
(***************************************************************************)
(* Checkpoints from the master, and managers that are made anew.           *)
(***************************************************************************)

\* One checkpoint with any registered names, and cursors yet to be reset.
LEMMA SingleOK ==
  ASSUME NEW m, ShapeOK(m), NEW one, NEW numItems \in Int, NEW counter \in Nat,
         ChkOK(one, counter), one.cursors \subseteq Registered(m)
  PROVE  ShapeOK(Rebuilt(m, <<one>>, m.cursor, numItems, counter))
<1> DEFINE q == Rebuilt(m, <<one>>, m.cursor, numItems, counter)
           list == <<one>>
<1>1. m \in Record(Len(m.list)) /\ m.cursor \in [Names -> Cursor]
  BY ShapeFacts DEF Record
<1>2. list \in [1..1 -> Checkpoint] /\ list[1] = one
  BY DEF ChkOK
<1>3. /\ q \in Record(1) /\ q.list = list /\ q.cursor = m.cursor
      /\ q.mutationCounter = counter
  <2> HIDE DEF list
  <2>1. Fits(m, 1, list, m.cursor, numItems, counter)
    BY <1>1, <1>2 DEF Fits
  <2> QED
    BY <2>1, RebuiltParts DEF list
<1> HIDE DEF q, list
<1>4. Registered(q) = Registered(m)
  BY <1>3 DEF Registered
<1>5. Persistence \in Registered(q)
  BY <1>4 DEF ShapeOK
<1>6. \A i \in 1..1 : /\ ChkOK(q.list[i], q.mutationCounter)
                      /\ q.list[i].cursors \subseteq Registered(q)
  BY <1>2, <1>3, <1>4
<1>7. ShapeOK(q)
  BY <1>3, <1>5, <1>6, ShapeIntro
<1> QED
  BY <1>7 DEF q, list

\* checkAndAddNewCheckpoint's rollback to a checkpoint that the master opens again.
LEMMA RollbackOK ==
  ASSUME NEW m, ManagerOK(m), NEW id \in Nat
  PROVE  ManagerOK(Rollback(m, id))
<1> DEFINE n == Len(m.list)
           back == LastChk(m)
           merged == MergedMid(m.list, n)
           mid == [merged EXCEPT ![End] = 0]
           one == [back EXCEPT !.mid = mid, !.open = TRUE]
           items == m.numItems - NumCollapsed(m.list, n) - (IF back.open THEN 0 ELSE 1)
           z == Rebuilt(m, <<one>>, m.cursor, items, m.mutationCounter)
<1>1. Assembled(m, n)
  BY Disassemble
<1>2. /\ m \in Record(n) /\ n \in Nat \ {0} /\ n \in 1..n /\ m.mutationCounter \in Nat
      /\ back \in Checkpoint /\ back.cursors \subseteq Registered(m) /\ m.numItems \in Int
      /\ back = m.list[n] /\ ChkOK(back, m.mutationCounter)
  BY <1>1, LastFacts, ShapeFacts DEF Assembled, Record, ManagerOK
<1>3. items \in Int
  BY <1>2, NumCollapsedInt
<1>4. Rollback(m, id) = ResetCursors(SetOpenCheckpointId(z, id))
  <2>1. z = [m EXCEPT !.list = <<one>>, !.numItems = items]
    BY <1>2 DEF Rebuilt, Record
  <2>2. items = m.numItems - NumCollapsed(m.list, n) - (IF back.open THEN 0 ELSE 1)
    OBVIOUS
  <2> HIDE DEF z, items
  <2> QED
    BY <2>1, <2>2 DEF Rollback
<1>5. /\ merged \in [AllKeys -> Nat]
      /\ \A k \in AllKeys : merged[k] <= m.mutationCounter
      /\ merged[Dummy] # 0 /\ merged[Start] # 0
  <2>1. \A i \in 1..n : ChkOK(m.list[i], m.mutationCounter)
    BY <1>1 DEF Assembled
  <2>2. /\ merged \in [AllKeys -> Nat]
        /\ \A k \in AllKeys : merged[k] <= m.mutationCounter
        /\ \A k \in AllKeys : m.list[n].mid[k] # 0 => merged[k] # 0
    BY <1>2, <2>1, MergedMidOK
  <2> QED
    BY <1>2, <2>2, MetaKeysDiffer DEF ChkOK, MetaFact
<1> HIDE DEF n, back, merged, items
<1>6. /\ mid \in [AllKeys -> Nat]
      /\ \A k \in AllKeys : mid[k] <= m.mutationCounter
      /\ mid[Dummy] # 0 /\ mid[Start] # 0
  BY <1>2, <1>5, MetaKeysDiffer DEF MetaFact
<1> HIDE DEF mid
<1>7. one \in Checkpoint /\ one.mid = mid /\ one.cursors = back.cursors
  <2>1. one = [back EXCEPT !.mid = mid, !.open = TRUE]
    OBVIOUS
  <2> HIDE DEF one
  <2>2. one = [id |-> back.id, open |-> TRUE, mid |-> mid, cursors |-> back.cursors]
    BY <1>2, <2>1 DEF Checkpoint
  <2>3. back.id \in Nat /\ back.cursors \in SUBSET Names
    BY <1>2 DEF Checkpoint
  <2> QED
    BY <1>6, <2>2, <2>3 DEF Checkpoint
<1> HIDE DEF one
<1>8. ShapeOK(z)
  <2>1. ChkOK(one, m.mutationCounter) /\ one.cursors \subseteq Registered(m)
    BY <1>2, <1>6, <1>7 DEF ChkOK
  <2> QED
    BY <1>2, <1>3, <2>1, SingleOK DEF ManagerOK
<1> HIDE DEF z
<1> QED
  BY <1>4, <1>8, SetOpenIdOK, ResetCursorsOK

\* checkAndAddNewCheckpoint renumbers the open checkpoint if it is empty.
LEMMA RenumberOK ==
  ASSUME NEW m, ManagerOK(m), NEW id \in Nat
  PROVE  ManagerOK(Renumber(m, id))
<1> DEFINE n == Len(m.list)
           named == LastChk(m).cursors
           cursor == [c \in Names |->
                        IF c \in named THEN [m.cursor[c] EXCEPT !.pos = Dummy]
                        ELSE m.cursor[c]]
           z == Rebuilt(m, m.list, cursor, m.numItems, m.mutationCounter)
<1>1. Assembled(m, n)
  BY Disassemble
<1>2. /\ m \in Record(n) /\ m.list \in [1..n -> Checkpoint] /\ n \in Nat
      /\ m.cursor \in [Names -> Cursor] /\ m.numItems \in Int /\ m.mutationCounter \in Nat
  BY <1>1 DEF Assembled, Record
<1>3. Renumber(m, id) = SetOpenCheckpointId(z, id)
  <2>1. z = [m EXCEPT !.cursor = cursor]
    BY <1>2 DEF Rebuilt, Record
  <2> HIDE DEF z
  <2> QED
    BY <2>1 DEF Renumber
<1> HIDE DEF n, named
<1>4. ASSUME NEW c \in Names
      PROVE  /\ cursor[c] \in Cursor
             /\ cursor[c].chk = m.cursor[c].chk
             /\ cursor[c].pos = m.cursor[c].pos \/ cursor[c].pos = Dummy
  <2> DEFINE x == m.cursor[c]
  <2>1. x \in Cursor /\ cursor[c] = IF c \in named THEN [x EXCEPT !.pos = Dummy] ELSE x
    BY <1>2
  <2> HIDE DEF x, cursor
  <2>2. CASE c \in named
    <3>1. cursor[c] = [x EXCEPT !.pos = Dummy]
      BY <2>1, <2>2
    <3> QED
      BY <2>1, <3>1, MetaKeysDiffer DEF Cursor, MetaFact, x
  <2> QED
    BY <2>1, <2>2 DEF x
<1>5. cursor \in [Names -> Cursor]
  BY <1>4
<1> HIDE DEF cursor
<1>6. /\ z \in Record(n) /\ z.list = m.list /\ z.cursor = cursor
      /\ z.mutationCounter = m.mutationCounter
  <2>1. Fits(m, n, m.list, cursor, m.numItems, m.mutationCounter)
    BY <1>2, <1>5 DEF Fits, n
  <2> QED
    BY <2>1, RebuiltParts
<1> HIDE DEF z
<1>7. Registered(z) = Registered(m)
  BY <1>4, <1>6 DEF Registered
<1>8. ASSUME NEW d \in Registered(z)
      PROVE  /\ z.cursor[d].chk \in 1..n
             /\ z.list[z.cursor[d].chk].mid[z.cursor[d].pos] # 0
             /\ d \in z.list[z.cursor[d].chk].cursors
  <2>1. d \in Names /\ d \in Registered(m)
    BY <1>7 DEF Registered
  <2> QED
    BY <1>1, <1>4, <1>6, <2>1 DEF Assembled, ChkOK
<1>9. Assembled(z, n)
  BY <1>1, <1>6, <1>7, <1>8 DEF Assembled
<1>10. ManagerOK(z)
  BY <1>9, AssembledOK
<1> QED
  BY <1>3, <1>10, SetOpenIdOK DEF ManagerOK

\* checkAndAddNewCheckpoint as a whole.
LEMMA CheckAndAddOK ==
  ASSUME NEW m, ManagerOK(m), NEW id \in Nat
  PROVE  ManagerOK(CheckAndAddNewCheckpoint(m, id))
<1> DEFINE gap == LastChk(m).id + 1 < id
           closed == IF gap THEN OpenId(m) - 1 ELSE 0
           mm == [m EXCEPT !.collapsed = gap, !.lastClosedId = closed]
<1>1. ShapeOK(m) /\ m \in Record(Len(m.list)) /\ OpenId(m) \in Nat
  BY ShapeFacts, LastFacts DEF ManagerOK
<1>2. OnlyCounters(m, mm)
  <2>1. gap \in BOOLEAN /\ closed \in Int
    BY <1>1
  <2> HIDE DEF gap, closed
  <2>2. mm \in Record(Len(m.list))
    BY <1>1, <2>1 DEF Record
  <2>3. mm.list = m.list /\ mm.cursor = m.cursor /\ mm.mutationCounter = m.mutationCounter
    BY <1>1 DEF Record
  <2> HIDE DEF mm
  <2> QED
    BY <2>2, <2>3 DEF OnlyCounters
<1>3. CheckAndAddNewCheckpoint(m, id) \in
        {m, ResetCursors(SetOpenCheckpointId(m, id)), Rollback(m, id),
         Renumber(mm, id), AddNewCheckpoint(mm, id)}
  BY DEF CheckAndAddNewCheckpoint
<1> HIDE DEF mm
<1>4. ManagerOK(mm)
  BY <1>1, <1>2, SameCursors
<1>5. ManagerOK(ResetCursors(SetOpenCheckpointId(m, id)))
  BY <1>1, SetOpenIdOK, ResetCursorsOK
<1>6. ManagerOK(Rollback(m, id)) /\ ManagerOK(Renumber(mm, id))
      /\ ManagerOK(AddNewCheckpoint(mm, id))
  BY <1>4, RollbackOK, RenumberOK, AddNewCheckpointOK
<1> QED
  BY <1>3, <1>5, <1>6

\* A cursor at the first item of the first checkpoint.
LEMMA FirstItemCursor ==
  ASSUME NEW x, x = [NoCursor EXCEPT !.chk = 1]
  PROVE  x \in Cursor /\ x.chk = 1 /\ x.pos = Dummy
<1>1. x = [chk |-> 1, pos |-> Dummy, offset |-> 0, closedOnly |-> FALSE, openId |-> 0]
  BY DEF NoCursor
<1>2. Dummy \in AllKeys /\ 0 \in Nat /\ 1 \in Nat /\ 0 \in Int /\ FALSE \in BOOLEAN
  BY MetaKeysDiffer DEF MetaFact
<1>3. x.chk = 1 /\ x.pos = Dummy /\ x.offset = 0 /\ x.closedOnly = FALSE /\ x.openId = 0
  BY <1>1
<1>4. [chk |-> 1, pos |-> Dummy, offset |-> 0, closedOnly |-> FALSE, openId |-> 0] \in Cursor
  BY <1>2 DEF Cursor
<1> QED
  BY <1>1, <1>3, <1>4

\* A new manager whose first checkpoint has the id and the names.
LEMMA NewManagerOK ==
  ASSUME NEW id \in Nat, NEW names \in SUBSET Names, Persistence \in names
  PROVE  ManagerOK(NewManager(id, names))
<1> DEFINE q == NewManager(id, names)
           new == NewCheckpoint(id, 0)
           one == [new EXCEPT !.cursors = names]
           list == <<one>>
           there == [NoCursor EXCEPT !.chk = 1]
           cursor == [c \in Names |-> IF c \in names THEN there ELSE NoCursor]
<1>1. q = [list |-> list, cursor |-> cursor, numItems |-> 1, mutationCounter |-> 2,
           collapsed |-> FALSE, extension |-> FALSE, lastClosedId |-> 0, preChkId |-> 0]
  BY DEF NewManager
<1>2. ChkOK(new, 2) /\ one \in Checkpoint /\ one.mid = new.mid /\ one.cursors = names
  <2>1. ChkOK(new, 2)
    BY NewCheckpointOK
  <2> HIDE DEF new
  <2> QED
    BY <2>1 DEF ChkOK, Checkpoint
<1> HIDE DEF one
<1>3. list \in [1..1 -> Checkpoint] /\ list[1] = one
  BY <1>2
<1>4. there \in Cursor /\ there.chk = 1 /\ there.pos = Dummy
  BY FirstItemCursor
<1> HIDE DEF there
<1>5. /\ cursor \in [Names -> Cursor]
      /\ \A c \in Names : IF c \in names THEN cursor[c].chk = 1 /\ cursor[c].pos = Dummy
                                         ELSE cursor[c].chk = 0
  BY <1>4, NoCursorType
<1> HIDE DEF list, cursor, q
<1>6. /\ q \in Record(1) /\ q.list = list /\ q.cursor = cursor /\ q.mutationCounter = 2
  BY <1>1, <1>3, <1>5 DEF Record
<1>7. Registered(q) = names
  BY <1>5, <1>6 DEF Registered
<1>8. /\ ChkOK(one, 2) /\ one.mid[Dummy] # 0
  BY <1>2 DEF ChkOK
<1>9. \A c \in names : cursor[c].chk = 1 /\ cursor[c].pos = Dummy
  BY <1>5
<1>10. Assembled(q, 1)
  BY <1>2, <1>3, <1>6, <1>7, <1>8, <1>9 DEF Assembled
<1> QED
  BY <1>10, AssembledOK DEF q

\* The manager of a new vbucket.
LEMMA FreshManagerOK ==
  ASSUME NEW id \in Nat
  PROVE  ManagerOK(FreshManager(id))
<1>1. {Persistence} \in SUBSET Names
  BY MetaKeysDiffer DEF MetaFact
<1> QED
  BY <1>1, NewManagerOK DEF FreshManager

\* The manager that a vbucket's reset makes anew.
LEMMA ResetManagerOK ==
  ASSUME NEW m, NEW state
  PROVE  ManagerOK(ResetManager(m, state))
<1> DEFINE names == Registered(m) \cup {Persistence}
<1>1. StartId(state) \in Nat /\ names \in SUBSET Names /\ Persistence \in names
  BY MetaKeysDiffer DEF StartId, MetaFact, Registered
<1> HIDE DEF names
<1>2. ManagerOK(NewManager(StartId(state), names))
  BY <1>1, NewManagerOK
<1> QED
  BY <1>2 DEF ResetManager, names

\* clear, with all cursors moved to the one checkpoint that is left.
LEMMA ClearOK ==
  ASSUME NEW m, ManagerOK(m), NEW id \in Nat
  PROVE  ManagerOK(ResetCursors([m EXCEPT !.list = <<NewCheckpoint(id, 0)>>,
                                          !.mutationCounter = 2, !.numItems = 1]))
<1> DEFINE one == NewCheckpoint(id, 0)
           z == Rebuilt(m, <<one>>, m.cursor, 1, 2)
           y == [m EXCEPT !.list = <<one>>, !.mutationCounter = 2, !.numItems = 1]
<1>1. ChkOK(one, 2) /\ one.cursors \subseteq Registered(m)
  BY NewCheckpointOK
<1>2. ShapeOK(m) /\ m \in Record(Len(m.list))
  BY ShapeFacts DEF ManagerOK
<1> HIDE DEF one
<1>3. ShapeOK(z)
  BY <1>1, <1>2, SingleOK
<1>4. z = y
  BY <1>2 DEF Rebuilt, Record
<1> HIDE DEF z, y
<1>5. ManagerOK(ResetCursors(y))
  BY <1>3, <1>4, ResetCursorsOK
<1> QED
  BY <1>5 DEF y, one
-----------------------------------------------------------------------------
(***************************************************************************)
(* The specification.                                                      *)
(***************************************************************************)

Ops == {"write", "give", "subscribe", "unsubscribe", "empty", "none"}

\* The types of everything but the manager.
OthersOK ==
  /\ vbState \in VBStates
  /\ backfill \in BOOLEAN
  /\ event \in [op : Ops, who : Names, keys : SUBSET Keys]
  /\ failure \in {"none", "assertion", "stray cursor"}

IInv == ManagerOK(cm) /\ OthersOK

\* What a call returns is of the type of event.
LEMMA EventType ==
  ASSUME NEW op \in Ops, NEW who \in Names, NEW keys \in SUBSET Keys
  PROVE  Event(op, who, keys) \in [op : Ops, who : Names, keys : SUBSET Keys]
BY DEF Event

\* So is the event of a call that returns nothing.
LEMMA QuietType == Quiet \in [op : Ops, who : Names, keys : SUBSET Keys]
<1>1. "none" \in Ops /\ Persistence \in Names /\ {} \in SUBSET Keys
  BY MetaKeysDiffer DEF Ops, MetaFact
<1> QED
  BY <1>1, EventType DEF Quiet

\* Initially.
LEMMA InitOK ==
  ASSUME Init
  PROVE  IInv
<1>1. PICK id \in {StartId(vbState)} \cup 1..MaxCheckpointId : cm = FreshManager(id)
  BY DEF Init
<1>2. id \in Nat
  BY BoundsAssumption DEF StartId
<1>3. ManagerOK(cm)
  BY <1>1, <1>2, FreshManagerOK
<1> QED
  BY <1>3, QuietType DEF Init, IInv, OthersOK

\* An operation that leaves the vbucket's state and backfill alone.
LEMMA OperationOK ==
  ASSUME IInv, NEW m, ManagerOK(m), Becomes(m), Unchanged,
         event' \in [op : Ops, who : Names, keys : SUBSET Keys]
  PROVE  IInv'
BY DEF IInv, OthersOK, Becomes, Unchanged

\* The process fails, and nothing else happens.
LEMMA FailureOK ==
  ASSUME IInv, UNCHANGED <<cm, vbState, backfill, event>>,
         failure' \in {"assertion", "stray cursor"}
  PROVE  IInv'
BY DEF IInv, OthersOK

\* A client's mutation.
LEMMA QueueDirtyOK ==
  ASSUME IInv, NEW k \in Keys, QueueDirty(k)
  PROVE  IInv'
<1>1. PICK timeUp \in BOOLEAN :
        LET m == BeforeQueueing(timeUp)
            q == QueueItem(m, k)
        IN Becomes([q EXCEPT !.numItems =
                      IF LastChk(m).mid[k] = 0 THEN @ + 1 ELSE @])
  BY DEF QueueDirty
<1> DEFINE m == BeforeQueueing(timeUp)
           q == QueueItem(m, k)
           items == IF LastChk(m).mid[k] = 0 THEN q.numItems + 1 ELSE q.numItems
           z == [q EXCEPT !.numItems = items]
<1>2. ManagerOK(m)
  BY CheckOpenCheckpointOK DEF IInv, BeforeQueueing
<1>3. Becomes(z)
  BY <1>1
<1> HIDE DEF m
<1>4. k \in AllKeys \ {Dummy}
  BY MetaKeysDiffer DEF MetaFact
<1>5. ManagerOK(q)
  BY <1>2, <1>4, QueueItemOK
<1> HIDE DEF q
<1>6. q \in Record(Len(q.list)) /\ ShapeOK(q)
  BY <1>5, ShapeFacts DEF ManagerOK
<1>7. items \in Int
  BY <1>6 DEF Record
<1> HIDE DEF items
<1>8. z \in Record(Len(q.list)) /\ z.list = q.list /\ z.cursor = q.cursor
      /\ z.mutationCounter = q.mutationCounter
  BY <1>6, <1>7 DEF Record
<1> HIDE DEF z
<1>9. ManagerOK(z)
  BY <1>5, <1>6, <1>8, SameCursors DEF OnlyCounters
<1>10. Persistence \in Names /\ {k} \in SUBSET Keys /\ "write" \in Ops
  BY MetaKeysDiffer DEF MetaFact, Ops
<1>11. event' \in [op : Ops, who : Names, keys : SUBSET Keys]
  BY <1>10, EventType DEF QueueDirty
<1> QED
  BY <1>3, <1>9, <1>11, OperationOK DEF QueueDirty

\* The calls of a TAP connection.
LEMMA TapStepsOK ==
  ASSUME IInv, NEW t \in TapNames,
         \/ NextItem(t) \/ WaitAtCheckpointEnd(t) \/ RegisterTAPCursor(t)
         \/ RegisterTAPCursorStrays(t) \/ RemoveTAPCursor(t)
  PROVE  IInv'
<1>1. ManagerOK(cm) /\ t \in Names /\ t # Persistence
  BY MetaKeysDiffer, NamesAssumption DEF IInv, MetaFact
<1>2. {"give", "subscribe", "unsubscribe"} \subseteq Ops /\ {} \in SUBSET Keys
  BY DEF Ops
<1>3. CASE NextItem(t)
  <2>1. Returned(cm, AdvanceTapCursor(cm, t), t) \in SUBSET Keys
    BY DEF Returned
  <2>2. event' \in [op : Ops, who : Names, keys : SUBSET Keys]
    BY <1>1, <1>2, <1>3, <2>1, EventType DEF NextItem
  <2> QED
    BY <1>1, <1>3, <2>2, AdvanceTapCursorOK, OperationOK DEF NextItem
<1>4. CASE WaitAtCheckpointEnd(t)
  BY <1>1, <1>4, QuietType, DecrTapCursorOK, OperationOK DEF WaitAtCheckpointEnd
<1>5. CASE RegisterTAPCursor(t)
  <2>1. PICK id \in 1..(MaxCheckpointId + 1), fromBeginning \in BOOLEAN :
          /\ ~RegisterStrays(t, id, fromBeginning)
          /\ Becomes(RegisterCursor(cm, t, id, t \in BackupTaps, fromBeginning))
    BY <1>5 DEF RegisterTAPCursor
  <2> DEFINE closedOnly == t \in BackupTaps
  <2>2. closedOnly \in BOOLEAN /\ Becomes(RegisterCursor(cm, t, id, closedOnly, fromBeginning))
    BY <2>1
  <2> HIDE DEF closedOnly
  <2>3. KeepsPosition(cm, t, id, fromBeginning) => cm.cursor[t].chk = ChkWithId(cm, id)
    BY <2>1 DEF RegisterStrays
  <2>4. ManagerOK(RegisterCursor(cm, t, id, closedOnly, fromBeginning))
    BY <1>1, <2>2, <2>3, RegisterCursorOK
  <2>5. event' \in [op : Ops, who : Names, keys : SUBSET Keys]
    BY <1>1, <1>2, <1>5, EventType DEF RegisterTAPCursor
  <2> QED
    BY <1>5, <2>2, <2>4, <2>5, OperationOK DEF RegisterTAPCursor
<1>6. CASE RegisterTAPCursorStrays(t)
  BY <1>6, FailureOK DEF RegisterTAPCursorStrays
<1>7. CASE RemoveTAPCursor(t)
  <2>1. event' \in [op : Ops, who : Names, keys : SUBSET Keys]
    BY <1>1, <1>2, <1>7, EventType DEF RemoveTAPCursor
  <2> QED
    BY <1>1, <1>7, <2>1, RemoveCursorOK, OperationOK DEF RemoveTAPCursor
<1> QED
  BY <1>3, <1>4, <1>5, <1>6, <1>7

\* The steps of the flusher and of the checkpoint remover.
LEMMA BackgroundOK ==
  ASSUME IInv, GetAllItemsForPersistence \/ RemoveClosedUnrefCheckpoints
  PROVE  IInv'
<1>1. ManagerOK(cm)
  BY DEF IInv
<1>2. CASE GetAllItemsForPersistence
  <2>1. "give" \in Ops /\ Persistence \in Names /\ Todo(cm, Persistence) \in SUBSET Keys
    BY MetaKeysDiffer DEF Ops, MetaFact, Todo, Docs
  <2>2. event' \in [op : Ops, who : Names, keys : SUBSET Keys]
    BY <1>2, <2>1, EventType DEF GetAllItemsForPersistence
  <2> QED
    BY <1>1, <1>2, <2>2, TakeAllOK, OperationOK DEF GetAllItemsForPersistence
<1>3. CASE RemoveClosedUnrefCheckpoints
  <2>1. PICK forced \in BOOLEAN, memHigh \in BOOLEAN, timeUp \in BOOLEAN :
          Becomes(RemoveClosedUnref(cm, forced, memHigh, timeUp))
    BY <1>3 DEF RemoveClosedUnrefCheckpoints
  <2> QED
    BY <1>1, <1>3, <2>1, RemoveClosedUnrefOK, QuietType, OperationOK
       DEF RemoveClosedUnrefCheckpoints
<1> QED
  BY <1>2, <1>3

\* The steps that messages from a master and administrative commands cause.
LEMMA MasterStepsOK ==
  ASSUME IInv, NEW id \in Nat,
         CheckpointStart(id) \/ CheckpointStartStrays(id) \/ CheckpointEnd(id)
  PROVE  IInv'
<1>1. ManagerOK(cm)
  BY DEF IInv
<1>2. CASE CheckpointStart(id)
  <2>1. ManagerOK(CheckAndAddNewCheckpoint(cm, id))
    BY <1>1, CheckAndAddOK
  <2>2. Becomes(CheckAndAddNewCheckpoint(cm, id)) /\ event' = Quiet
        /\ vbState' = vbState /\ backfill' \in BOOLEAN
    BY <1>2 DEF CheckpointStart, IInv, OthersOK
  <2> QED
    BY <2>1, <2>2, QuietType DEF IInv, OthersOK, Becomes
<1>3. CASE CheckpointStartStrays(id)
  BY <1>3, FailureOK DEF CheckpointStartStrays
<1>4. CASE CheckpointEnd(id)
  BY <1>1, <1>4, CloseOpenOK, QuietType, OperationOK DEF CheckpointEnd
<1> QED
  BY <1>2, <1>3, <1>4

\* The calls of the tasks and commands that close or empty checkpoints.
LEMMA AdministrationOK ==
  ASSUME IInv,
         \/ CheckVBOpenCheckpoint \/ CreateNewCheckpoint \/ SetCheckpointExtension
         \/ Clear \/ QueueDirtyAborts
  PROVE  IInv'
<1>1. ManagerOK(cm)
  BY DEF IInv
<1>2. CASE CheckVBOpenCheckpoint
  <2>1. PICK timeUp \in BOOLEAN : Becomes(CheckOpenCheckpoint(cm, FALSE, timeUp))
    BY <1>2 DEF CheckVBOpenCheckpoint
  <2> QED
    BY <1>1, <1>2, <2>1, CheckOpenCheckpointOK, QuietType, OperationOK
       DEF CheckVBOpenCheckpoint
<1>3. CASE CreateNewCheckpoint
  <2>1. LastChk(cm).id + 1 \in Nat
    BY <1>1, LastFacts
  <2> QED
    BY <1>1, <1>3, <2>1, AddNewCheckpointOK, QuietType, OperationOK
       DEF CreateNewCheckpoint
<1>4. CASE SetCheckpointExtension
  <2>1. PICK extend \in BOOLEAN : Becomes([cm EXCEPT !.extension = extend])
    BY <1>4 DEF SetCheckpointExtension
  <2> DEFINE z == [cm EXCEPT !.extension = extend]
  <2>2. cm \in Record(Len(cm.list)) /\ ShapeOK(cm)
    BY <1>1, ShapeFacts DEF ManagerOK
  <2>3. Becomes(z) /\ OnlyCounters(cm, z)
    BY <2>1, <2>2 DEF OnlyCounters, Record
  <2> HIDE DEF z
  <2>4. ManagerOK(z)
    BY <1>1, <2>2, <2>3, SameCursors
  <2> QED
    BY <1>4, <2>3, <2>4, QuietType, OperationOK DEF SetCheckpointExtension
<1>5. CASE Clear
  <2> DEFINE id == IF vbState = "active" THEN 1 ELSE 0
             z == ResetCursors([cm EXCEPT !.list = <<NewCheckpoint(id, 0)>>,
                                          !.mutationCounter = 2, !.numItems = 1])
  <2>1. Becomes(z) /\ id \in Nat
    BY <1>5 DEF Clear
  <2> HIDE DEF id
  <2>2. ManagerOK(z)
    BY <1>1, <2>1, ClearOK
  <2>3. "empty" \in Ops /\ Persistence \in Names /\ {} \in SUBSET Keys
    BY MetaKeysDiffer DEF Ops, MetaFact
  <2>4. event' \in [op : Ops, who : Names, keys : SUBSET Keys]
    BY <1>5, <2>3, EventType DEF Clear
  <2> HIDE DEF z
  <2> QED
    BY <1>5, <2>1, <2>2, <2>4, OperationOK DEF Clear
<1>6. CASE QueueDirtyAborts
  BY <1>6, FailureOK DEF QueueDirtyAborts
<1> QED
  BY <1>2, <1>3, <1>4, <1>5, <1>6

\* Backfill, and changes of the vbucket's state.
LEMMA VBucketStepsOK ==
  ASSUME IInv,
         \/ InitialVBucketStream \/ CloseBackfill
         \/ \E to \in VBStates : SetVBucketState(to)
  PROVE  IInv'
<1>1. ManagerOK(cm) /\ ShapeOK(cm)
  BY DEF IInv, ManagerOK
<1>2. "empty" \in Ops /\ Persistence \in Names /\ {} \in SUBSET Keys
  BY MetaKeysDiffer DEF Ops, MetaFact
<1>3. Event("empty", Persistence, {}) \in [op : Ops, who : Names, keys : SUBSET Keys]
  BY <1>2, EventType
<1>4. CASE InitialVBucketStream
  <2>1. ManagerOK(ResetManager(cm, vbState))
    BY ResetManagerOK
  <2>2. /\ ManagerOK(SetOpenCheckpointId(ResetManager(cm, vbState), 0))
        /\ ManagerOK(SetOpenCheckpointId(cm, 0))
    BY <1>1, <2>1, SetOpenIdOK DEF ManagerOK
  <2>3. /\ cm' \in {SetOpenCheckpointId(ResetManager(cm, vbState), 0),
                    SetOpenCheckpointId(cm, 0)}
        /\ failure' = failure /\ backfill' = TRUE /\ vbState' = vbState
        /\ event' = Event("empty", Persistence, {}) \/ event' = Quiet
    BY <1>4 DEF InitialVBucketStream, Becomes
  <2> QED
    BY <1>3, <2>2, <2>3, QuietType DEF IInv, OthersOK
<1>5. CASE CloseBackfill
  BY <1>1, <1>5, QuietType DEF CloseBackfill, IInv, OthersOK, Becomes
<1>6. ASSUME NEW to \in VBStates, SetVBucketState(to)
      PROVE  IInv'
  <2>1. ManagerOK(SetOpenCheckpointId(cm, 2))
    BY <1>1, SetOpenIdOK
  <2>2. /\ cm' \in {SetOpenCheckpointId(cm, 2), cm}
        /\ failure' = failure /\ backfill' = backfill /\ vbState' = to /\ event' = Quiet
    BY <1>6 DEF SetVBucketState, Becomes
  <2> QED
    BY <1>1, <2>1, <2>2, QuietType DEF IInv, OthersOK
<1> QED
  BY <1>4, <1>5, <1>6

\* Every step keeps the invariant.
LEMMA NextOK ==
  ASSUME IInv, [Next]_vars
  PROVE  IInv'
<1>1. CASE UNCHANGED vars
  BY <1>1 DEF vars, IInv, OthersOK
<1>2. ASSUME NEW k \in Keys, QueueDirty(k)
      PROVE  IInv'
  BY <1>2, QueueDirtyOK
<1>3. ASSUME NEW t \in TapNames,
             \/ NextItem(t) \/ WaitAtCheckpointEnd(t) \/ RegisterTAPCursor(t)
             \/ RegisterTAPCursorStrays(t) \/ RemoveTAPCursor(t)
      PROVE  IInv'
  BY <1>3, TapStepsOK
<1>4. ASSUME NEW id \in Nat,
             CheckpointStart(id) \/ CheckpointStartStrays(id) \/ CheckpointEnd(id)
      PROVE  IInv'
  BY <1>4, MasterStepsOK
<1>5. 0..MaxCheckpointId \subseteq Nat /\ 1..MaxCheckpointId \subseteq Nat
  BY BoundsAssumption
<1> QED
  BY <1>1, <1>2, <1>3, <1>4, <1>5, BackgroundOK, AdministrationOK, VBucketStepsOK DEF Next

(***************************************************************************)
(* The inductive invariant of checkpoint.cc's manager always holds: good   *)
(* checkpoints in the list, and each cursor on an item of the checkpoint   *)
(* that holds its name.                                                    *)
(***************************************************************************)
THEOREM Invariance == Spec => []IInv
<1>1. Init => IInv
  BY InitOK
<1>2. IInv /\ [Next]_vars => IInv'
  BY NextOK
<1> QED
  BY <1>1, <1>2, PTL DEF Spec

\* Whatever operations of clients, TAP connections, the flusher, the remover and a
\* master interleave, the manager keeps its type.
THEOREM TypeCorrect == Spec => []TypeOK
<1>1. IInv => TypeOK
  BY DEF IInv, OthersOK, Ops, TypeOK, ManagerOK, ShapeOK
<1> QED
  BY <1>1, Invariance, PTL

\* No cursor dangles: each is in a checkpoint of the list, points to an item of
\* it, and is known there by its name, so that the remover does not free it.
THEOREM CursorsStayLive == Spec => []CursorsLive
<1>1. ASSUME IInv
      PROVE  CursorsLive
  <2>1. SUFFICES ASSUME NEW c \in Registered(cm) \cup {Persistence}
                 PROVE  /\ cm.cursor[c].chk \in DOMAIN cm.list
                        /\ cm.cursor[c].pos \in Present(ChkOf(cm, c))
                        /\ c \in ChkOf(cm, c).cursors
    BY DEF CursorsLive
  <2>2. ManagerOK(cm) /\ c \in Registered(cm)
    BY <1>1 DEF IInv, ManagerOK, ShapeOK
  <2>3. CursorOK(cm, c) /\ DOMAIN cm.list = 1..Len(cm.list)
        /\ cm.cursor[c].pos \in AllKeys
    BY <2>2, ShapeFacts DEF ManagerOK, Record, Cursor
  <2> QED
    BY <2>3 DEF CursorOK, Present, ChkOf
<1> QED
  BY <1>1, Invariance, PTL

\* A name that is registered in a checkpoint has a cursor.
THEOREM NamesStayRegistered == Spec => []NamesRegistered
<1>1. ASSUME IInv
      PROVE  NamesRegistered
  BY <1>1, ShapeFacts DEF IInv, ManagerOK, ShapeOK, NamesRegistered
<1> QED
  BY <1>1, Invariance, PTL
=============================================================================
