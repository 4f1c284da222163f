----------------------- MODULE CheckpointQueue_proofs -----------------------
(***************************************************************************)
(* The CheckpointManager implements the UnifiedQueue, whatever the         *)
(* constants are: every step of the manager is a step of the queue or      *)
(* leaves it as it is.  The documents that a cursor has yet to reach are   *)
(* told by the order of mutation ids, so the step lemmas start from        *)
(* OrderInvariance.                                                        *)
(***************************************************************************)
EXTENDS CheckpointQueue, CheckpointOrder_proofs

\* The document k is behind the item of p in the checkpoint c, or in a later one.
Ahead(c, p, k) == c.mid[k] # 0 /\ Rank(c, p) < c.mid[k]

Later(m, i, k) == \E j \in (i + 1)..Len(m.list) : m.list[j].mid[k] # 0

HeldAt(m, k) == \E j \in 1..Len(m.list) : m.list[j].mid[k] # 0

\* What a consumer has yet to be given, in terms of mutation ids.
LEMMA TodoFacts ==
  ASSUME NEW m, ManagerOK(m), NEW c \in Registered(m)
  PROVE  Todo(m, c) = {k \in Keys : \/ Ahead(ChkOf(m, c), m.cursor[c].pos, k)
                                    \/ Later(m, m.cursor[c].chk, k)}
<1> DEFINE here == m.cursor[c].chk
           own  == ChkOf(m, c)
           pos  == m.cursor[c].pos
<1>1. here # 0
  BY DEF Registered
<1>2. \A k \in Keys : k \in AllKeys /\ Rank(own, k) = own.mid[k]
  BY MetaKeysDiffer DEF Rank, MetaFact
<1>3. here \in 1..Len(m.list) /\ Len(m.list) \in Nat /\ own = m.list[here] /\ pos \in AllKeys
      /\ \A k \in AllKeys : own.mid[k] \in Nat
      /\ ChkOK(own, m.mutationCounter) /\ m.mutationCounter \in Nat
  BY Parts, MetaKeysDiffer DEF ManagerOK, ShapeOK, ChkOf, Registered
<1>4. Rank(own, pos) \in Nat
  BY <1>3, RankType
<1>5. Todo(m, c) = (After(own, pos) \cap Keys)
                     \cup (UNION {Docs(m.list[i]) : i \in (here + 1)..Len(m.list)})
  BY <1>1 DEF Todo
<1> HIDE DEF own, pos, here
<1>6. \A k \in Keys : k \in After(own, pos) <=> Ahead(own, pos, k)
  BY <1>2, <1>3, <1>4 DEF After, Present, Ahead
<1>7. \A k : k \in UNION {Docs(m.list[i]) : i \in (here + 1)..Len(m.list)}
               <=> k \in Keys /\ Later(m, here, k)
  BY DEF Docs, Later
<1> QED
  BY <1>5, <1>6, <1>7 DEF own, pos, here

\* Who is not subscribed has nothing to be given.
LEMMA TodoOfOthers ==
  ASSUME NEW m, NEW c \in Names \ Registered(m)
  PROVE  Todo(m, c) = {}
BY DEF Todo, Registered

\* The documents in the list, checkpoint by checkpoint.
LEMMA HeldFacts ==
  ASSUME NEW m, ManagerOK(m)
  PROVE  Held(m) = {k \in Keys : HeldAt(m, k)}
<1>1. DOMAIN m.list = 1..Len(m.list)
  BY Parts
<1> QED
  BY <1>1 DEF Held, Docs, HeldAt

\* What is to be given is in the list.
LEMMA TodoIsHeld ==
  ASSUME NEW m, ManagerOK(m), NEW c \in Names
  PROVE  Todo(m, c) \subseteq Held(m)
<1>1. CASE c \in Registered(m)
  <2>1. m.cursor[c].chk \in 1..Len(m.list) /\ Len(m.list) \in Nat
        /\ ChkOf(m, c) = m.list[m.cursor[c].chk]
    BY <1>1, Parts DEF ChkOf
  <2> DEFINE here == m.cursor[c].chk
  <2> HIDE DEF here
  <2>2. \A k \in Keys : Ahead(m.list[here], m.cursor[c].pos, k) \/ Later(m, here, k)
          => HeldAt(m, k)
    BY <2>1 DEF Ahead, Later, HeldAt, here
  <2> QED
    BY <1>1, <2>1, <2>2, TodoFacts, HeldFacts DEF here
<1>2. CASE c \notin Registered(m)
  BY <1>2, TodoOfOthers
<1> QED
  BY <1>1, <1>2

\* What a checkpoint's documents are, in ranks.
LEMMA DocRanks ==
  ASSUME NEW m, ManagerOK(m), OrderOK(m), NEW i \in 1..Len(m.list), NEW k \in Keys
  PROVE  /\ k \in AllKeys /\ m.list[i].mid[k] \in Nat /\ Rank(m.list[i], k) = m.list[i].mid[k]
         /\ (Ahead(m.list[i], Dummy, k)) <=> (m.list[i].mid[k] # 0)
         /\ (Ahead(m.list[i], Start, k)) <=> (m.list[i].mid[k] # 0)
<1>1. k \in AllKeys \ {Dummy, Start}
  BY MetaKeysDiffer DEF MetaFact
<1>2. /\ Rank(m.list[i], Dummy) = 0 /\ Rank(m.list[i], Start) = 1
      /\ m.list[i].mid[k] \in Nat /\ Rank(m.list[i], k) = m.list[i].mid[k]
      /\ m.list[i].mid[k] # 0 => m.list[i].mid[k] > 2
  BY <1>1, RankFacts
<1> QED
  BY <1>1, <1>2 DEF Ahead
-----------------------------------------------------------------------------
(***************************************************************************)
(* Steps that reorganise the queue: a cursor may see documents again, and  *)
(* what no cursor needs may go.                                            *)
(***************************************************************************)

Reorganised(m, q) ==
  /\ Registered(q) = Registered(m)
  /\ Held(q) \subseteq Held(m)
  /\ \A c \in Registered(m) : Todo(m, c) \subseteq Todo(q, c)

\* Nothing comes or goes for anybody.
Same(m, q) ==
  /\ Registered(q) = Registered(m)
  /\ Held(q) = Held(m)
  /\ \A c \in Registered(m) : Todo(q, c) = Todo(m, c)

\* Reorganising twice is reorganising,
LEMMA ReorganisedTransitive ==
  ASSUME NEW m, NEW x, NEW q, Reorganised(m, x), Reorganised(x, q)
  PROVE  Reorganised(m, q)
BY DEF Reorganised

\* and so is doing nothing,
LEMMA SameIsReorganised ==
  ASSUME NEW m, NEW q, Same(m, q)
  PROVE  Reorganised(m, q)
BY DEF Same, Reorganised

\* which may be done twice.
LEMMA SameTransitive ==
  ASSUME NEW m, NEW x, NEW q, Same(m, x), Same(x, q)
  PROVE  Same(m, q)
BY DEF Same

\* The documents stay where they are.
LEMMA MidsKeepHeld ==
  ASSUME NEW m, ManagerOK(m), NEW q, ManagerOK(q), SameMids(m, q)
  PROVE  /\ Held(q) = Held(m)
         /\ \A i \in 1..Len(m.list) : \A p, k : (Ahead(q.list[i], p, k)) <=> (Ahead(m.list[i], p, k))
         /\ \A i \in Nat : \A k : (Later(q, i, k)) <=> (Later(m, i, k))
<1>1. \A k : (HeldAt(q, k)) <=> (HeldAt(m, k))
  BY DEF SameMids, HeldAt
<1>2. \A i \in 1..Len(m.list) : \A p, k : (Ahead(q.list[i], p, k)) <=> (Ahead(m.list[i], p, k))
  BY DEF SameMids, Ahead, Rank
<1>3. \A i \in Nat : \A j \in (i + 1)..Len(m.list) : j \in 1..Len(m.list)
  <2>1. Len(m.list) \in Nat
    BY Parts
  <2> QED
    BY <2>1
<1>4. \A i \in Nat : \A k : (Later(q, i, k)) <=> (Later(m, i, k))
  BY <1>3 DEF SameMids, Later
<1> QED
  BY <1>1, <1>2, <1>4, HeldFacts

\* A cursor that stays where it is, in a list that keeps its documents.
LEMMA StayingTodo ==
  ASSUME NEW m, ManagerOK(m), NEW q, ManagerOK(q), SameMids(m, q),
         NEW c \in Names, q.cursor[c].chk = m.cursor[c].chk, q.cursor[c].pos = m.cursor[c].pos
  PROVE  /\ (c \in Registered(q)) <=> (c \in Registered(m))
         /\ Todo(q, c) = Todo(m, c)
<1>1. (c \in Registered(q)) <=> (c \in Registered(m))
  BY DEF Registered
<1>2. CASE c \in Registered(m)
  <2>1. m.cursor[c].chk \in 1..Len(m.list) /\ m.cursor[c].chk \in Nat
    BY <1>2, Parts
  <2> DEFINE here == m.cursor[c].chk
             pos  == m.cursor[c].pos
  <2>2. /\ Todo(m, c) = {k \in Keys : Ahead(m.list[here], pos, k) \/ Later(m, here, k)}
        /\ Todo(q, c) = {k \in Keys : Ahead(q.list[here], pos, k) \/ Later(q, here, k)}
    BY <1>1, <1>2, TodoFacts DEF ChkOf
  <2> HIDE DEF here, pos
  <2>3. \A k : /\ (Ahead(q.list[here], pos, k)) <=> (Ahead(m.list[here], pos, k))
               /\ (Later(q, here, k)) <=> (Later(m, here, k))
    BY <2>1, MidsKeepHeld, ZenonT(40) DEF here
  <2> QED
    BY <1>1, <2>2, <2>3
<1>3. CASE c \notin Registered(m)
  BY <1>1, <1>3, TodoOfOthers
<1> QED
  BY <1>1, <1>2, <1>3

\* nextItem's second half, a cursor that moves on from the end of its checkpoint.
LEMMA MovedOnTodo ==
  ASSUME NEW m, ManagerOK(m), OrderOK(m), NEW q, ManagerOK(q), SameMids(m, q),
         NEW c \in Registered(m), c \in Registered(q),
         m.cursor[c].chk \in 1..(Len(m.list) - 1), q.cursor[c].chk = m.cursor[c].chk + 1,
         q.cursor[c].pos = Dummy,
         \A k \in Keys : ~Ahead(ChkOf(m, c), m.cursor[c].pos, k)
  PROVE  Todo(q, c) = Todo(m, c)
<1> DEFINE here == m.cursor[c].chk
           n == Len(m.list)
<1>1. n \in Nat /\ here \in Nat /\ here < n /\ here + 1 \in 1..n
  BY Parts
<1>2. /\ Todo(m, c) = {k \in Keys : Later(m, here, k)}
      /\ Todo(q, c) = {k \in Keys : Ahead(q.list[here + 1], Dummy, k) \/ Later(q, here + 1, k)}
  BY TodoFacts DEF ChkOf
<1> HIDE DEF here, n
<1>3. \A k : /\ (Ahead(q.list[here + 1], Dummy, k)) <=> (Ahead(m.list[here + 1], Dummy, k))
             /\ (Later(q, here + 1, k)) <=> (Later(m, here + 1, k))
  <2> DEFINE next == here + 1
  <2>1. next \in 1..Len(m.list) /\ next \in Nat
    BY <1>1 DEF n
  <2> HIDE DEF next
  <2> QED
    BY <2>1, MidsKeepHeld, SMTT(30) DEF next
<1>4. \A k \in Keys : (Ahead(m.list[here + 1], Dummy, k)) <=> (m.list[here + 1].mid[k] # 0)
  BY <1>1, DocRanks DEF n
<1>5. \A j : j \in (here + 1)..n <=> j = here + 1 \/ j \in ((here + 1) + 1)..n
  BY <1>1
<1>6. \A k : (Later(m, here, k)) <=> (m.list[here + 1].mid[k] # 0 \/ Later(m, here + 1, k))
  BY <1>5 DEF Later, n
<1> QED
  BY <1>2, <1>3, <1>4, <1>6

\* Nothing is ahead of a cursor at the end of its checkpoint.
LEMMA EndIsBehind ==
  ASSUME NEW m, ManagerOK(m), OrderOK(m), NEW i \in 1..Len(m.list), NEW p \in AllKeys,
         After(m.list[i], p) = {}
  PROVE  \A k \in Keys : ~Ahead(m.list[i], p, k)
<1>1. /\ \A k \in AllKeys : Rank(m.list[i], k) \in Nat
      /\ \A k \in Keys : k \in AllKeys /\ Rank(m.list[i], k) = m.list[i].mid[k]
  BY RankFacts, DocRanks
<1> QED
  BY <1>1 DEF After, Present, Ahead

\* A cursor that goes on from the end of its checkpoint misses nothing.
LEMMA MovedOnSame ==
  ASSUME NEW m, ManagerOK(m), OrderOK(m), NEW q, ManagerOK(q),
         NEW c \in Registered(m), AtEnd(m, c), MovedOn(m, c, q)
  PROVE  Same(m, q)
<1>1. /\ SameMids(m, q) /\ m.cursor[c].chk \in 1..(Len(m.list) - 1)
      /\ q.cursor[c].chk = m.cursor[c].chk + 1 /\ q.cursor[c].pos = Dummy
      /\ \A d \in Names \ {c} : q.cursor[d] = m.cursor[d]
  BY DEF MovedOn
<1>2. /\ m.cursor[c].chk \in 1..Len(m.list) /\ m.cursor[c].chk \in Nat
      /\ m.cursor[c].pos \in AllKeys /\ c \in Names
  BY Parts
<1>3. \A k \in Keys : ~Ahead(ChkOf(m, c), m.cursor[c].pos, k)
  BY <1>2, EndIsBehind DEF AtEnd, ChkOf
<1>4. c \in Registered(q)
  BY <1>1, <1>2 DEF Registered
<1>5. Todo(q, c) = Todo(m, c)
  BY <1>1, <1>3, <1>4, MovedOnTodo
<1>6. \A d \in Names \ {c} : /\ (d \in Registered(q)) <=> (d \in Registered(m))
                             /\ Todo(q, d) = Todo(m, d)
  BY <1>1, StayingTodo
<1>7. Registered(q) = Registered(m)
  BY <1>4, <1>6 DEF Registered
<1> QED
  BY <1>1, <1>5, <1>6, <1>7, MidsKeepHeld DEF Same, Registered

\* Nor do several cursors that go on together.
LEMMA HaveMovedOnSame ==
  ASSUME NEW m, ManagerOK(m), OrderOK(m), NEW oldId, NEW q, ManagerOK(q),
         HaveMovedOn(m, Finished(m, oldId), q)
  PROVE  Same(m, q)
<1> DEFINE done == Finished(m, oldId)
<1>1. SameMids(m, q) /\ done \subseteq Registered(m) /\ done \subseteq Names
  BY DEF HaveMovedOn, Finished, Registered
<1>2. ASSUME NEW c \in done
      PROVE  c \in Registered(q) /\ Todo(q, c) = Todo(m, c)
  <2>1. /\ m.cursor[c].chk \in 1..(Len(m.list) - 1)
        /\ q.cursor[c].chk = m.cursor[c].chk + 1 /\ q.cursor[c].pos = Dummy
    BY <1>2 DEF HaveMovedOn
  <2>2. /\ m.cursor[c].chk \in 1..Len(m.list) /\ m.cursor[c].chk \in Nat
        /\ m.cursor[c].pos \in AllKeys /\ c \in Names /\ c \in Registered(m)
    BY <1>1, <1>2, Parts
  <2>3. \A k \in Keys : ~Ahead(ChkOf(m, c), m.cursor[c].pos, k)
    BY <1>2, <2>2, EndIsBehind DEF AtEnd, ChkOf, Finished
  <2>4. c \in Registered(q)
    BY <2>1, <2>2 DEF Registered
  <2> QED
    BY <1>1, <2>1, <2>2, <2>3, <2>4, MovedOnTodo
<1>3. ASSUME NEW c \in Names \ done
      PROVE  ((c \in Registered(q)) <=> (c \in Registered(m))) /\ Todo(q, c) = Todo(m, c)
  <2>1. q.cursor[c] = m.cursor[c]
    BY <1>3 DEF HaveMovedOn
  <2> QED
    BY <1>1, <2>1, StayingTodo
<1> HIDE DEF done
<1>4. Registered(q) = Registered(m)
  BY <1>1, <1>2, <1>3 DEF Registered
<1> QED
  BY <1>1, <1>2, <1>3, <1>4, MidsKeepHeld DEF Same, Registered

\* The persistence cursor does not stay at an end item, where nothing is ahead.
LEMMA SkipsTodo ==
  ASSUME NEW m, ManagerOK(m), OrderOK(m), NEW p \in AllKeys, Skips(m, p)
  PROVE  \A k \in Keys : (Ahead(ChkOf(m, Persistence), p, k))
                            <=> (Ahead(ChkOf(m, Persistence), m.cursor[Persistence].pos, k))
<1> DEFINE i == m.cursor[Persistence].chk
           own == m.list[i]
           pos == m.cursor[Persistence].pos
<1>1. i \in 1..Len(m.list) /\ pos \in AllKeys /\ ChkOf(m, Persistence) = own /\ own.mid[pos] # 0
  BY Parts DEF ChkOf
<1>2. CASE p = pos
  BY <1>2
<1>3. CASE ~AtEnd(m, Persistence) /\ NextKey(own, pos) = End /\ p = End
  <2>1. After(own, pos) # {}
    BY <1>1, <1>3 DEF AtEnd
  <2>2. /\ ChkOK(own, m.mutationCounter) /\ m.mutationCounter \in Nat
        /\ \A k \in AllKeys : Rank(own, k) \in Nat
        /\ \A k, l \in Present(own) : k # l => Rank(own, k) # Rank(own, l)
        /\ \A k \in Keys : Rank(own, k) = own.mid[k]
    <3> HIDE DEF i
    <3>1. \A k \in Keys : Rank(own, k) = own.mid[k]
      BY <1>1, DocRanks
    <3>2. ChkOK(own, m.mutationCounter) /\ m.mutationCounter \in Nat
      BY <1>1, RankFacts
    <3>3. \A k \in AllKeys : Rank(own, k) \in Nat
      BY <1>1, RankFacts
    <3>4. \A k, l \in Present(own) : k # l => Rank(own, k) # Rank(own, l)
      BY <1>1, RankFacts
    <3> QED
      BY <3>1, <3>2, <3>3, <3>4
  <2>3. End \notin Keys /\ Keys \subseteq AllKeys
    BY MetaKeysDiffer DEF MetaFact
  <2> HIDE DEF own, pos, i
  <2>4. PICK l : l \in After(own, pos)
    BY <2>1
  <2>5. End \in After(own, pos) /\ \A k \in After(own, pos) : Rank(own, End) <= Rank(own, k)
    BY <1>1, <1>3, <2>2, <2>4, NextKeyPresent
  <2>6. End \in Present(own) /\ Rank(own, pos) < Rank(own, End) /\ End \in AllKeys
    BY <1>1, <2>2, <2>5 DEF After, Present
  <2>7. ASSUME NEW k \in Keys
        PROVE  (Ahead(own, End, k)) <=> (Ahead(own, pos, k))
    <3>1. k \in AllKeys /\ k # End /\ Rank(own, k) = own.mid[k]
      BY <2>2, <2>3
    <3>2. Ahead(own, End, k) => Ahead(own, pos, k)
      BY <1>1, <2>2, <2>6, <3>1 DEF Ahead
    <3>3. ASSUME Ahead(own, pos, k) PROVE Ahead(own, End, k)
      <4>1. k \in Present(own) /\ k \in After(own, pos)
        BY <1>1, <2>2, <3>1, <3>3 DEF Ahead, After, Present
      <4>2. Rank(own, End) <= Rank(own, k) /\ Rank(own, End) # Rank(own, k)
        BY <2>2, <2>5, <2>6, <3>1, <4>1
      <4> QED
        BY <2>2, <2>6, <3>1, <3>3, <4>2 DEF Ahead
    <3> QED
      BY <3>2, <3>3
  <2> QED
    BY <1>1, <1>3, <2>7 DEF pos
<1> QED
  BY <1>1, <1>2, <1>3 DEF Skips

\* Nor does the persistence cursor when it goes on past several checkpoints.
LEMMA AdvancedSame ==
  ASSUME NEW m, ManagerOK(m), OrderOK(m), NEW q, ManagerOK(q), IsAdvanced(m, q)
  PROVE  Same(m, q)
<1> DEFINE here == m.cursor[Persistence].chk
<1>1. /\ SameMids(m, q) /\ \A d \in Names \ {Persistence} : q.cursor[d] = m.cursor[d]
  BY DEF IsAdvanced
<1>2. /\ here \in 1..Len(m.list) /\ Persistence \in Registered(m) /\ Persistence \in Registered(q)
      /\ m.cursor[Persistence].pos \in AllKeys /\ q.cursor[Persistence].pos \in AllKeys
      /\ ChkOf(m, Persistence) = m.list[here]
  BY Parts DEF ChkOf, Registered
<1>3. Todo(q, Persistence) = Todo(m, Persistence)
  <2>1. CASE q.list = m.list /\ q.cursor[Persistence].chk = here
             /\ Skips(m, q.cursor[Persistence].pos)
    <3>1. \A k \in Keys : (Ahead(m.list[here], q.cursor[Persistence].pos, k))
                             <=> (Ahead(m.list[here], m.cursor[Persistence].pos, k))
      BY <1>2, <2>1, SkipsTodo
    <3>2. /\ Todo(m, Persistence) = {k \in Keys :
               Ahead(m.list[here], m.cursor[Persistence].pos, k) \/ Later(m, here, k)}
          /\ Todo(q, Persistence) = {k \in Keys :
               Ahead(m.list[here], q.cursor[Persistence].pos, k) \/ Later(m, here, k)}
      BY <1>2, <2>1, TodoFacts, SMTT(30) DEF ChkOf, Later
    <3> QED
      BY <3>1, <3>2
  <2>2. ASSUME here \in 1..(Len(m.list) - 1), q.cursor[Persistence].chk = here + 1,
               q.cursor[Persistence].pos = Dummy,
               NEW p \in AllKeys, Skips(m, p), After(m.list[here], p) = {}
        PROVE  Todo(q, Persistence) = Todo(m, Persistence)
    <3>1. \A k \in Keys : ~Ahead(m.list[here], p, k)
      BY <1>2, <2>2, EndIsBehind
    <3>2. \A k \in Keys : ~Ahead(m.list[here], m.cursor[Persistence].pos, k)
      BY <1>2, <2>2, <3>1, SkipsTodo
    <3> QED
      BY <1>1, <1>2, <2>2, <3>2, MovedOnTodo
  <2> QED
    BY <1>2, <2>1, <2>2 DEF IsAdvanced
<1>4. \A d \in Names \ {Persistence} : /\ (d \in Registered(q)) <=> (d \in Registered(m))
                                       /\ Todo(q, d) = Todo(m, d)
  BY <1>1, StayingTodo
<1>5. Registered(q) = Registered(m)
  BY <1>2, <1>4 DEF Registered
<1> QED
  BY <1>1, <1>3, <1>4, <1>5, MidsKeepHeld DEF Same, Registered
-----------------------------------------------------------------------------
(***************************************************************************)
(* An item is queued.                                                      *)
(***************************************************************************)

\* Ranks in the last checkpoint do not go beyond the mutation counter.
LEMMA RankBound ==
  ASSUME NEW m, ManagerOK(m), OrderOK(m), NEW i \in 1..Len(m.list), NEW p \in AllKeys
  PROVE  Rank(m.list[i], p) \in Nat /\ Rank(m.list[i], p) <= m.mutationCounter
<1>1. /\ ChkOK(m.list[i], m.mutationCounter) /\ m.mutationCounter \in Nat
      /\ Rank(m.list[i], p) \in Nat
  BY RankFacts
<1>2. m.mutationCounter >= 2 /\ m.list[i].mid[p] <= m.mutationCounter
  BY <1>1 DEF OrderOK, ChkOK
<1> QED
  BY <1>1, <1>2 DEF Rank

\* How the documents ahead of a position change when k is queued.
LEMMA QueuedAhead ==
  ASSUME NEW m, ManagerOK(m), OrderOK(m), NEW k \in AllKeys \ {Dummy, Start},
         NEW q, ManagerOK(q), ItemQueued(m, k, q), NEW p \in AllKeys
  PROVE  LET c == m.list[Len(m.list)]
             d == q.list[Len(m.list)]
         IN /\ k \in Keys /\ p # k => Ahead(d, p, k)
            /\ p # k => \A l \in Keys \ {k} : (Ahead(d, p, l)) <=> (Ahead(c, p, l))
<1> DEFINE n == Len(m.list)
           c == m.list[n]
           d == q.list[n]
<1>1. n \in 1..Len(m.list)
  BY Parts
<1>2. /\ \A j \in AllKeys : d.mid[j] = IF j = k THEN q.mutationCounter ELSE c.mid[j]
      /\ q.mutationCounter = m.mutationCounter + 1
  BY DEF ItemQueued
<1>3. Rank(c, p) \in Nat /\ Rank(c, p) <= m.mutationCounter /\ m.mutationCounter \in Nat
  BY <1>1, RankBound, Parts
<1>4. Keys \subseteq AllKeys
  BY MetaKeysDiffer DEF MetaFact
<1> HIDE DEF n, c, d
<1>5. p # k => Rank(d, p) = Rank(c, p)
  BY <1>2 DEF Rank
<1>6. k \in Keys /\ p # k => Ahead(d, p, k)
  BY <1>2, <1>3, <1>5 DEF Ahead
<1>7. p # k => \A l \in Keys \ {k} : (Ahead(d, p, l)) <=> (Ahead(c, p, l))
  BY <1>2, <1>4, <1>5 DEF Ahead
<1> QED
  BY <1>6, <1>7 DEF n, c, d

\* A cursor that pointed to the item is shifted left and has the same ahead of it,
\* and the item.
LEMMA ShiftedAhead ==
  ASSUME NEW m, ManagerOK(m), OrderOK(m), NEW i \in 1..Len(m.list),
         NEW k \in AllKeys \ {Dummy, Start}, m.list[i].mid[k] # 0
  PROVE  LET c == m.list[i]
         IN /\ PrevKey(c, k) \in AllKeys /\ PrevKey(c, k) # k
            /\ \A l \in Keys \ {k} : (Ahead(c, PrevKey(c, k), l)) <=> (Ahead(c, k, l))
<1> DEFINE c == m.list[i]
           p == PrevKey(c, k)
<1>1. /\ ChkOK(c, m.mutationCounter) /\ m.mutationCounter \in Nat
      /\ \A j \in AllKeys : Rank(c, j) \in Nat
      /\ Rank(c, Dummy) = 0 /\ Dummy \in Present(c)
      /\ Rank(c, k) > 2
  BY RankFacts
<1>2. \A j, l \in Present(c) : j # l => Rank(c, j) # Rank(c, l)
  BY RankFacts, ZenonT(40)
<1>3. \A l \in Keys : l \in AllKeys /\ Rank(c, l) = c.mid[l]
  BY DocRanks
<1>4. c.mid[k] # 0
  OBVIOUS
<1> HIDE DEF c
<1>5. Dummy \in Before(c, k) /\ k \in Present(c)
  BY <1>1, <1>4 DEF Before, Present
<1>6. p \in Before(c, k) /\ \A j \in Before(c, k) : Rank(c, j) <= Rank(c, p)
  BY <1>1, <1>4, <1>5, PrevKeyPresent
<1> HIDE DEF p
<1>7. p \in AllKeys /\ p \in Present(c) /\ Rank(c, p) < Rank(c, k) /\ p # k
  BY <1>1, <1>6 DEF Before, Present
<1>8. ASSUME NEW l \in Keys \ {k}
      PROVE  (Ahead(c, p, l)) <=> (Ahead(c, k, l))
  <2>1. l \in AllKeys /\ Rank(c, l) = c.mid[l]
    BY <1>3
  <2>2. Ahead(c, k, l) => Ahead(c, p, l)
    BY <1>1, <1>7, <2>1 DEF Ahead
  <2>3. ASSUME Ahead(c, p, l)
        PROVE  Ahead(c, k, l)
    <3>1. l \in Present(c) /\ Rank(c, p) < Rank(c, l)
      BY <2>1, <2>3 DEF Ahead, Present
    <3>2. l \notin Before(c, k)
      BY <1>1, <1>6, <1>7, <2>1, <3>1
    <3>3. Rank(c, k) <= Rank(c, l) /\ Rank(c, k) # Rank(c, l)
      BY <1>1, <1>2, <1>5, <2>1, <3>1, <3>2 DEF Before
    <3> QED
      BY <1>1, <2>1, <2>3, <3>3 DEF Ahead
  <2> QED
    BY <2>2, <2>3
<1> QED
  BY <1>7, <1>8 DEF c, p

\* Todo and Held after an item was queued.
LEMMA QueuedTodo ==
  ASSUME NEW m, ManagerOK(m), OrderOK(m), NEW k \in AllKeys \ {Dummy, Start},
         NEW q, ManagerOK(q), ItemQueued(m, k, q)
  PROVE  /\ Registered(q) = Registered(m)
         /\ Held(q) = Held(m) \cup ({k} \cap Keys)
         /\ \A c \in Registered(m) : Todo(q, c) = Todo(m, c) \cup ({k} \cap Keys)
<1> DEFINE n == Len(m.list)
<1>1. /\ n \in Nat \ {0} /\ Len(q.list) = n /\ n \in 1..Len(m.list)
      /\ q.mutationCounter = m.mutationCounter + 1 /\ m.mutationCounter \in Nat
      /\ \A i \in 1..n : i # n => q.list[i] = m.list[i]
      /\ \A j \in AllKeys : q.list[n].mid[j] = IF j = k THEN q.mutationCounter
                                               ELSE m.list[n].mid[j]
  BY Parts DEF ItemQueued
<1>2. Registered(q) = Registered(m)
  BY DEF ItemQueued, Registered
<1>3. Keys \subseteq AllKeys
  BY MetaKeysDiffer DEF MetaFact
<1>4. q.mutationCounter # 0
  BY <1>1
<1> HIDE DEF n
<1>5. \A l \in Keys : (HeldAt(q, l)) <=> (HeldAt(m, l) \/ l = k)
  <2>1. \A l \in Keys : \A i \in 1..n : (q.list[i].mid[l] # 0) <=>
                                          (m.list[i].mid[l] # 0 \/ (i = n /\ l = k))
    BY <1>1, <1>3, <1>4
  <2> QED
    BY <1>1, <2>1 DEF HeldAt, n
<1>6. Held(q) = Held(m) \cup ({k} \cap Keys)
  BY <1>5, HeldFacts
<1>7. ASSUME NEW c \in Registered(m)
      PROVE  Todo(q, c) = Todo(m, c) \cup ({k} \cap Keys)
  <2> DEFINE here == m.cursor[c].chk
             pos == m.cursor[c].pos
             newPos == q.cursor[c].pos
  <2>1. /\ here \in 1..n /\ pos \in AllKeys /\ q.cursor[c].chk = here /\ newPos \in AllKeys
        /\ c \in Registered(q) /\ m.list[here].mid[pos] # 0 /\ c \in Names
    BY <1>2, Parts DEF ItemQueued, n
  <2>2. newPos = IF here = n /\ pos = k THEN PrevKey(m.list[n], k) ELSE pos
    BY <2>1 DEF ItemQueued, n
  <2>3. /\ Todo(m, c) = {l \in Keys : Ahead(m.list[here], pos, l) \/ Later(m, here, l)}
        /\ Todo(q, c) = {l \in Keys : Ahead(q.list[here], newPos, l) \/ Later(q, here, l)}
    BY <1>2, <2>1, TodoFacts DEF ChkOf
  <2> HIDE DEF here, pos, newPos
  <2>4. \A l \in Keys : \A j \in (here + 1)..n : (q.list[j].mid[l] # 0) <=>
                                     (m.list[j].mid[l] # 0 \/ (j = n /\ l = k))
    BY <1>1, <1>3, <1>4, <2>1
  <2>5. \A l \in Keys : (Later(q, here, l)) <=> (Later(m, here, l) \/ (here < n /\ l = k))
    <3>1. here < n => n \in (here + 1)..n
      BY <1>1, <2>1
    <3>2. n \in (here + 1)..n => here < n
      BY <1>1, <2>1
    <3> QED
      BY <1>1, <2>4, <3>1, <3>2 DEF Later, n
  <2>6. CASE here # n
    <3>1. q.list[here] = m.list[here] /\ newPos = pos /\ here < n
      BY <1>1, <2>1, <2>2, <2>6
    <3> QED
      BY <2>3, <2>5, <3>1
  <2>7. CASE here = n
    <3> DEFINE a == m.list[n]
               b == q.list[n]
    <3>1. newPos # k /\ \A l \in Keys \ {k} : (Ahead(a, newPos, l)) <=> (Ahead(a, pos, l))
      BY <1>1, <2>1, <2>2, <2>7, ShiftedAhead
    <3>2. /\ k \in Keys => Ahead(b, newPos, k)
          /\ \A l \in Keys \ {k} : (Ahead(b, newPos, l)) <=> (Ahead(a, newPos, l))
      BY <2>1, <3>1, QueuedAhead DEF n
    <3>3. \A l \in Keys : (Later(q, here, l)) <=> (Later(m, here, l))
      BY <1>1, <2>5, <2>7
    <3> HIDE DEF a, b
    <3>4. \A l \in Keys : (Ahead(b, newPos, l)) <=> (Ahead(a, pos, l) \/ l = k)
      BY <3>1, <3>2
    <3> QED
      BY <2>3, <2>7, <3>3, <3>4 DEF a, b
  <2> QED
    BY <2>6, <2>7
<1> QED
  BY <1>2, <1>6, <1>7
-----------------------------------------------------------------------------
(***************************************************************************)
(* Checkpoints are opened, dropped, merged and renumbered.                 *)
(***************************************************************************)

\* The end item is no document.
LEMMA ClosedSame ==
  ASSUME NEW m, ManagerOK(m), OrderOK(m), NEW q, ManagerOK(q), IsClosed(m, q)
  PROVE  Same(m, q)
<1>1. End \in AllKeys \ {Dummy, Start} /\ {End} \cap Keys = {}
  BY MetaKeysDiffer DEF MetaFact
<1>2. ItemQueued(m, End, q)
  BY DEF IsClosed
<1> QED
  BY <1>1, <1>2, QueuedTodo DEF Same

\* Nor does a new checkpoint hold any.
LEMMA AppendedSame ==
  ASSUME NEW m, ManagerOK(m), NEW id, NEW q, ManagerOK(q), IsAppended(m, id, q)
  PROVE  Same(m, q)
<1> DEFINE n == Len(m.list)
<1>1. /\ n \in Nat \ {0} /\ Len(q.list) = n + 1 /\ q.cursor = m.cursor
      /\ \A i \in 1..n : q.list[i] = m.list[i]
      /\ \A k \in AllKeys : k \notin {Dummy, Start} => q.list[n + 1].mid[k] = 0
  BY Parts DEF IsAppended
<1>2. \A k \in Keys : q.list[n + 1].mid[k] = 0
  BY <1>1, MetaKeysDiffer DEF MetaFact
<1>3. Registered(q) = Registered(m)
  BY <1>1 DEF Registered
<1> HIDE DEF n
<1>4. \A k \in Keys : (HeldAt(q, k)) <=> (HeldAt(m, k))
  <2>1. \A j : j \in 1..(n + 1) <=> j \in 1..n \/ j = n + 1
    BY <1>1
  <2> QED
    BY <1>1, <1>2, <2>1 DEF HeldAt, n
<1>5. ASSUME NEW c \in Registered(m)
      PROVE  Todo(q, c) = Todo(m, c)
  <2> DEFINE here == m.cursor[c].chk
             pos == m.cursor[c].pos
  <2>1. here \in 1..n
    BY Parts DEF n
  <2>2. /\ Todo(m, c) = {l \in Keys : Ahead(m.list[here], pos, l) \/ Later(m, here, l)}
        /\ Todo(q, c) = {l \in Keys : Ahead(q.list[here], pos, l) \/ Later(q, here, l)}
    BY <1>1, <1>3, TodoFacts DEF ChkOf
  <2> HIDE DEF here, pos
  <2>3. \A j : j \in (here + 1)..(n + 1) <=> j \in (here + 1)..n \/ j = n + 1
    BY <1>1, <2>1
  <2>4. \A j \in (here + 1)..n : j \in 1..n
    BY <1>1, <2>1
  <2>5. \A l \in Keys : (Later(q, here, l)) <=> (Later(m, here, l))
    BY <1>1, <1>2, <2>3, <2>4, SMTT(30) DEF Later, n
  <2> QED
    BY <1>1, <2>1, <2>2, <2>5
<1> QED
  BY <1>3, <1>4, <1>5, HeldFacts DEF Same

\* addNewCheckpoint_UNLOCKED changes nothing for any consumer.
LEMMA OpenedSame ==
  ASSUME NEW m, ManagerOK(m), Orderly(m), NEW id \in Nat, NEW q, IsOpened(m, id, q),
         ~MayBeEmpty => LastChk(m).id < id
  PROVE  ManagerOK(q) /\ Same(m, q)
<1>1. PICK a, b : /\ ManagerOK(a) /\ ManagerOK(b) /\ ManagerOK(q)
                  /\ IF LastChk(m).open THEN IsClosed(m, a) ELSE a = m
                  /\ IsAppended(a, id, b) /\ IsAdvanced(b, q)
  BY DEF IsOpened
<1>2. Orderly(a) /\ ~LastChk(a).open /\ LastChk(a).id = LastChk(m).id /\ Same(m, a)
  <2>1. CASE LastChk(m).open
    <3>1. IsClosed(m, a)
      BY <1>1, <2>1
    <3>2. /\ Len(a.list) = Len(m.list) /\ LastChk(a) = a.list[Len(a.list)]
          /\ LastChk(m) = m.list[Len(m.list)] /\ Len(m.list) \in 1..Len(m.list)
      BY <1>1, <3>1, Parts DEF IsClosed, ItemQueued
    <3>3. a.list[Len(m.list)].id = m.list[Len(m.list)].id /\ ~a.list[Len(m.list)].open
      BY <3>1, <3>2 DEF IsClosed, ItemQueued
    <3>4. Orderly(a) /\ Same(m, a)
      BY <1>1, <3>1, OrderlyClosed, ClosedSame DEF Orderly
    <3> QED
      BY <3>2, <3>3, <3>4
  <2>2. CASE ~LastChk(m).open
    BY <1>1, <2>2 DEF Same
  <2> QED
    BY <2>1, <2>2
<1>3. Orderly(b) /\ Same(a, b)
  BY <1>1, <1>2, OrderlyAppended, AppendedSame
<1>4. Same(b, q)
  BY <1>1, <1>3, AdvancedSame DEF Orderly
<1> QED
  BY <1>1, <1>2, <1>3, <1>4, SameTransitive

\* No cursor is in a checkpoint that is dropped.
LEMMA CutReorganised ==
  ASSUME NEW m, ManagerOK(m), NEW r, NEW q, ManagerOK(q), IsCut(m, r, q)
  PROVE  Reorganised(m, q)
<1> DEFINE n == Len(m.list)
<1>1. /\ n \in Nat \ {0} /\ r \in Nat /\ r < n /\ Len(q.list) = n - r
      /\ \A i \in 1..(n - r) : q.list[i].mid = m.list[i + r].mid
  BY Parts DEF IsCut
<1>2. Registered(q) = Registered(m)
  <2>1. \A d \in Registered(m) : q.cursor[d].chk # 0
    <3> SUFFICES ASSUME NEW d \in Registered(m) PROVE q.cursor[d].chk # 0
      OBVIOUS
    <3>1. m.cursor[d].chk \in 1..n /\ r < m.cursor[d].chk /\ q.cursor[d].chk = m.cursor[d].chk - r
      BY Parts DEF IsCut
    <3> QED
      BY <1>1, <3>1
  <2> QED
    BY <2>1 DEF IsCut, Registered
<1>3. Held(q) \subseteq Held(m)
  <2> HIDE DEF n
  <2>1. \A i \in 1..(n - r) : i + r \in 1..n
    BY <1>1
  <2>2. \A k \in Keys : HeldAt(q, k) => HeldAt(m, k)
    BY <1>1, <2>1 DEF HeldAt, n
  <2> QED
    BY <2>2, HeldFacts
<1>4. ASSUME NEW c \in Registered(m)
      PROVE  Todo(q, c) = Todo(m, c)
  <2> DEFINE here == m.cursor[c].chk
             pos == m.cursor[c].pos
  <2>1. /\ here \in 1..n /\ r < here /\ q.cursor[c].chk = here - r /\ q.cursor[c].pos = pos
    BY Parts DEF IsCut
  <2>2. /\ Todo(m, c) = {l \in Keys : Ahead(m.list[here], pos, l) \/ Later(m, here, l)}
        /\ Todo(q, c) = {l \in Keys : Ahead(q.list[here - r], pos, l) \/ Later(q, here - r, l)}
    BY <1>2, <2>1, TodoFacts DEF ChkOf
  <2> HIDE DEF here, pos, n
  <2>3. here - r \in 1..(n - r) /\ (here - r) + r = here
    BY <1>1, <2>1
  <2>4. q.list[here - r].mid = m.list[here].mid
    BY <1>1, <2>3
  <2>5. \A l : (Ahead(q.list[here - r], pos, l)) <=> (Ahead(m.list[here], pos, l))
    BY <2>4 DEF Ahead, Rank
  <2>6. ASSUME NEW l
        PROVE  (Later(q, here - r, l)) <=> (Later(m, here, l))
    <3>1. \A j \in ((here - r) + 1)..(n - r) : /\ j + r \in (here + 1)..n
                                               /\ j \in 1..(n - r)
      BY <1>1, <2>1
    <3>2. \A j \in (here + 1)..n : /\ j - r \in ((here - r) + 1)..(n - r)
                                   /\ j - r \in 1..(n - r) /\ (j - r) + r = j
      BY <1>1, <2>1
    <3>3. Len(q.list) = n - r /\ Len(m.list) = n
      BY <1>1 DEF n
    <3>4. Later(q, here - r, l) => Later(m, here, l)
      BY <1>1, <3>1, <3>3 DEF Later
    <3>5. ASSUME NEW j \in (here + 1)..n, m.list[j].mid[l] # 0
          PROVE  Later(q, here - r, l)
      <4>1. q.list[j - r].mid[l] # 0
        BY <1>1, <3>2, <3>5
      <4> QED
        BY <3>2, <3>3, <4>1 DEF Later
    <3> QED
      BY <3>3, <3>4, <3>5 DEF Later
  <2> QED
    BY <2>2, <2>5, <2>6
<1> QED
  BY <1>2, <1>3, <1>4 DEF Reorganised

\* Every cursor back at the beginning.
LEMMA RestartedTodo ==
  ASSUME NEW q, ManagerOK(q), OrderOK(q), NEW c \in Registered(q),
         q.cursor[c].chk = 1, q.cursor[c].pos = Dummy
  PROVE  Todo(q, c) = Held(q)
<1>1. Len(q.list) \in Nat \ {0} /\ 1 \in 1..Len(q.list)
  BY Parts
<1>2. Todo(q, c) = {k \in Keys : Ahead(q.list[1], Dummy, k) \/ Later(q, 1, k)}
  BY TodoFacts DEF ChkOf
<1>3. \A k \in Keys : (Ahead(q.list[1], Dummy, k)) <=> (q.list[1].mid[k] # 0)
  BY <1>1, DocRanks
<1>4. \A j : j \in 1..Len(q.list) <=> j = 1 \/ j \in (1 + 1)..Len(q.list)
  BY <1>1
<1>5. \A k : (HeldAt(q, k)) <=> (q.list[1].mid[k] # 0 \/ Later(q, 1, k))
  BY <1>4 DEF HeldAt, Later
<1> QED
  BY <1>2, <1>3, <1>5, HeldFacts

\* Cursors that are put back to the first item see everything again.
LEMMA RestartReorganised ==
  ASSUME NEW m, ManagerOK(m), NEW q, ManagerOK(q), OrderOK(q), Registered(q) = Registered(m),
         Held(q) = Held(m),
         \A d \in Registered(m) : q.cursor[d].chk = 1 /\ q.cursor[d].pos = Dummy
  PROVE  Reorganised(m, q)
<1>1. ASSUME NEW c \in Registered(m)
      PROVE  Todo(m, c) \subseteq Todo(q, c)
  <2>1. Todo(q, c) = Held(m) /\ c \in Names
    BY RestartedTodo, Parts
  <2> QED
    BY <2>1, TodoIsHeld
<1> QED
  BY <1>1 DEF Reorganised

\* A merged checkpoint holds what the merged ones held, a key at its newest place.
LEMMA MergedHolds ==
  ASSUME NEW m, NEW to \in Nat \ {0}, NEW k \in Keys
  PROVE  /\ (MergedMid(m.list, to)[k] # 0) <=> (\E i \in 1..to : m.list[i].mid[k] # 0)
         /\ m.list[to].mid[k] # 0 => MergedMid(m.list, to)[k] = m.list[to].mid[k]
<1>1. CASE \A i \in 1..to : m.list[i].mid[k] = 0 /\ MergedMid(m.list, to)[k] = 0
  <2>1. to \in 1..to
    OBVIOUS
  <2> QED
    BY <1>1, <2>1
<1>2. ASSUME NEW i \in 1..to, m.list[i].mid[k] # 0,
             MergedMid(m.list, to)[k] = m.list[i].mid[k],
             \A j \in 1..to : m.list[j].mid[k] # 0 => j <= i
      PROVE  /\ (MergedMid(m.list, to)[k] # 0) <=> (\E j \in 1..to : m.list[j].mid[k] # 0)
             /\ m.list[to].mid[k] # 0 => MergedMid(m.list, to)[k] = m.list[to].mid[k]
  <2>1. m.list[to].mid[k] # 0 => i = to
    BY <1>2
  <2> QED
    BY <1>2, <2>1
<1> DEFINE all == \A i \in 1..to : m.list[i].mid[k] = 0
           none == MergedMid(m.list, to)[k] = 0
<1>3. \/ all /\ none
      \/ \E i \in 1..to : /\ m.list[i].mid[k] # 0
                          /\ MergedMid(m.list, to)[k] = m.list[i].mid[k]
                          /\ \A j \in 1..to : m.list[j].mid[k] # 0 => j <= i
  <2> DEFINE list == m.list
  <2> HIDE DEF list
  <2>1. \/ /\ \A i \in 1..to : list[i].mid[k] = 0
           /\ MergedMid(list, to)[k] = 0
        \/ \E i \in 1..to : /\ list[i].mid[k] # 0
                            /\ MergedMid(list, to)[k] = list[i].mid[k]
                            /\ \A j \in 1..to : list[j].mid[k] # 0 => j <= i
    BY MergedMidFacts
  <2> QED
    BY <2>1 DEF list
<1>4. CASE all /\ none
  BY <1>1, <1>4
<1> HIDE DEF all, none
<1> QED
  BY <1>2, <1>3, <1>4

\* A cursor of a merged checkpoint has the newest of each key still ahead.
LEMMA CollapsedReorganised ==
  ASSUME NEW m, ManagerOK(m), NEW q, ManagerOK(q), OrderOK(q), IsCollapsed(m, q)
  PROVE  Reorganised(m, q)
<1> DEFINE n == Len(m.list)
           t == n - 1
<1>1. /\ n \in Nat \ {0} /\ t \in 1..n /\ t \in Nat \ {0} /\ n = t + 1 /\ Len(q.list) = 2
      /\ q.list[1].mid = MergedMid(m.list, t) /\ q.list[2] = m.list[n]
  <2>1. n \in Nat
    BY Parts
  <2>2. /\ t \in 2..n /\ Len(q.list) = 2
        /\ q.list[1].mid = MergedMid(m.list, t) /\ q.list[2] = m.list[n]
    BY ZenonT(60) DEF IsCollapsed
  <2>3. n \in Nat \ {0} /\ t \in 1..n /\ t \in Nat \ {0} /\ n = t + 1
    BY <2>1, <2>2
  <2> QED
    BY <2>2, <2>3
<1>2. Registered(q) = Registered(m)
  <2>1. \A d \in Names : (d \in Registered(q)) <=> (q.cursor[d].chk # 0)
    BY DEF Registered
  <2>2. \A d \in Names \ Registered(m) : q.cursor[d].chk = 0
    BY DEF IsCollapsed
  <2>3. \A d \in Slow(m) : q.cursor[d].chk = 1
    BY DEF IsCollapsed
  <2>4. \A d \in Registered(m) \ Slow(m) : q.cursor[d].chk \in {1, 2}
    BY DEF IsCollapsed
  <2>5. Registered(m) \subseteq Names /\ Registered(q) \subseteq Names
    BY Parts
  <2> QED
    BY <2>1, <2>2, <2>3, <2>4, <2>5
<1> HIDE DEF n, t
<1>3. ASSUME NEW k \in Keys
      PROVE  /\ (q.list[1].mid[k] # 0) <=> (\E i \in 1..t : m.list[i].mid[k] # 0)
             /\ m.list[t].mid[k] # 0 => q.list[1].mid[k] = m.list[t].mid[k]
  <2>1. t \in Nat \ {0} /\ q.list[1].mid[k] = MergedMid(m.list, t)[k]
    BY <1>1
  <2>2. /\ (MergedMid(m.list, t)[k] # 0) <=> (\E i \in 1..t : m.list[i].mid[k] # 0)
        /\ m.list[t].mid[k] # 0 => MergedMid(m.list, t)[k] = m.list[t].mid[k]
    BY <2>1, MergedHolds
  <2> QED
    BY <2>1, <2>2
<1>4. Held(q) = Held(m)
  <2>1. \A j : j \in 1..n <=> j \in 1..t \/ j = n
    BY <1>1
  <2>2. \A j : j \in 1..2 <=> j = 1 \/ j = 2
    OBVIOUS
  <2>3. \A k \in Keys : (HeldAt(q, k)) <=> (q.list[1].mid[k] # 0 \/ m.list[n].mid[k] # 0)
    BY <1>1, <2>2 DEF HeldAt
  <2>4. \A k \in Keys : (HeldAt(m, k)) <=>
                          ((\E i \in 1..t : m.list[i].mid[k] # 0) \/ m.list[n].mid[k] # 0)
    BY <2>1 DEF HeldAt, n
  <2>5. \A k \in Keys : (HeldAt(q, k)) <=> (HeldAt(m, k))
    BY <1>3, <2>3, <2>4
  <2> QED
    BY <2>5, HeldFacts
<1>5. ASSUME NEW c \in Registered(m)
      PROVE  Todo(m, c) \subseteq Todo(q, c)
  <2>1. CASE c \in Slow(m)
    <3>1. Todo(q, c) = Held(q) /\ c \in Names
      BY <1>2, <2>1, RestartedTodo, Parts DEF IsCollapsed
    <3> QED
      BY <1>4, <3>1, TodoIsHeld
  <2>2. ASSUME c \notin Slow(m)
        PROVE  Todo(m, c) \subseteq Todo(q, c)
    <3> DEFINE here == m.cursor[c].chk
               pos == m.cursor[c].pos
               there == q.cursor[c].chk
    <3>1. /\ here \in {t, n} /\ there = (IF here = t THEN 1 ELSE 2) /\ q.cursor[c].pos = pos
          /\ m.list[here].mid[pos] # 0 /\ pos \in AllKeys
      BY <2>2, Parts DEF IsCollapsed, t, n
    <3>2. /\ Todo(m, c) = {l \in Keys : Ahead(m.list[here], pos, l) \/ Later(m, here, l)}
          /\ Todo(q, c) = {l \in Keys : Ahead(q.list[there], pos, l) \/ Later(q, there, l)}
      BY <1>2, <3>1, TodoFacts DEF ChkOf
    <3> HIDE DEF here, pos, there
    <3>3. ASSUME NEW l \in Keys, Later(m, here, l)
          PROVE  Later(q, there, l)
      <4>1. PICK j \in (here + 1)..n : m.list[j].mid[l] # 0
        BY <3>3 DEF Later, n
      <4>2. here = t /\ j = n /\ there = 1
        BY <1>1, <3>1, <4>1
      <4>3. 2 \in (there + 1)..Len(q.list) /\ q.list[2].mid[l] # 0
        BY <1>1, <4>1, <4>2
      <4> QED
        BY <4>3 DEF Later
    <3>4. ASSUME NEW l \in Keys, Ahead(m.list[here], pos, l)
          PROVE  Ahead(q.list[there], pos, l)
      <4>1. CASE here = n /\ here # t
        BY <1>1, <3>1, <3>4, <4>1
      <4>2. CASE here = t
        <5>1. there = 1 /\ m.list[t].mid[l] # 0 /\ m.list[t].mid[pos] # 0
          BY <3>1, <3>4, <4>2 DEF Ahead
        <5>2. q.list[1].mid[l] = m.list[t].mid[l]
          BY <1>3, <5>1
        <5>3. q.list[1].mid[pos] = m.list[t].mid[pos]
          <6>1. CASE pos \in Keys
            BY <1>3, <5>1, <6>1
          <6>2. CASE pos \in AllKeys \ Keys
            <7> DEFINE list == m.list
            <7> HIDE DEF list
            <7>1. MergedMid(list, t)[pos] = list[t].mid[pos]
              BY <1>1, <6>2, MergedMidFacts
            <7> QED
              BY <1>1, <7>1 DEF list
          <6> QED
            BY <3>1, <6>1, <6>2
        <5> QED
          BY <3>4, <4>2, <5>1, <5>2, <5>3 DEF Ahead, Rank
      <4> QED
        BY <3>1, <4>1, <4>2
    <3> QED
      BY <3>2, <3>3, <3>4
  <2> QED
    BY <2>1, <2>2
<1> QED
  BY <1>2, <1>4, <1>5 DEF Reorganised

\* A rollback merges all the checkpoints, and the cursors start over.
LEMMA RolledBackReorganised ==
  ASSUME NEW m, ManagerOK(m), NEW q, ManagerOK(q), OrderOK(q), NEW id, IsRolledBack(m, id, q)
  PROVE  Reorganised(m, q)
<1> DEFINE n == Len(m.list)
<1>1. /\ n \in Nat \ {0} /\ Len(q.list) = 1 /\ Registered(q) = Registered(m)
      /\ \A k \in AllKeys : q.list[1].mid[k] = IF k = End THEN 0 ELSE MergedMid(m.list, n)[k]
      /\ \A d \in Registered(m) : q.cursor[d].chk = 1 /\ q.cursor[d].pos = Dummy
  BY Parts DEF IsRolledBack
<1>2. \A k \in Keys : q.list[1].mid[k] = MergedMid(m.list, n)[k]
  BY <1>1, MetaKeysDiffer DEF MetaFact
<1> HIDE DEF n
<1>3. \A k \in Keys : (q.list[1].mid[k] # 0) <=> (\E i \in 1..n : m.list[i].mid[k] # 0)
  BY <1>1, <1>2, MergedHolds, SMTT(30)
<1>4. \A k \in Keys : (HeldAt(q, k)) <=> (q.list[1].mid[k] # 0)
  <2>1. \A j : j \in 1..1 <=> j = 1
    OBVIOUS
  <2> QED
    BY <1>1, <2>1 DEF HeldAt
<1>5. Held(q) = Held(m)
  BY <1>3, <1>4, HeldFacts DEF HeldAt, n
<1> QED
  BY <1>1, <1>5, RestartReorganised

\* An id that is set, and cursors that start over.
LEMMA IdSetSame ==
  ASSUME NEW m, ManagerOK(m), NEW q, ManagerOK(q), NEW id, IdIsSet(m, id, q)
  PROVE  Same(m, q)
<1>1. SameMids(m, q) /\ q.cursor = m.cursor /\ Registered(q) = Registered(m)
      /\ Registered(m) \subseteq Names
  BY Parts DEF IdIsSet
<1> QED
  BY <1>1, StayingTodo, MidsKeepHeld DEF Same

\* A new id for the open checkpoint, with all cursors put back.
LEMMA IdResetReorganised ==
  ASSUME NEW m, ManagerOK(m), NEW q, ManagerOK(q), OrderOK(q), NEW y, NEW id,
         IdIsSet(m, id, y), IsReset(y, q)
  PROVE  Reorganised(m, q)
<1>1. SameMids(m, q) /\ Registered(q) = Registered(m)
      /\ \A d \in Registered(m) : q.cursor[d].chk = 1 /\ q.cursor[d].pos = Dummy
  BY DEF IdIsSet, IsReset, SameMids
<1>2. Held(q) = Held(m)
  BY <1>1, MidsKeepHeld
<1> QED
  BY <1>1, <1>2, RestartReorganised

\* Cursors that are sent the start item again.
LEMMA RenumberedReorganised ==
  ASSUME NEW m, ManagerOK(m), OrderOK(m), NEW q, ManagerOK(q), NEW id, IsRenumbered(m, id, q)
  PROVE  Reorganised(m, q)
<1>1. /\ SameMids(m, q) /\ \A d \in Names : /\ q.cursor[d].chk = m.cursor[d].chk
                                            /\ q.cursor[d].pos \in {m.cursor[d].pos, Dummy}
  BY DEF IsRenumbered
<1>2. Registered(q) = Registered(m)
  BY <1>1 DEF Registered
<1>3. ASSUME NEW c \in Registered(m)
      PROVE  Todo(m, c) \subseteq Todo(q, c)
  <2> DEFINE here == m.cursor[c].chk
             pos == m.cursor[c].pos
             newPos == q.cursor[c].pos
  <2>1. /\ here \in 1..Len(m.list) /\ here \in Nat /\ pos \in AllKeys /\ c \in Names
        /\ newPos \in {pos, Dummy} /\ q.cursor[c].chk = here
    BY <1>1, Parts
  <2>2. /\ Todo(m, c) = {l \in Keys : Ahead(m.list[here], pos, l) \/ Later(m, here, l)}
        /\ Todo(q, c) = {l \in Keys : Ahead(q.list[here], newPos, l) \/ Later(q, here, l)}
    BY <1>2, <2>1, TodoFacts DEF ChkOf
  <2> HIDE DEF here, pos, newPos
  <2>3. \A l : /\ (Ahead(q.list[here], newPos, l)) <=> (Ahead(m.list[here], newPos, l))
               /\ (Later(q, here, l)) <=> (Later(m, here, l))
    BY <1>1, <2>1, MidsKeepHeld
  <2>4. \A l \in Keys : Ahead(m.list[here], pos, l) => Ahead(m.list[here], newPos, l)
    <3>1. \A l \in Keys : Ahead(m.list[here], pos, l) => Ahead(m.list[here], Dummy, l)
      BY <2>1, DocRanks DEF Ahead
    <3> QED
      BY <2>1, <3>1
  <2> QED
    BY <2>2, <2>3, <2>4
<1> QED
  BY <1>1, <1>2, <1>3, MidsKeepHeld DEF Reorganised

\* Counts and flags do not matter to consumers.
LEMMA CountersSame ==
  ASSUME NEW m, NEW q, OnlyCounters(m, q)
  PROVE  Same(m, q)
BY DEF OnlyCounters, Same, Registered, Held, Todo, ChkOf, After, Present, Rank

\* removeClosedUnrefCheckpoints frees what no cursor needs, and merges the rest.
LEMMA ReducedReorganised ==
  ASSUME NEW m, ManagerOK(m), Orderly(m), NEW q, ManagerOK(q), IsReduced(m, q),
         AlwaysMaster => IsMaster
  PROVE  Reorganised(m, q)
<1>1. PICK x, y, z, oldId :
        /\ ManagerOK(x) /\ ManagerOK(y) /\ ManagerOK(z)
        /\ x = m \/ IsOpened(m, LastChk(m).id + 1, x)
        /\ y = x \/ HaveMovedOn(x, Finished(x, oldId), y)
        /\ z = y \/ IsCut(y, NumUnref(y), z)
        /\ q = z \/ (~IsMaster /\ IsCollapsed(z, q))
  BY DEF IsReduced
<1>2. Orderly(x) /\ Same(m, x)
  <2>1. LastChk(m).id + 1 \in Nat /\ LastChk(m).id < LastChk(m).id + 1
    BY LastFacts
  <2>2. Same(m, m)
    BY DEF Same
  <2> QED
    BY <1>1, <2>1, <2>2, OrderlyOpened, OpenedSame
<1>3. Orderly(y) /\ Same(x, y)
  <2>1. Same(x, x)
    BY DEF Same
  <2> QED
    BY <1>1, <1>2, <2>1, OrderlyMovedOn, HaveMovedOnSame DEF Orderly
<1>4. Orderly(z) /\ Reorganised(y, z)
  <2>1. Reorganised(y, y)
    BY DEF Reorganised
  <2> QED
    BY <1>1, <1>3, <2>1, OrderlyCut, CutReorganised
<1>5. Reorganised(z, q)
  <2>1. Reorganised(z, z)
    BY DEF Reorganised
  <2>2. CASE ~IsMaster /\ IsCollapsed(z, q)
    <3>1. Orderly(q)
      BY <1>1, <1>4, <2>2, OrderlyCollapsed
    <3> QED
      BY <1>1, <2>2, <3>1, CollapsedReorganised DEF Orderly
  <2> QED
    BY <1>1, <2>1, <2>2
<1> QED
  BY <1>2, <1>3, <1>4, <1>5, SameIsReorganised, ReorganisedTransitive

\* checkAndAddNewCheckpoint loses nothing of any consumer.
LEMMA AcceptedReorganised ==
  ASSUME NEW m, ManagerOK(m), Orderly(m), NEW id \in Nat, NEW q, ManagerOK(q),
         OrderOK(q), Accepted(m, id, q)
  PROVE  Reorganised(m, q)
<1>1. CASE q = m
  BY <1>1 DEF Reorganised
<1>2. ASSUME NEW y, IdIsSet(m, id, y), IsReset(y, q)
      PROVE  Reorganised(m, q)
  BY <1>2, IdResetReorganised
<1>3. CASE IsRolledBack(m, id, q)
  BY <1>3, RolledBackReorganised
<1>4. CASE IsRenumbered(m, id, q)
  BY <1>4, RenumberedReorganised DEF Orderly
<1>5. ASSUME ~IsOld(m, id), NEW z, ManagerOK(z), OnlyCounters(m, z), IsOpened(z, id, q)
      PROVE  Reorganised(m, q)
  <2>1. Orderly(z) /\ LastChk(z) = LastChk(m) /\ Same(m, z)
    BY <1>5, OrderlyCounters, CountersSame DEF OnlyCounters, LastChk
  <2>2. LastChk(m).id < id
    <3>1. /\ Len(m.list) \in 1..Len(m.list) /\ DOMAIN m.list = 1..Len(m.list)
          /\ LastChk(m) = m.list[Len(m.list)] /\ LastChk(m).id \in Nat
      BY Parts
    <3> QED
      BY <1>5, <3>1 DEF IsOld
  <2>3. Same(z, q)
    BY <1>5, <2>1, <2>2, OpenedSame
  <2> QED
    BY <2>1, <2>3, SameTransitive, SameIsReorganised
<1> QED
  BY <1>1, <1>2, <1>3, <1>4, <1>5 DEF Accepted
-----------------------------------------------------------------------------
(***************************************************************************)
(* The steps of the manager as steps of the queue.                         *)
(***************************************************************************)

LEMMA ReorganiseStep ==
  ASSUME ManagerOK(cm), ManagerOK(cm'), Reorganised(cm, cm'), event'.op = "none"
  PROVE  Queue!Reorganise
<1>1. Held(cm') \subseteq Held(cm) /\ Registered(cm') = Registered(cm)
  BY DEF Reorganised
<1>2. ASSUME NEW c \in Names
      PROVE  Todo(cm, c) \subseteq Todo(cm', c) /\ Todo(cm', c) \subseteq Held(cm')
  <2>1. c \in Registered(cm) => Todo(cm, c) \subseteq Todo(cm', c)
    BY DEF Reorganised
  <2>2. c \notin Registered(cm) => Todo(cm, c) = {}
    BY TodoOfOthers
  <2> QED
    BY <2>1, <2>2, TodoIsHeld
<1>3. ASSUME NEW c \in Names \ Registered(cm)
      PROVE  Todo(cm', c) = {}
  BY <1>1, TodoOfOthers
<1> QED
  BY <1>1, <1>2, <1>3 DEF Queue!Reorganise

\* Emptying.
LEMMA EmptyStep ==
  ASSUME ManagerOK(cm), ManagerOK(cm'), Registered(cm') = Registered(cm),
         Held(cm') = {}, event'.op = "empty"
  PROVE  Queue!Empty
<1>1. \A c \in Names : Todo(cm', c) = {}
  BY TodoIsHeld
<1> QED
  BY <1>1 DEF Queue!Empty

\* A new checkpoint has no documents.
LEMMA FreshHoldsNothing ==
  ASSUME NEW q, ManagerOK(q), NEW id, NEW names, IsFresh(q, id, names)
  PROVE  Held(q) = {}
<1>1. \A j : j \in 1..1 <=> j = 1
  OBVIOUS
<1>2. \A k \in Keys : q.list[1].mid[k] = 0
  BY MetaKeysDiffer DEF IsFresh, MetaFact
<1>3. \A k \in Keys : ~HeldAt(q, k)
  BY <1>1, <1>2 DEF IsFresh, HeldAt
<1> QED
  BY <1>3, HeldFacts

\* queueDirty is a Write: the key is put on every list.
LEMMA WriteStep ==
  ASSUME OInv, IInv', NEW k \in Keys, QueueDirty(k)
  PROVE  Queue!Write(k)
<1>1. PICK timeUp \in BOOLEAN : /\ LastChk(BeforeQueueing(timeUp)).open
                                /\ IsQueued(BeforeQueueing(timeUp), k, cm')
  BY QueueEffect DEF OInv
<1> DEFINE m == BeforeQueueing(timeUp)
<1>2. ManagerOK(m) /\ Orderly(m) /\ ManagerOK(cm) /\ Orderly(cm) /\ ManagerOK(cm')
  BY OrderlyBefore DEF OInv, IInv
<1>3. Same(cm, m)
  <2>1. LastChk(cm).id + 1 \in Nat /\ LastChk(cm).id < LastChk(cm).id + 1
    BY <1>2, LastFacts
  <2>2. m = cm \/ IsOpened(cm, LastChk(cm).id + 1, m)
    BY <1>2, CheckOpenEffect DEF BeforeQueueing
  <2>3. Same(cm, cm)
    BY DEF Same
  <2> QED
    BY <1>2, <2>1, <2>2, <2>3, OpenedSame
<1> HIDE DEF m
<1>4. PICK q : ManagerOK(q) /\ ItemQueued(m, k, q) /\ OnlyCounters(q, cm')
  BY <1>1 DEF IsQueued, m
<1>5. k \in AllKeys \ {Dummy, Start} /\ {k} \cap Keys = {k}
  BY MetaKeysDiffer DEF MetaFact
<1>6. /\ Registered(q) = Registered(m) /\ Held(q) = Held(m) \cup {k}
      /\ \A c \in Registered(m) : Todo(q, c) = Todo(m, c) \cup {k}
  BY <1>2, <1>4, <1>5, QueuedTodo DEF Orderly
<1>7. Same(q, cm')
  BY <1>4, CountersSame
<1>8. /\ Registered(cm') = Registered(cm) /\ Held(cm') = Held(cm) \cup {k}
      /\ \A c \in Registered(cm) : Todo(cm', c) = Todo(cm, c) \cup {k}
  BY <1>3, <1>6, <1>7 DEF Same
<1>9. \A c \in Names \ Registered(cm) : Todo(cm', c) = {}
  BY <1>8, TodoOfOthers
<1>10. event'.op = "write" /\ event'.keys = {k}
  BY EventParts DEF QueueDirty
<1> QED
  BY <1>8, <1>9, <1>10 DEF Queue!Write

\* What a cursor that is placed on an item of its checkpoint has ahead.
LEMMA MovesTodo ==
  ASSUME NEW m, ManagerOK(m), NEW c \in Registered(m), NEW p, NEW q, ManagerOK(q),
         Moves(m, c, p, q)
  PROVE  /\ Registered(q) = Registered(m) /\ Held(q) = Held(m)
         /\ \A d \in Names \ {c} : Todo(q, d) = Todo(m, d)
         /\ Todo(q, c) = {l \in Keys : Ahead(ChkOf(m, c), p, l) \/ Later(m, m.cursor[c].chk, l)}
<1>1. /\ SameMids(m, q) /\ q.list = m.list /\ c \in Names
      /\ q.cursor[c].chk = m.cursor[c].chk /\ q.cursor[c].pos = p
      /\ \A d \in Names \ {c} : q.cursor[d] = m.cursor[d]
  BY Parts DEF Moves, SameMids
<1>2. Registered(q) = Registered(m)
  BY <1>1 DEF Registered
<1>3. \A d \in Names \ {c} : Todo(q, d) = Todo(m, d)
  BY <1>1, StayingTodo
<1>4. Todo(q, c) = {l \in Keys : Ahead(ChkOf(m, c), p, l) \/ Later(m, m.cursor[c].chk, l)}
  BY <1>1, <1>2, TodoFacts, SMTT(30) DEF ChkOf, Later
<1> QED
  BY <1>1, <1>2, <1>3, <1>4, MidsKeepHeld

\* A cursor at an end item that is set back by one.
LEMMA SetBackSame ==
  ASSUME NEW m, ManagerOK(m), OrderOK(m), NEW c \in Registered(m), m.cursor[c].pos = End,
         NEW q, ManagerOK(q), Moves(m, c, PrevKey(ChkOf(m, c), End), q)
  PROVE  Same(m, q)
<1> DEFINE here == m.cursor[c].chk
           p == PrevKey(m.list[here], End)
<1>1. here \in 1..Len(m.list) /\ ChkOf(m, c) = m.list[here] /\ m.list[here].mid[End] # 0
      /\ Registered(m) \subseteq Names
  BY Parts DEF ChkOf
<1>2. End \in AllKeys \ {Dummy, Start} /\ End \notin Keys
  BY MetaKeysDiffer DEF MetaFact
<1>3. /\ Todo(m, c) = {l \in Keys : Ahead(m.list[here], End, l) \/ Later(m, here, l)}
      /\ Todo(q, c) = {l \in Keys : Ahead(m.list[here], p, l) \/ Later(m, here, l)}
      /\ Registered(q) = Registered(m) /\ Held(q) = Held(m)
      /\ \A d \in Names \ {c} : Todo(q, d) = Todo(m, d)
  BY <1>1, TodoFacts, MovesTodo DEF ChkOf
<1> HIDE DEF here
<1>4. \A l \in Keys : (Ahead(m.list[here], p, l)) <=> (Ahead(m.list[here], End, l))
  BY <1>1, <1>2, ShiftedAhead
<1>5. Todo(q, c) = Todo(m, c)
  BY <1>3, <1>4
<1> QED
  BY <1>1, <1>3, <1>5 DEF Same

\* A consumer is given what its cursor passes, and nothing else changes.
Given(m, q, c, keys) ==
  /\ Registered(q) = Registered(m)
  /\ Held(q) = Held(m)
  /\ \A d \in Names \ {c} : Todo(q, d) = Todo(m, d)
  /\ keys \subseteq Todo(m, c)
  /\ Todo(m, c) \ keys \subseteq Todo(q, c)
  /\ Todo(q, c) \subseteq Todo(m, c)

\* The cursor goes one item further.
LEMMA StepGives ==
  ASSUME NEW m, ManagerOK(m), OrderOK(m), NEW c \in Registered(m), ~AtEnd(m, c),
         NEW q, ManagerOK(q), Moves(m, c, NextKey(ChkOf(m, c), m.cursor[c].pos), q)
  PROVE  Given(m, q, c, Returned(m, q, c))
<1> DEFINE here == m.cursor[c].chk
           own == m.list[here]
           pos == m.cursor[c].pos
           p == NextKey(own, pos)
<1>1. here \in 1..Len(m.list) /\ ChkOf(m, c) = own /\ pos \in AllKeys /\ c \in Names
  BY Parts DEF ChkOf
<1>2. /\ Todo(m, c) = {l \in Keys : Ahead(own, pos, l) \/ Later(m, here, l)}
      /\ Todo(q, c) = {l \in Keys : Ahead(own, p, l) \/ Later(m, here, l)}
      /\ Registered(q) = Registered(m) /\ Held(q) = Held(m)
      /\ \A d \in Names \ {c} : Todo(q, d) = Todo(m, d)
  BY <1>1, TodoFacts, MovesTodo
<1>3. /\ ChkOK(own, m.mutationCounter) /\ m.mutationCounter \in Nat
  BY <1>1, RankFacts
<1>4. \A l \in AllKeys : Rank(own, l) \in Nat
  BY <1>1, RankFacts
<1>5. \A l \in Keys : l \in AllKeys /\ Rank(own, l) = own.mid[l]
  BY <1>1, DocRanks
<1>6. \A l, j \in Present(own) : l # j => Rank(own, l) # Rank(own, j)
  BY <1>1, RankFacts, ZenonT(60)
<1>7. After(own, pos) # {}
  BY <1>1 DEF AtEnd
<1> HIDE DEF own
<1>8. PICK j : j \in After(own, pos)
  BY <1>7
<1>9. p \in After(own, pos) /\ \A l \in After(own, pos) : Rank(own, p) <= Rank(own, l)
  BY <1>1, <1>3, <1>8, NextKeyPresent
<1> HIDE DEF p
<1>10. p \in AllKeys /\ p \in Present(own) /\ Rank(own, pos) < Rank(own, p) /\ own.mid[p] # 0
       /\ p # pos
  BY <1>1, <1>4, <1>9 DEF After, Present
<1>11. ASSUME NEW l \in Keys
       PROVE  (Ahead(own, pos, l)) <=> (Ahead(own, p, l) \/ l = p)
  <2>1. l \in AllKeys /\ Rank(own, l) = own.mid[l]
    BY <1>5
  <2>2. Ahead(own, p, l) \/ l = p => Ahead(own, pos, l)
    BY <1>1, <1>4, <1>10, <2>1 DEF Ahead
  <2>3. ASSUME Ahead(own, pos, l), l # p
        PROVE  Ahead(own, p, l)
    <3>1. l \in Present(own) /\ l \in After(own, pos)
      BY <2>1, <2>3 DEF Ahead, After, Present
    <3>2. Rank(own, p) <= Rank(own, l) /\ Rank(own, p) # Rank(own, l)
      BY <1>6, <1>9, <1>10, <2>3, <3>1
    <3> QED
      BY <1>4, <1>10, <2>1, <2>3, <3>2 DEF Ahead
  <2> QED
    BY <2>2, <2>3
<1>12. Returned(m, q, c) = {p} \cap Keys
  <2>1. q.cursor[c].pos = p
    BY <1>1 DEF Moves, p
  <2>2. q.cursor[c] # m.cursor[c]
    BY <1>10, <2>1
  <2> QED
    BY <2>1, <2>2 DEF Returned
<1> QED
  BY <1>2, <1>11, <1>12 DEF Given

\* nextItem takes from the reader's list at most what it returns.
LEMMA ReadGives ==
  ASSUME NEW m, ManagerOK(m), Orderly(m), NEW c \in Registered(m), NEW q, ManagerOK(q),
         IsRead(m, c, q)
  PROVE  Given(m, q, c, Returned(m, q, c))
<1>1. OrderOK(m) /\ c \in Names
  BY Parts DEF Orderly
<1>2. CASE q = m
  BY <1>2 DEF Given, Returned
<1>3. CASE ~AtEnd(m, c) /\ Moves(m, c, NextKey(ChkOf(m, c), m.cursor[c].pos), q)
  BY <1>1, <1>3, StepGives
<1>4. ASSUME AtEnd(m, c), NEW y, ManagerOK(y), MovedOn(m, c, y),
             q = y \/ Moves(y, c, NextKey(ChkOf(y, c), Dummy), q)
      PROVE  Given(m, q, c, Returned(m, q, c))
  <2>1. Same(m, y) /\ Orderly(y) /\ y.cursor[c].pos = Dummy
    BY <1>1, <1>4, MovedOnSame, OrderlyNext DEF MovedOn
  <2>2. c \in Registered(y) /\ y.cursor[c].chk \in 1..Len(y.list)
        /\ ChkOf(y, c) = y.list[y.cursor[c].chk]
    BY <1>4, <2>1, Parts DEF Same, ChkOf
  <2>3. Same(y, q) /\ q.cursor[c].pos \notin Keys
    <3>1. Dummy \notin Keys /\ Start \notin Keys
      BY MetaKeysDiffer DEF MetaFact
    <3>2. CASE q = y
      BY <2>1, <3>1, <3>2 DEF Same
    <3>3. CASE Moves(y, c, NextKey(ChkOf(y, c), Dummy), q)
      <4> DEFINE here == y.cursor[c].chk
      <4>1. NextKey(y.list[here], Dummy) = Start
        BY <1>4, <2>1, <2>2, NextOfDummy DEF Orderly
      <4>2. Moves(y, c, Start, q)
        BY <2>2, <3>3, <4>1
      <4>3. /\ Todo(y, c) = {l \in Keys : Ahead(y.list[here], Dummy, l) \/ Later(y, here, l)}
            /\ Todo(q, c) = {l \in Keys : Ahead(y.list[here], Start, l) \/ Later(y, here, l)}
            /\ Registered(q) = Registered(y) /\ Held(q) = Held(y)
            /\ \A d \in Names \ {c} : Todo(q, d) = Todo(y, d)
        BY <1>4, <2>1, <2>2, <4>2, TodoFacts, MovesTodo
      <4> HIDE DEF here
      <4>4. \A l \in Keys : (Ahead(y.list[here], Dummy, l)) <=> (Ahead(y.list[here], Start, l))
        BY <1>4, <2>1, <2>2, DocRanks DEF Orderly, here
      <4>5. Todo(q, c) = Todo(y, c)
        BY <4>3, <4>4
      <4>6. q.cursor[c].pos = Start /\ Registered(y) \subseteq Names
        BY <1>4, <4>2, Parts DEF Moves
      <4> QED
        BY <3>1, <4>3, <4>5, <4>6 DEF Same
    <3> QED
      BY <1>4, <3>2, <3>3
  <2>4. Returned(m, q, c) = {}
    BY <2>3 DEF Returned
  <2>5. Same(m, q)
    BY <2>1, <2>3, SameTransitive
  <2>6. \A d \in Names : Todo(q, d) = Todo(m, d)
    BY <2>5, TodoOfOthers DEF Same
  <2> QED
    BY <1>1, <2>4, <2>5, <2>6 DEF Given, Same
<1> QED
  BY <1>2, <1>3, <1>4 DEF IsRead

\* The flusher is given everything.
LEMMA TakeGives ==
  ASSUME NEW m, ManagerOK(m), OrderOK(m), NEW at, NEW q, ManagerOK(q), IsTaken(m, at, q)
  PROVE  Given(m, q, Persistence, Todo(m, Persistence))
<1> DEFINE n == Len(m.list)
<1>1. n \in Nat \ {0} /\ n \in 1..Len(m.list) /\ at \in 1..n /\ Persistence \in Registered(m)
      /\ Persistence \in Registered(q)
  BY Parts DEF IsTaken
<1>2. at = n
  BY <1>1 DEF IsTaken, OrderOK
<1>3. /\ SameMids(m, q) /\ q.cursor[Persistence].chk = n
      /\ q.cursor[Persistence].pos = LastKey(m.list[n])
      /\ \A d \in Names \ {Persistence} : q.cursor[d] = m.cursor[d]
  BY <1>2 DEF IsTaken
<1>4. \A d \in Names \ {Persistence} : /\ (d \in Registered(q)) <=> (d \in Registered(m))
                                       /\ Todo(q, d) = Todo(m, d)
  BY <1>3, StayingTodo
<1>5. Registered(q) = Registered(m)
  BY <1>1, <1>4 DEF Registered
<1>6. \A l \in Keys : ~Ahead(m.list[n], LastKey(m.list[n]), l)
  <2> DEFINE c == m.list[n]
  <2>1. ChkOK(c, m.mutationCounter) /\ m.mutationCounter \in Nat /\ Dummy \in Present(c)
        /\ Present(c) \subseteq AllKeys /\ \A k \in AllKeys : Rank(c, k) \in Nat
    BY <1>1, RankFacts
  <2> HIDE DEF c
  <2>2. LastKey(c) \in Present(c) /\ \A i \in Present(c) : Rank(c, i) <= Rank(c, LastKey(c))
    BY <2>1, LastKeyPresent
  <2>3. After(c, LastKey(c)) = {}
    BY <2>1, <2>2 DEF After
  <2> QED
    BY <1>1, <2>1, <2>2, <2>3, EndIsBehind DEF c
<1>7. Todo(q, Persistence) = {}
  <2>1. Todo(q, Persistence) = {l \in Keys : Ahead(q.list[n], LastKey(m.list[n]), l)
                                               \/ Later(q, n, l)}
    BY <1>1, <1>3, TodoFacts DEF ChkOf
  <2> HIDE DEF n
  <2>2. \A l \in Keys : ~Ahead(q.list[n], LastKey(m.list[n]), l)
    BY <1>1, <1>3, <1>6, MidsKeepHeld
  <2>3. Len(q.list) = n /\ (n + 1)..n = {}
    BY <1>1, <1>3 DEF SameMids, n
  <2>4. \A l : ~Later(q, n, l)
    BY <2>3 DEF Later
  <2> QED
    BY <2>1, <2>2, <2>4
<1> QED
  BY <1>3, <1>4, <1>5, <1>7, MidsKeepHeld DEF Given

\* A read that gives what leaves the list is a Give.
LEMMA GiveStep ==
  ASSUME NEW c \in Names, NEW keys, Given(cm, cm', c, keys),
         event'.op = "give", event'.who = c, event'.keys = keys
  PROVE  Queue!Give(c)
BY DEF Given, Queue!Give

\* The calls of a TAP connection are Give, Reorganise, Subscribe and Unsubscribe.
LEMMA TapStep ==
  ASSUME OInv, IInv', NEW t \in TapNames,
         NextItem(t) \/ WaitAtCheckpointEnd(t) \/ RegisterTAPCursor(t) \/ RemoveTAPCursor(t)
  PROVE  Queue!Next
<1>1. /\ ManagerOK(cm) /\ Orderly(cm) /\ OrderOK(cm) /\ ManagerOK(cm')
      /\ t \in Names \ {Persistence}
  BY MetaKeysDiffer, NamesAssumption DEF OInv, IInv, Orderly, MetaFact
<1>2. CASE NextItem(t)
  <2>1. /\ cm' = AdvanceTapCursor(cm, t) /\ event' = Event("give", t, Returned(cm, cm', t))
    BY <1>2 DEF NextItem, Becomes
  <2>2. Given(cm, cm', t, Returned(cm, cm', t))
    <3>1. CASE t \in Registered(cm)
      BY <1>1, <2>1, <3>1, AdvanceTapEffect, ReadGives
    <3>2. CASE t \notin Registered(cm)
      <4>1. cm' = cm
        BY <1>1, <2>1, <3>2 DEF AdvanceTapCursor, Registered
      <4> QED
        BY <4>1 DEF Given, Returned
    <3> QED
      BY <3>1, <3>2
  <2>3. Queue!Give(t)
    BY <1>1, <2>1, <2>2, EventParts, GiveStep
  <2> QED
    BY <1>1, <2>3 DEF Queue!Next
<1>3. CASE WaitAtCheckpointEnd(t)
  <2>1. cm' = DecrTapCursorFromCheckpointEnd(cm, t) /\ event'.op = "none"
    BY <1>3, EventParts DEF WaitAtCheckpointEnd, Becomes, Quiet
  <2>2. Same(cm, cm')
    <3>1. CASE cm.cursor[t].chk # 0 /\ cm.cursor[t].pos = End
      <4>1. t \in Registered(cm) /\ Moves(cm, t, PrevKey(ChkOf(cm, t), End), cm')
        BY <1>1, <2>1, <3>1, DecrTapCursorEffect DEF Registered
      <4> QED
        BY <1>1, <3>1, <4>1, SetBackSame
    <3>2. CASE cm' = cm
      BY <3>2 DEF Same
    <3> QED
      BY <2>1, <3>1, <3>2 DEF DecrTapCursorFromCheckpointEnd
  <2> QED
    BY <1>1, <2>1, <2>2, SameIsReorganised, ReorganiseStep DEF Queue!Next
<1>4. CASE RegisterTAPCursor(t)
  <2>1. PICK id \in 1..(MaxCheckpointId + 1), fromBeginning \in BOOLEAN :
          /\ ~RegisterStrays(t, id, fromBeginning)
          /\ Becomes(RegisterCursor(cm, t, id, t \in BackupTaps, fromBeginning))
    BY <1>4 DEF RegisterTAPCursor
  <2> DEFINE closedOnly == t \in BackupTaps
  <2>2. closedOnly \in BOOLEAN /\ cm' = RegisterCursor(cm, t, id, closedOnly, fromBeginning)
    BY <2>1 DEF Becomes
  <2> HIDE DEF closedOnly
  <2>3. KeepsPosition(cm, t, id, fromBeginning) => cm.cursor[t].chk = ChkWithId(cm, id)
    BY <2>1 DEF RegisterStrays
  <2>4. IsRegistered(cm, t, ChkWithId(cm, id), cm')
    BY <1>1, <2>2, <2>3, RegisterCursorEffect
  <2>5. /\ SameMids(cm, cm') /\ \A d \in Names \ {t} : cm'.cursor[d] = cm.cursor[d]
        /\ cm'.cursor[t].chk \in 1..Len(cm.list)
    BY <2>4 DEF IsRegistered
  <2>6. t \in Registered(cm')
    BY <1>1, <2>5 DEF Registered
  <2>7. \A d \in Names \ {t} : /\ (d \in Registered(cm')) <=> (d \in Registered(cm))
                               /\ Todo(cm', d) = Todo(cm, d)
    BY <1>1, <2>5, StayingTodo
  <2>8. Registered(cm') = Registered(cm) \cup {t}
    BY <1>1, <2>6, <2>7 DEF Registered
  <2>9. Held(cm') = Held(cm) /\ Todo(cm', t) \subseteq Held(cm)
    BY <1>1, <2>5, MidsKeepHeld, TodoIsHeld
  <2>10. event'.op = "subscribe" /\ event'.who = t
    BY <1>4, EventParts DEF RegisterTAPCursor
  <2>11. Queue!Subscribe(t)
    BY <1>1, <2>7, <2>8, <2>9, <2>10 DEF Queue!Subscribe
  <2> QED
    BY <1>1, <2>11 DEF Queue!Next
<1>5. CASE RemoveTAPCursor(t)
  <2>1. IsRemoved(cm, t, cm')
    BY <1>1, <1>5, RemoveCursorEffect DEF RemoveTAPCursor, Becomes
  <2>2. /\ SameMids(cm, cm') /\ \A d \in Names \ {t} : cm'.cursor[d] = cm.cursor[d]
        /\ cm'.cursor[t].chk = 0
    BY <2>1 DEF IsRemoved
  <2>3. t \notin Registered(cm') /\ Todo(cm', t) = {}
    BY <2>2 DEF Registered, Todo
  <2>4. \A d \in Names \ {t} : /\ (d \in Registered(cm')) <=> (d \in Registered(cm))
                               /\ Todo(cm', d) = Todo(cm, d)
    BY <1>1, <2>2, StayingTodo
  <2>5. Registered(cm') = Registered(cm) \ {t}
    BY <1>1, <2>3, <2>4 DEF Registered
  <2>6. Held(cm') = Held(cm)
    BY <1>1, <2>2, MidsKeepHeld
  <2>7. event'.op = "unsubscribe" /\ event'.who = t
    BY <1>5, EventParts DEF RemoveTAPCursor
  <2>8. Queue!Unsubscribe(t)
    BY <1>1, <2>3, <2>4, <2>5, <2>6, <2>7 DEF Queue!Unsubscribe
  <2> QED
    BY <1>1, <2>8 DEF Queue!Next
<1> QED
  BY <1>2, <1>3, <1>4, <1>5

\* The calls that return nothing are Reorganise.
LEMMA QuietStep ==
  ASSUME OInv, OInv', event' = Quiet,
         \/ RemoveClosedUnrefCheckpoints \/ CheckVBOpenCheckpoint \/ CreateNewCheckpoint
         \/ SetCheckpointExtension \/ CloseBackfill
         \/ \E id \in Nat : CheckpointStart(id) \/ CheckpointEnd(id)
         \/ \E to \in VBStates : SetVBucketState(to)
  PROVE  Queue!Next
<1>1. /\ ManagerOK(cm) /\ Orderly(cm) /\ OrderOK(cm) /\ ManagerOK(cm') /\ OrderOK(cm')
      /\ event'.op = "none" /\ IInv
  <2>1. Quiet.op = "none"
    BY EventParts DEF Quiet
  <2>2. IInv /\ ManagerOK(cm) /\ Orderly(cm) /\ OrderOK(cm)
    BY DEF OInv, IInv, Orderly
  <2>3. ManagerOK(cm') /\ OrderOK(cm')
    BY DEF OInv, IInv, Orderly
  <2> QED
    BY <2>1, <2>2, <2>3
<1>2. LastChk(cm).id + 1 \in Nat /\ LastChk(cm).id < LastChk(cm).id + 1
  BY <1>1, LastFacts
<1>3. SUFFICES Reorganised(cm, cm')
  BY <1>1, ReorganiseStep DEF Queue!Next
<1>4. CASE RemoveClosedUnrefCheckpoints
  <2>1. PICK forced \in BOOLEAN, memHigh \in BOOLEAN, timeUp \in BOOLEAN :
          cm' = RemoveClosedUnref(cm, forced, memHigh, timeUp)
    BY <1>4 DEF RemoveClosedUnrefCheckpoints, Becomes
  <2>2. IsReduced(cm, cm')
    BY <1>1, <2>1, RemoveEffect
  <2> QED
    BY <1>1, <2>2, MasterFact, ReducedReorganised
<1>5. CASE CheckVBOpenCheckpoint
  <2>1. PICK timeUp \in BOOLEAN : cm' = CheckOpenCheckpoint(cm, FALSE, timeUp)
    BY <1>5 DEF CheckVBOpenCheckpoint, Becomes
  <2>2. cm' = cm \/ IsOpened(cm, LastChk(cm).id + 1, cm')
    BY <1>1, <2>1, CheckOpenEffect
  <2>3. Same(cm, cm')
    <3>1. CASE cm' = cm
      BY <3>1 DEF Same
    <3> QED
      BY <1>1, <1>2, <2>2, <3>1, OpenedSame
  <2> QED
    BY <2>3, SameIsReorganised
<1>6. CASE CreateNewCheckpoint
  <2>1. IsOpened(cm, LastChk(cm).id + 1, cm')
    BY <1>1, <1>2, <1>6, AddNewEffect DEF CreateNewCheckpoint, Becomes
  <2>2. Same(cm, cm')
    BY <1>1, <1>2, <2>1, OpenedSame
  <2> QED
    BY <2>2, SameIsReorganised
<1>7. CASE SetCheckpointExtension
  <2>1. PICK extend \in BOOLEAN : cm' = [cm EXCEPT !.extension = extend]
    BY <1>7 DEF SetCheckpointExtension, Becomes
  <2>2. cm \in Record(Len(cm.list))
    BY <1>1, Parts
  <2>3. OnlyCounters(cm, cm')
    BY <2>1, <2>2 DEF OnlyCounters, Record
  <2> QED
    BY <2>3, CountersSame, SameIsReorganised
<1>8. ASSUME NEW id \in Nat, CheckpointStart(id)
      PROVE  Reorganised(cm, cm')
  <2>1. Accepted(cm, id, cm')
    BY <1>1, <1>8, CheckAndAddEffect DEF CheckpointStart, Becomes
  <2> QED
    BY <1>1, <1>8, <2>1, AcceptedReorganised
<1>9. ASSUME NEW id \in Nat, CheckpointEnd(id)
      PROVE  Reorganised(cm, cm')
  <2>1. cm' = CloseOpenCheckpoint(cm, id)
    BY <1>9 DEF CheckpointEnd, Becomes
  <2>2. cm' = cm \/ IsClosed(cm, cm')
    BY <1>1, <2>1, CloseOpenEffect
  <2>3. Same(cm, cm')
    <3>1. CASE cm' = cm
      BY <3>1 DEF Same
    <3> QED
      BY <1>1, <2>2, <3>1, ClosedSame
  <2> QED
    BY <2>3, SameIsReorganised
<1>10. CASE CloseBackfill \/ \E to \in VBStates : SetVBucketState(to)
  <2>1. cm' = cm \/ cm' = SetOpenCheckpointId(cm, 2)
    BY <1>10 DEF CloseBackfill, SetVBucketState, Becomes
  <2>2. Same(cm, cm')
    <3>1. CASE cm' = cm
      BY <3>1 DEF Same
    <3>2. CASE cm' = SetOpenCheckpointId(cm, 2)
      <4>1. IdIsSet(cm, 2, cm')
        BY <1>1, <3>2, SetOpenIdEffect DEF ManagerOK
      <4> QED
        BY <1>1, <4>1, IdSetSame
    <3> QED
      BY <2>1, <3>1, <3>2
  <2> QED
    BY <2>2, SameIsReorganised
<1> QED
  BY <1>4, <1>5, <1>6, <1>7, <1>8, <1>9, <1>10

\* clear and a reset are Empty; a stream without a reset is Reorganise.
LEMMA EmptyingStep ==
  ASSUME OInv, OInv', Clear \/ InitialVBucketStream
  PROVE  Queue!Next
<1>1. ManagerOK(cm) /\ OrderOK(cm) /\ ManagerOK(cm')
  BY DEF OInv, IInv, Orderly
<1>2. CASE Clear
  <2> DEFINE id == IF vbState = "active" THEN 1 ELSE 0
  <2>1. cm' = Cleared(cm, id) /\ id \in Nat /\ event'.op = "empty"
    BY <1>2, EventParts DEF Clear, Becomes, Cleared
  <2> HIDE DEF id
  <2>2. IsFresh(cm', id, Registered(cm))
    BY <1>1, <2>1, ClearEffect
  <2>3. Held(cm') = {} /\ Registered(cm') = Registered(cm)
    BY <1>1, <2>2, FreshHoldsNothing DEF IsFresh
  <2> QED
    BY <1>1, <2>1, <2>3, EmptyStep DEF Queue!Next
<1>3. CASE cm' = SetOpenCheckpointId(ResetManager(cm, vbState), 0) /\ event'.op = "empty"
  <2>1. PICK z, id : /\ ManagerOK(z) /\ z = ResetManager(cm, vbState)
                     /\ IsFresh(z, id, Registered(cm) \cup {Persistence})
    BY ResetEffect
  <2>2. Held(z) = {} /\ Registered(z) = Registered(cm)
    <3>1. Persistence \in Registered(cm)
      BY <1>1, Parts
    <3>2. Registered(cm) \cup {Persistence} = Registered(cm)
      BY <3>1
    <3>3. Registered(z) = Registered(cm) \cup {Persistence}
      BY <2>1 DEF IsFresh
    <3> QED
      BY <2>1, <3>2, <3>3, FreshHoldsNothing
  <2>3. IdIsSet(z, 0, cm')
    BY <1>3, <2>1, SetOpenIdEffect DEF ManagerOK
  <2>4. Held(cm') = {} /\ Registered(cm') = Registered(cm)
    BY <1>1, <2>1, <2>2, <2>3, IdSetSame DEF Same
  <2> QED
    BY <1>1, <1>3, <2>4, EmptyStep DEF Queue!Next
<1>4. CASE cm' = SetOpenCheckpointId(cm, 0) /\ event'.op = "none"
  <2>1. IdIsSet(cm, 0, cm')
    BY <1>1, <1>4, SetOpenIdEffect DEF ManagerOK
  <2>2. Reorganised(cm, cm')
    BY <1>1, <2>1, IdSetSame, SameIsReorganised
  <2> QED
    BY <1>1, <1>4, <2>2, ReorganiseStep DEF Queue!Next
<1>5. event' = Quiet => event'.op = "none"
  BY EventParts DEF Quiet
<1> QED
  BY <1>2, <1>3, <1>4, <1>5, EventParts DEF InitialVBucketStream, Becomes

\* A new manager is an empty queue.
LEMMA QueueInit ==
  ASSUME Init
  PROVE  Queue!Init
<1>1. PICK id \in {StartId(vbState)} \cup 1..MaxCheckpointId : cm = FreshManager(id)
  BY DEF Init
<1>2. id \in Nat /\ {Persistence} \in SUBSET Names
  BY BoundsAssumption, MetaKeysDiffer DEF StartId, MetaFact
<1>3. ManagerOK(cm)
  BY OrderInit DEF OInv, IInv
<1>4. IsFresh(cm, id, {Persistence})
  BY <1>1, <1>2, NewManagerEffect DEF FreshManager
<1>5. Held(cm) = {} /\ Registered(cm) = {Persistence}
  BY <1>3, <1>4, FreshHoldsNothing DEF IsFresh
<1>6. \A c \in Names : Todo(cm, c) = {}
  BY <1>3, <1>5, TodoIsHeld
<1>7. event.op = "none"
  BY EventParts DEF Init, Quiet
<1> QED
  BY <1>5, <1>6, <1>7 DEF Queue!Init

\* Every step of the manager is one of the queue or a stutter.
LEMMA QueueNext ==
  ASSUME OInv, [Next]_vars
  PROVE  [Queue!Next]_(Queue!vars)
<1>1. OInv'
  BY OrderNext
<1>2. IInv'
  BY <1>1 DEF OInv
<1>3. CASE UNCHANGED <<cm, event>>
  BY <1>3 DEF Queue!vars
<1>4. CASE Next
  <2>1. 0..MaxCheckpointId \subseteq Nat /\ 1..MaxCheckpointId \subseteq Nat
    BY BoundsAssumption
  <2>2. ASSUME NEW k \in Keys, QueueDirty(k)
        PROVE  Queue!Next
    BY <1>2, <2>2, WriteStep DEF Queue!Next
  <2>3. CASE \E t \in TapNames : \/ NextItem(t) \/ WaitAtCheckpointEnd(t)
                                 \/ RegisterTAPCursor(t) \/ RemoveTAPCursor(t)
    BY <1>2, <2>3, TapStep
  <2>4. CASE GetAllItemsForPersistence
    <3>1. ManagerOK(cm) /\ OrderOK(cm) /\ ManagerOK(cm') /\ Persistence \in Names
      BY <1>2, MetaKeysDiffer DEF OInv, IInv, Orderly, MetaFact
    <3>2. /\ cm' = TakeAllForPersistence(cm)
          /\ event'.op = "give" /\ event'.who = Persistence
          /\ event'.keys = Todo(cm, Persistence)
      BY <2>4, EventParts DEF GetAllItemsForPersistence, Becomes
    <3>3. Given(cm, cm', Persistence, Todo(cm, Persistence))
      BY <3>1, <3>2, TakeAllEffect, TakeGives
    <3>4. Queue!Give(Persistence)
      BY <3>1, <3>2, <3>3, GiveStep
    <3> QED
      BY <3>1, <3>4 DEF Queue!Next
  <2>5. CASE \/ RemoveClosedUnrefCheckpoints \/ CheckVBOpenCheckpoint \/ CreateNewCheckpoint
             \/ SetCheckpointExtension \/ CloseBackfill
             \/ \E id \in Nat : CheckpointStart(id) \/ CheckpointEnd(id)
             \/ \E to \in VBStates : SetVBucketState(to)
    <3>1. event' = Quiet
      BY <2>5 DEF RemoveClosedUnrefCheckpoints, CheckVBOpenCheckpoint, CreateNewCheckpoint,
         SetCheckpointExtension, CloseBackfill, CheckpointStart, CheckpointEnd,
         SetVBucketState
    <3> QED
      BY <1>1, <2>5, <3>1, QuietStep
  <2>6. CASE Clear \/ InitialVBucketStream
    BY <1>1, <2>6, EmptyingStep
  <2>7. CASE \/ QueueDirtyAborts \/ \E t \in TapNames : RegisterTAPCursorStrays(t)
             \/ \E id \in 0..MaxCheckpointId : CheckpointStartStrays(id)
    BY <1>3, <2>7 DEF QueueDirtyAborts, RegisterTAPCursorStrays, CheckpointStartStrays
  <2> QED
    BY <1>4, <2>1, <2>2, <2>3, <2>4, <2>5, <2>6, <2>7 DEF Next
<1> QED
  BY <1>3, <1>4 DEF vars
-----------------------------------------------------------------------------
\* No operation of the manager, and no interleaving of them, makes a cursor miss a
\* document that was queued while the cursor was registered: the checkpoint manager
\* implements the abstract queue, whatever the constants are.
THEOREM QueueImplemented == Spec => ImplementsQueue
<1>1. Init => Queue!Init
  BY QueueInit
<1>2. OInv /\ [Next]_vars => [Queue!Next]_(Queue!vars)
  BY QueueNext
<1> QED
  BY <1>1, <1>2, OrderInvariance, PTL DEF Spec, ImplementsQueue, Queue!Spec
=============================================================================
