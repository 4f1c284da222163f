-------------------------- MODULE TapProducer_proofs --------------------------
(***************************************************************************)
(* Proofs about TapProducer: the producer never leaves an item behind, the *)
(* copy can always be resumed from the checkpoint that it names, and a     *)
(* takeover activates a copy that has everything.                          *)
(*                                                                         *)
(* First come lemmas on sequences and on a function that is defined by     *)
(* recursion, as the rollback of the log is; then the inductive invariant  *)
(* IInv, with one part for each thing that the stream must keep right:     *)
(* the shape of the checkpoints (EntriesInv), the backfill and its tasks   *)
(* (BackfillOK), the numbers of the log, of the messages and of the        *)
(* answers (StreamOK), the counters (CountersOK), where each item is       *)
(* (CoveredOK), where the copy is in the checkpoints (PhasesOK, CopyOK,    *)
(* ConfirmedOK) and the end of a takeover (EndingOK, PendingOK).  Then     *)
(* come, for every action, what it does to the producer, that it keeps the *)
(* types, and that it keeps the invariant.  The theorems are at the end.   *)
(***************************************************************************)
EXTENDS TapProducer, FiniteSetTheorems, WellFoundedInduction, TLAPS

-----------------------------------------------------------------------------
(***************************************************************************)
(* Sequences and iteration.                                                *)
(***************************************************************************)
LEMMA AppendFacts ==
  ASSUME NEW S, NEW s \in Seq(S), NEW e \in S
  PROVE  /\ Append(s, e) \in Seq(S)
         /\ Len(Append(s, e)) = Len(s) + 1
         /\ \A i \in 1..Len(s) : Append(s, e)[i] = s[i]
         /\ Append(s, e)[Len(s) + 1] = e
         /\ ToSet(Append(s, e)) = ToSet(s) \cup {e}
<1> DEFINE t == Append(s, e)
<1>1. /\ t \in Seq(S) /\ Len(t) = Len(s) + 1
      /\ \A i \in 1..Len(s) : t[i] = s[i]
      /\ t[Len(s) + 1] = e
  OBVIOUS
<1>2. DOMAIN s = 1..Len(s) /\ DOMAIN t = 1..(Len(s) + 1) /\ Len(s) \in Nat
  BY <1>1
<1> HIDE DEF t
<1>3. ToSet(t) = ToSet(s) \cup {e}
  BY <1>1, <1>2 DEF ToSet
<1> QED
  BY <1>1, <1>3 DEF t

LEMMA HeadFacts ==
  ASSUME NEW S, NEW s \in Seq(S), s # <<>>
  PROVE  /\ Head(s) \in S /\ Tail(s) \in Seq(S)
         /\ Head(s) = s[1] /\ Len(s) \in Nat \ {0}
         /\ Len(Tail(s)) = Len(s) - 1
         /\ \A i \in 1..(Len(s) - 1) : Tail(s)[i] = s[i + 1]
         /\ ToSet(s) = {Head(s)} \cup ToSet(Tail(s))
<1> DEFINE t == Tail(s)
<1>1. /\ Head(s) \in S /\ t \in Seq(S) /\ Head(s) = s[1] /\ Len(s) \in Nat \ {0}
      /\ Len(t) = Len(s) - 1
      /\ \A i \in 1..(Len(s) - 1) : t[i] = s[i + 1]
  OBVIOUS
<1>2. DOMAIN s = 1..Len(s) /\ DOMAIN t = 1..(Len(s) - 1) /\ Len(s) \in Nat
  BY <1>1
<1> HIDE DEF t
<1>3. ASSUME NEW i \in 1..Len(s), i # 1
      PROVE  \E j \in DOMAIN t : s[i] = t[j]
  <2>1. i - 1 \in 1..(Len(s) - 1) /\ s[i] = t[i - 1]
    BY <1>1, <1>2, <1>3
  <2> QED
    BY <2>1, <1>2
<1>4. ToSet(s) \subseteq {Head(s)} \cup ToSet(t)
  BY <1>1, <1>2, <1>3 DEF ToSet
<1>5. ASSUME NEW j \in DOMAIN t
      PROVE  t[j] \in ToSet(s)
  <2>1. j + 1 \in DOMAIN s /\ t[j] = s[j + 1]
    BY <1>1, <1>2
  <2> QED
    BY <2>1 DEF ToSet
<1>6. {Head(s)} \cup ToSet(t) \subseteq ToSet(s)
  BY <1>1, <1>2, <1>5 DEF ToSet
<1> QED
  BY <1>1, <1>4, <1>6 DEF t

LEMMA ConcatFacts ==
  ASSUME NEW S, NEW s \in Seq(S), NEW t \in Seq(S)
  PROVE  /\ s \o t \in Seq(S)
         /\ Len(s \o t) = Len(s) + Len(t)
         /\ \A i \in 1..Len(s) : (s \o t)[i] = s[i]
         /\ \A i \in 1..Len(t) : (s \o t)[Len(s) + i] = t[i]
         /\ ToSet(s \o t) = ToSet(s) \cup ToSet(t)
<1> DEFINE r == s \o t
<1>1. /\ r \in Seq(S) /\ Len(r) = Len(s) + Len(t)
      /\ \A i \in 1..Len(s) : r[i] = s[i]
      /\ \A i \in 1..Len(t) : r[Len(s) + i] = t[i]
      /\ \A i \in 1..Len(r) : i > Len(s) => r[i] = t[i - Len(s)]
  OBVIOUS
<1>2. /\ DOMAIN s = 1..Len(s) /\ DOMAIN t = 1..Len(t) /\ DOMAIN r = 1..Len(r)
      /\ Len(s) \in Nat /\ Len(t) \in Nat
  BY <1>1
<1> HIDE DEF r
<1>3. ASSUME NEW i \in DOMAIN r
      PROVE  r[i] \in ToSet(s) \cup ToSet(t)
  <2>1. CASE i <= Len(s)
    BY <2>1, <1>1, <1>2 DEF ToSet
  <2>2. CASE i > Len(s)
    <3>1. i - Len(s) \in DOMAIN t /\ r[i] = t[i - Len(s)]
      BY <2>2, <1>1, <1>2
    <3> QED
      BY <3>1 DEF ToSet
  <2> QED
    BY <2>1, <2>2, <1>2
<1>4. ASSUME NEW i \in DOMAIN s
      PROVE  s[i] \in ToSet(r)
  <2>1. i \in DOMAIN r /\ s[i] = r[i]
    BY <1>1, <1>2
  <2> QED
    BY <2>1 DEF ToSet
<1>5. ASSUME NEW i \in DOMAIN t
      PROVE  t[i] \in ToSet(r)
  <2>1. Len(s) + i \in DOMAIN r /\ t[i] = r[Len(s) + i]
    BY <1>1, <1>2
  <2> QED
    BY <2>1 DEF ToSet
<1>6. ToSet(r) = ToSet(s) \cup ToSet(t)
  BY <1>3, <1>4, <1>5 DEF ToSet
<1> QED
  BY <1>1, <1>6 DEF r

LEMMA SubSeqFacts ==
  ASSUME NEW S, NEW s \in Seq(S), NEW i \in 1..Len(s)
  PROVE  /\ SubSeq(s, i + 1, Len(s)) \in Seq(S)
         /\ Len(SubSeq(s, i + 1, Len(s))) = Len(s) - i
         /\ \A j \in 1..(Len(s) - i) : SubSeq(s, i + 1, Len(s))[j] = s[i + j]
         /\ ToSet(SubSeq(s, i + 1, Len(s))) = {s[j] : j \in (i + 1)..Len(s)}
<1> DEFINE t == SubSeq(s, i + 1, Len(s))
<1>0. Len(s) \in Nat /\ i \in Nat
  OBVIOUS
<1>1. /\ t \in Seq(S) /\ Len(t) = Len(s) - i
      /\ \A j \in 1..(Len(s) - i) : t[j] = s[i + j]
  BY <1>0
<1>2. DOMAIN t = 1..(Len(s) - i)
  BY <1>1
<1> HIDE DEF t
<1>3. ASSUME NEW j \in DOMAIN t
      PROVE  t[j] \in {s[k] : k \in (i + 1)..Len(s)}
  <2>1. i + j \in (i + 1)..Len(s) /\ t[j] = s[i + j]
    BY <1>0, <1>1, <1>2
  <2> QED
    BY <2>1
<1>4. ASSUME NEW k \in (i + 1)..Len(s)
      PROVE  s[k] \in ToSet(t)
  <2>1. k - i \in DOMAIN t /\ s[k] = t[k - i]
    BY <1>0, <1>1, <1>2
  <2> QED
    BY <2>1 DEF ToSet
<1>5. ToSet(t) = {s[j] : j \in (i + 1)..Len(s)}
  BY <1>3, <1>4 DEF ToSet
<1> QED
  BY <1>1, <1>5 DEF t

LEMMA RemovedFacts ==
  ASSUME NEW S, NEW s \in Seq(S), NEW i \in 1..Len(s)
  PROVE  LET t == SubSeq(s, 1, i - 1) \o SubSeq(s, i + 1, Len(s))
         IN  /\ t \in Seq(S) /\ Len(t) = Len(s) - 1
             /\ \A j \in 1..(i - 1) : t[j] = s[j]
             /\ \A j \in i..(Len(s) - 1) : t[j] = s[j + 1]
             /\ ToSet(t) = {s[j] : j \in (1..Len(s)) \ {i}}
<1> DEFINE a == SubSeq(s, 1, i - 1)
           b == SubSeq(s, i + 1, Len(s))
           t == a \o b
<1>0. Len(s) \in Nat /\ i \in Nat
  OBVIOUS
<1>1. /\ a \in Seq(S) /\ Len(a) = i - 1 /\ \A j \in 1..(i - 1) : a[j] = s[j]
  BY <1>0
<1>2. /\ b \in Seq(S) /\ Len(b) = Len(s) - i
      /\ \A j \in 1..(Len(s) - i) : b[j] = s[i + j]
  BY <1>0, SubSeqFacts
<1> HIDE DEF a, b
<1>3. /\ t \in Seq(S) /\ Len(t) = Len(a) + Len(b)
      /\ \A j \in 1..Len(a) : t[j] = a[j]
      /\ \A j \in 1..Len(b) : t[Len(a) + j] = b[j]
  <2>1. a \in Seq(S) /\ b \in Seq(S)
    BY <1>1, <1>2
  <2> QED
    BY <2>1, ConcatFacts
<1> HIDE DEF t
<1>4. Len(t) = Len(s) - 1 /\ \A j \in 1..(i - 1) : t[j] = s[j]
  BY <1>0, <1>1, <1>2, <1>3
<1>5. ASSUME NEW j \in i..(Len(s) - 1)
      PROVE  t[j] = s[j + 1]
  <2>1. /\ j - i + 1 \in 1..(Len(s) - i)
        /\ (i - 1) + (j - i + 1) = j /\ i + (j - i + 1) = j + 1
    BY <1>0
  <2> DEFINE d == j - i + 1
  <2>2. t[(i - 1) + d] = b[d] /\ b[d] = s[i + d]
    BY <2>1, <1>1, <1>2, <1>3
  <2> QED
    BY <2>1, <2>2
<1>6. DOMAIN t = 1..(Len(s) - 1)
  BY <1>3, <1>4
<1>7. ToSet(t) \subseteq {s[j] : j \in (1..Len(s)) \ {i}}
  <2> SUFFICES ASSUME NEW j \in 1..(Len(s) - 1)
               PROVE  t[j] \in {s[k] : k \in (1..Len(s)) \ {i}}
    BY <1>6 DEF ToSet
  <2>1. CASE j <= i - 1
    BY <2>1, <1>0, <1>4
  <2>2. CASE j > i - 1
    BY <2>2, <1>0, <1>5
  <2> QED
    BY <2>1, <2>2, <1>0
<1>8. ASSUME NEW k \in (1..Len(s)) \ {i}
      PROVE  s[k] \in ToSet(t)
  <2>1. CASE k < i
    <3>1. k \in DOMAIN t /\ t[k] = s[k]
      BY <2>1, <1>0, <1>4, <1>6
    <3> QED
      BY <3>1 DEF ToSet
  <2>2. CASE k > i
    <3>1. k - 1 \in DOMAIN t /\ k - 1 \in i..(Len(s) - 1) /\ (k - 1) + 1 = k
      BY <2>2, <1>0, <1>6
    <3>2. t[k - 1] = s[k]
      BY <3>1, <1>5
    <3> QED
      BY <3>1, <3>2 DEF ToSet
  <2> QED
    BY <2>1, <2>2, <1>0
<1>9. ToSet(t) = {s[j] : j \in (1..Len(s)) \ {i}}
  BY <1>7, <1>8
<1> QED
  BY <1>3, <1>4, <1>5, <1>9 DEF t, a, b

LEMMA NatLeast ==
  ASSUME NEW T, T \subseteq Nat, T # {}
  PROVE  \E x \in T : \A y \in T : x <= y
<1>1. PICK x \in T : \A y \in T : <<y, x>> \notin OpToRel(<, Nat)
  BY NatLessThanWellFounded, WFMin
<1>2. \A y \in T : ~(y < x)
  BY <1>1 DEF OpToRel
<1> QED
  BY <1>2

Iteration(f, S, k, a, step) ==
  f \in [0..k -> S] /\ f[0] = a /\ \A i \in 1..k : f[i] = step[i][f[i - 1]]

LEMMA IterationExists ==
  ASSUME NEW S, NEW n \in Nat, NEW a \in S, NEW step \in [1..n -> [S -> S]]
  PROVE  \E f : Iteration(f, S, n, a, step)
<1> DEFINE T == {k \in 0..n : \A f : ~Iteration(f, S, k, a, step)}
<1>1. ASSUME NEW k \in T, \A y \in T : k <= y
      PROVE  FALSE
  <2>1. k \in 0..n /\ \A f : ~Iteration(f, S, k, a, step)
    OBVIOUS
  <2>2. CASE k = 0
    <3> DEFINE g == [i \in 0..0 |-> a]
    <3>1. g \in [0..0 -> S] /\ g[0] = a
      OBVIOUS
    <3>2. Iteration(g, S, 0, a, step)
      BY <3>1 DEF Iteration
    <3> QED
      BY <3>2, <2>1, <2>2
  <2>3. CASE k # 0
    <3>1. k - 1 \in 0..n /\ k \in 1..n /\ k - 1 < k /\ k \in Nat
      BY <2>1, <2>3
    <3>2. k - 1 \notin T
      BY <1>1, <3>1
    <3>3. PICK f : Iteration(f, S, k - 1, a, step)
      BY <3>1, <3>2
    <3> HIDE DEF T
    <3>4. /\ f \in [0..(k - 1) -> S] /\ f[0] = a
          /\ \A i \in 1..(k - 1) : f[i] = step[i][f[i - 1]]
      BY <3>3 DEF Iteration
    <3>5. step[k] \in [S -> S] /\ f[k - 1] \in S
      BY <3>1, <3>4
    <3> DEFINE g == [i \in 0..k |-> IF i = k THEN step[k][f[k - 1]] ELSE f[i]]
    <3>6. \A i \in 0..k : i # k => i \in 0..(k - 1)
      BY <3>1
    <3>7. g \in [0..k -> S]
      BY <3>4, <3>5, <3>6
    <3>8. g[0] = a /\ g[k] = step[k][f[k - 1]] /\ \A i \in 0..(k - 1) : g[i] = f[i]
      BY <2>3, <3>1, <3>4
    <3> HIDE DEF g
    <3>9. ASSUME NEW i \in 1..k
          PROVE  g[i] = step[i][g[i - 1]]
      <4>1. i - 1 \in 0..(k - 1) /\ (i # k => i \in 0..(k - 1) /\ i \in 1..(k - 1))
        BY <3>1
      <4> QED
        BY <4>1, <3>4, <3>8
    <3>10. Iteration(g, S, k, a, step)
      BY <3>7, <3>8, <3>9 DEF Iteration
    <3> QED
      BY <3>10, <2>1
  <2> QED
    BY <2>2, <2>3
<1>2. T \subseteq Nat
  OBVIOUS
<1>3. T = {}
  <2> HIDE DEF T
  <2> QED
    BY <1>1, <1>2, NatLeast
<1>4. n \in 0..n
  OBVIOUS
<1> QED
  BY <1>3, <1>4

HighEvents == Opaques \cup {"set_pending"}
CheckpointEvents == {"start", "end"}
Events == HighEvents \cup CheckpointEvents \cup {"set_active", "item"}

EntryRec == [ev : {"dummy", "start", "item", "end"}, chk : Nat, n : Nat]
MessageRec == [ev : CheckpointEvents, n : Nat]
LogRec == [seqno : Nat, ev : Events, n : Nat]
SentRec == [seqno : Nat, ev : Events, n : Nat, ack : BOOLEAN]
AnswerRec == [seqno : Nat, ok : BOOLEAN]
TaskRec == [own : BOOLEAN, visited : BOOLEAN, completed : BOOLEAN, disk : BOOLEAN,
            mem : Seq(Nat), cold : Seq(Nat)]
TapRec ==
  [exists : BOOLEAN, connected : BOOLEAN, reconnected : BOOLEAN, disconnect : BOOLEAN,
   suspended : BOOLEAN,
   high : Seq(HighEvents), low : Seq({"set_active"}), checkpointMsgs : Seq(MessageRec),
   queue : Seq(Nat), fetched : Seq(Nat), jobs : Seq(Nat), log : Seq(LogRec),
   seqno : Nat, seqnoReceived : Int,
   isLastAckSucceed : BOOLEAN, isSeqNumRotated : BOOLEAN,
   opaqueMsgCounter : Int, checkpointMsgCounter : Int,
   lastSeqNum : Nat, lastItem : BOOLEAN, atEnd : BOOLEAN,
   doRunBackfill : BOOLEAN, backfillCompleted : BOOLEAN, pendingBackfill : Nat,
   diskBackfill : Nat, backfillVBucket : BOOLEAN, takeOverCompletionPhase : BOOLEAN,
   checked : Nat]

Increasing(s) == \A i, j \in DOMAIN s : i < j => s[i].seqno < s[j].seqno

\* The numbers of what the log has of the events evs behind its i-th element.
Behind(log, i, evs) == {log[j].seqno : j \in {k \in (i + 1)..Len(log) : log[k].ev \in evs}}

\* What the producer keeps when its log is sent again.
SameStream(t, u) ==
  /\ u.exists = t.exists /\ u.connected = t.connected
  /\ u.fetched = t.fetched /\ u.jobs = t.jobs
  /\ u.seqno = t.seqno /\ u.isSeqNumRotated = t.isSeqNumRotated
SameFlags(t, u) ==
  /\ u.doRunBackfill = t.doRunBackfill /\ u.backfillCompleted = t.backfillCompleted
  /\ u.backfillVBucket = t.backfillVBucket
  /\ u.pendingBackfill = t.pendingBackfill /\ u.diskBackfill = t.diskBackfill

LEMMA HighestFacts == Highest \in Nat
BY BoundsAssumption DEF Highest

LEMMA ImageFinite ==
  ASSUME NEW K, IsFiniteSet(K), NEW I, NEW f \in [K -> I],
         \A y \in I : \E x \in K : f[x] = y
  PROVE  IsFiniteSet(I)
<1>1. f \in Surjection(K, I)
  BY DEF Surjection
<1> QED
  BY <1>1, FS_Surjection

LEMMA BehindFinite ==
  ASSUME NEW log \in Seq(LogRec), NEW i \in 0..Len(log), NEW evs
  PROVE  IsFiniteSet(Behind(log, i, evs)) /\ Behind(log, Len(log), evs) = {}
<1> DEFINE K == {k \in (i + 1)..Len(log) : log[k].ev \in evs}
           f == [k \in K |-> log[k].seqno]
<1>1. IsFiniteSet((i + 1)..Len(log))
  BY FS_Interval
<1>2. IsFiniteSet(K)
  BY <1>1, FS_Subset
<1>3. f \in [K -> Behind(log, i, evs)] /\ \A y \in Behind(log, i, evs) : \E k \in K : f[k] = y
  BY DEF Behind
<1>4. IsFiniteSet(Behind(log, i, evs))
  <2> HIDE DEF K, f
  <2> QED
    BY <1>2, <1>3, ImageFinite
<1>5. \A k : k \notin (Len(log) + 1)..Len(log)
  OBVIOUS
<1>6. Behind(log, Len(log), evs) = {}
  BY <1>5 DEF Behind
<1> QED
  BY <1>4, <1>6

LEMMA BehindStep ==
  ASSUME NEW log \in Seq(LogRec), NEW i \in 1..Len(log), NEW evs, Increasing(log)
  PROVE  Cardinality(Behind(log, i - 1, evs)) =
           Cardinality(Behind(log, i, evs)) + IF log[i].ev \in evs THEN 1 ELSE 0
<1> DEFINE A == Behind(log, i - 1, evs)
           B == Behind(log, i, evs)
<1> SUFFICES Cardinality(A) = Cardinality(B) + IF log[i].ev \in evs THEN 1 ELSE 0
  OBVIOUS
<1>1. \A k : k \in i..Len(log) <=> k = i \/ k \in (i + 1)..Len(log)
  OBVIOUS
<1>2. (i - 1) + 1 = i
  OBVIOUS
<1>3. A = IF log[i].ev \in evs THEN B \cup {log[i].seqno} ELSE B
  BY <1>1, <1>2 DEF Behind
<1>4. \A k \in (i + 1)..Len(log) : log[k].seqno # log[i].seqno
  <2> SUFFICES ASSUME NEW k \in (i + 1)..Len(log)
               PROVE  log[k].seqno # log[i].seqno
    OBVIOUS
  <2>1. k \in DOMAIN log /\ i \in DOMAIN log /\ i < k
    OBVIOUS
  <2>2. log[k] \in LogRec /\ log[i] \in LogRec
    BY <2>1
  <2>3. log[k].seqno \in Nat /\ log[i].seqno \in Nat
    BY <2>2 DEF LogRec
  <2>4. log[i].seqno < log[k].seqno
    BY <2>1 DEF Increasing
  <2> QED
    BY <2>3, <2>4
<1>5. log[i].seqno \notin B
  BY <1>4 DEF Behind
<1>6. i \in 0..Len(log)
  OBVIOUS
<1>7. IsFiniteSet(B)
  BY <1>6, BehindFinite
<1> HIDE DEF A, B
<1>8. CASE log[i].ev \in evs
  <2>1. A = B \cup {log[i].seqno}
    BY <1>3, <1>8, Zenon
  <2>2. Cardinality(A) = Cardinality(B) + 1
    BY <1>5, <1>7, <2>1, FS_AddElement
  <2> QED
    BY <1>8, <2>2
<1>9. CASE log[i].ev \notin evs
  <2>1. Cardinality(B) \in Nat
    BY <1>7, FS_CardinalityType
  <2> QED
    BY <1>3, <1>9, <2>1
<1> QED
  BY <1>8, <1>9

LEMMA UncountedFacts ==
  ASSUME NEW t \in TapRec, NEW e \in LogRec
  PROVE  /\ Uncounted(t, e) \in TapRec
         /\ SameStream(t, Uncounted(t, e)) /\ SameFlags(t, Uncounted(t, e))
         /\ Uncounted(t, e).high = t.high /\ Uncounted(t, e).low = t.low
         /\ Uncounted(t, e).checkpointMsgs = t.checkpointMsgs
         /\ Uncounted(t, e).queue = t.queue /\ Uncounted(t, e).log = t.log
         /\ Uncounted(t, e).seqnoReceived = t.seqnoReceived
         /\ Uncounted(t, e).isLastAckSucceed = t.isLastAckSucceed
         /\ Uncounted(t, e).lastSeqNum = t.lastSeqNum
         /\ Uncounted(t, e).opaqueMsgCounter =
              t.opaqueMsgCounter - (IF e.ev \in Opaques THEN 1 ELSE 0)
         /\ Uncounted(t, e).checkpointMsgCounter =
              t.checkpointMsgCounter - (IF e.ev \in CheckpointEvents THEN 1 ELSE 0)
<1> DEFINE x == t.opaqueMsgCounter - (IF e.ev \in Opaques THEN 1 ELSE 0)
           y == t.checkpointMsgCounter - (IF e.ev \in CheckpointEvents THEN 1 ELSE 0)
           c == [t EXCEPT !.opaqueMsgCounter = x, !.checkpointMsgCounter = y]
<1>1. Uncounted(t, e) = c
  BY DEF Uncounted, TapRec, CheckpointEvents
<1>2. x \in Int /\ y \in Int
  BY SMTT(30) DEF TapRec
<1> HIDE DEF x, y
<1>3. c \in TapRec
  BY <1>2 DEF TapRec
<1>4. /\ SameStream(t, c) /\ SameFlags(t, c)
      /\ c.high = t.high /\ c.low = t.low /\ c.checkpointMsgs = t.checkpointMsgs
      /\ c.queue = t.queue /\ c.log = t.log
      /\ c.seqnoReceived = t.seqnoReceived /\ c.isLastAckSucceed = t.isLastAckSucceed
      /\ c.lastSeqNum = t.lastSeqNum
      /\ c.opaqueMsgCounter = x /\ c.checkpointMsgCounter = y
  BY DEF TapRec, SameStream, SameFlags
<1> QED
  BY <1>1, <1>3, <1>4 DEF x, y

\* u is t with the element e of its log on its way again.
Requeues(t, e, u) ==
  /\ u \in TapRec /\ SameStream(t, u) /\ SameFlags(t, u)
  /\ u.log = t.log /\ u.seqnoReceived = t.seqnoReceived
  /\ u.isLastAckSucceed = t.isLastAckSucceed
  /\ u.high = IF e.ev \in HighEvents THEN Append(t.high, e.ev) ELSE t.high
  /\ u.checkpointMsgs = IF e.ev \in CheckpointEvents
                        THEN Append(t.checkpointMsgs, Message(e.ev, e.n)) ELSE t.checkpointMsgs
  /\ u.queue = IF e.ev = "item" THEN Append(t.queue, e.n) ELSE t.queue
  /\ u.opaqueMsgCounter = t.opaqueMsgCounter - (IF e.ev \in Opaques THEN 1 ELSE 0)
  /\ u.checkpointMsgCounter =
       t.checkpointMsgCounter - (IF e.ev \in CheckpointEvents THEN 1 ELSE 0)
  /\ u.lastSeqNum = IF e.ev = "item" THEN Highest ELSE t.lastSeqNum

LEMMA RequeueFacts ==
  ASSUME NEW t \in TapRec, NEW e \in LogRec
  PROVE  Requeues(t, e, Requeued(Uncounted(t, e), e))
<1> DEFINE c == Uncounted(t, e)
           u == Requeued(c, e)
<1>1. e.ev \in Events /\ e.n \in Nat
  BY DEF LogRec
<1>2. /\ c \in TapRec /\ SameStream(t, c) /\ SameFlags(t, c)
      /\ c.high = t.high /\ c.low = t.low /\ c.checkpointMsgs = t.checkpointMsgs
      /\ c.queue = t.queue /\ c.log = t.log
      /\ c.seqnoReceived = t.seqnoReceived /\ c.isLastAckSucceed = t.isLastAckSucceed
      /\ c.lastSeqNum = t.lastSeqNum
      /\ c.opaqueMsgCounter = t.opaqueMsgCounter - (IF e.ev \in Opaques THEN 1 ELSE 0)
      /\ c.checkpointMsgCounter =
           t.checkpointMsgCounter - (IF e.ev \in CheckpointEvents THEN 1 ELSE 0)
  BY UncountedFacts
<1> SUFFICES Requeues(t, e, u)
  OBVIOUS
<1> HIDE DEF c
<1>3. CASE e.ev \in HighEvents
  <2>1. u = [c EXCEPT !.high = Append(@, e.ev)]
    BY <1>3 DEF Requeued, HighEvents, Opaques
  <2>2. Append(c.high, e.ev) \in Seq(HighEvents)
    BY <1>2, <1>3 DEF TapRec
  <2>3. e.ev \notin CheckpointEvents /\ e.ev # "item"
    BY <1>3 DEF HighEvents, Opaques, CheckpointEvents
  <2>4. u \in TapRec
    BY <1>2, <2>1, <2>2, ZenonT(60) DEF TapRec
  <2>5. /\ SameStream(c, u) /\ SameFlags(c, u) /\ u.high = Append(c.high, e.ev)
        /\ u.checkpointMsgs = c.checkpointMsgs
        /\ u.queue = c.queue /\ u.log = c.log
        /\ u.seqnoReceived = c.seqnoReceived /\ u.isLastAckSucceed = c.isLastAckSucceed
        /\ u.lastSeqNum = c.lastSeqNum /\ u.opaqueMsgCounter = c.opaqueMsgCounter
        /\ u.checkpointMsgCounter = c.checkpointMsgCounter
    BY <1>2, <2>1 DEF TapRec, SameStream, SameFlags
  <2> HIDE DEF u
  <2> QED
    BY <1>2, <1>3, <2>3, <2>4, <2>5 DEF SameStream, SameFlags, Requeues
<1>4. CASE e.ev = "set_active"
  <2>1. u = [c EXCEPT !.low = Append(@, e.ev)]
    BY <1>4 DEF Requeued, Opaques
  <2>2. Append(c.low, e.ev) \in Seq({"set_active"})
    BY <1>2, <1>4 DEF TapRec
  <2>3. /\ e.ev \notin CheckpointEvents /\ e.ev # "item"
        /\ e.ev \notin HighEvents /\ e.ev \notin Opaques
    BY <1>4 DEF HighEvents, Opaques, CheckpointEvents
  <2>4. u \in TapRec
    BY <1>2, <2>1, <2>2, ZenonT(60) DEF TapRec
  <2>5. /\ SameStream(c, u) /\ SameFlags(c, u) /\ u.high = c.high
        /\ u.checkpointMsgs = c.checkpointMsgs
        /\ u.queue = c.queue /\ u.log = c.log
        /\ u.seqnoReceived = c.seqnoReceived /\ u.isLastAckSucceed = c.isLastAckSucceed
        /\ u.lastSeqNum = c.lastSeqNum /\ u.opaqueMsgCounter = c.opaqueMsgCounter
        /\ u.checkpointMsgCounter = c.checkpointMsgCounter
    BY <1>2, <2>1 DEF TapRec, SameStream, SameFlags
  <2> HIDE DEF u
  <2> QED
    BY <1>2, <2>3, <2>4, <2>5 DEF SameStream, SameFlags, Requeues
<1>5. CASE e.ev \in CheckpointEvents
  <2>1. u = [c EXCEPT !.checkpointMsgs = Append(@, Message(e.ev, e.n))]
    BY <1>5 DEF Requeued, Opaques, CheckpointEvents
  <2>2. Message(e.ev, e.n) \in MessageRec
    BY <1>1, <1>5 DEF Message, MessageRec
  <2>3. Append(c.checkpointMsgs, Message(e.ev, e.n)) \in Seq(MessageRec)
    BY <1>2, <2>2 DEF TapRec
  <2>4. e.ev # "item" /\ e.ev \notin HighEvents
    BY <1>5 DEF HighEvents, Opaques, CheckpointEvents
  <2>5. u \in TapRec
    BY <1>2, <2>1, <2>3, ZenonT(60) DEF TapRec
  <2>6. /\ SameStream(c, u) /\ SameFlags(c, u) /\ u.high = c.high
        /\ u.checkpointMsgs = Append(c.checkpointMsgs, Message(e.ev, e.n))
        /\ u.queue = c.queue /\ u.log = c.log
        /\ u.seqnoReceived = c.seqnoReceived /\ u.isLastAckSucceed = c.isLastAckSucceed
        /\ u.lastSeqNum = c.lastSeqNum /\ u.opaqueMsgCounter = c.opaqueMsgCounter
        /\ u.checkpointMsgCounter = c.checkpointMsgCounter
    BY <1>2, <2>1 DEF TapRec, SameStream, SameFlags
  <2> HIDE DEF u
  <2> QED
    BY <1>2, <1>5, <2>4, <2>5, <2>6 DEF SameStream, SameFlags, Requeues
<1>6. CASE e.ev = "item"
  <2>1. u = [c EXCEPT !.queue = Append(@, e.n), !.lastSeqNum = Highest]
    BY <1>6 DEF Requeued, Opaques
  <2>2. Append(c.queue, e.n) \in Seq(Nat)
    BY <1>1, <1>2 DEF TapRec
  <2>3. e.ev \notin CheckpointEvents /\ e.ev \notin HighEvents
    BY <1>6 DEF HighEvents, Opaques, CheckpointEvents
  <2>4. u \in TapRec
    BY <1>2, <2>1, <2>2, HighestFacts, ZenonT(60) DEF TapRec
  <2>5. /\ SameStream(c, u) /\ SameFlags(c, u) /\ u.high = c.high
        /\ u.checkpointMsgs = c.checkpointMsgs
        /\ u.queue = Append(c.queue, e.n) /\ u.log = c.log
        /\ u.seqnoReceived = c.seqnoReceived /\ u.isLastAckSucceed = c.isLastAckSucceed
        /\ u.lastSeqNum = Highest /\ u.opaqueMsgCounter = c.opaqueMsgCounter
        /\ u.checkpointMsgCounter = c.checkpointMsgCounter
    BY <1>2, <2>1 DEF TapRec, SameStream, SameFlags
  <2> HIDE DEF u
  <2> QED
    BY <1>2, <1>6, <2>3, <2>4, <2>5 DEF SameStream, SameFlags, Requeues
<1> QED
  BY <1>1, <1>3, <1>4, <1>5, <1>6 DEF Events

\* u is t with the first i elements of its log on their way again.
RollsTo(t, i, u) ==
  /\ u \in TapRec /\ SameStream(t, u) /\ SameFlags(t, u) /\ u.log = t.log
  /\ u.isLastAckSucceed = t.isLastAckSucceed
  /\ \A x : x \in ToSet(u.high) <=>
              (x \in ToSet(t.high)
               \/ \E j \in 1..i : t.log[j].ev \in HighEvents /\ x = t.log[j].ev)
  /\ \A x : x \in ToSet(u.queue) <=>
              (x \in ToSet(t.queue) \/ \E j \in 1..i : t.log[j].ev = "item" /\ x = t.log[j].n)
  /\ \A x : x \in ToSet(u.checkpointMsgs) <=>
              (x \in ToSet(t.checkpointMsgs)
               \/ \E j \in 1..i : /\ t.log[j].ev \in CheckpointEvents
                                  /\ x = Message(t.log[j].ev, t.log[j].n))
  /\ Len(u.checkpointMsgs) + u.checkpointMsgCounter =
       Len(t.checkpointMsgs) + t.checkpointMsgCounter
  /\ u.opaqueMsgCounter =
       t.opaqueMsgCounter - Cardinality(Behind(t.log, 0, Opaques))
                          + Cardinality(Behind(t.log, i, Opaques))
  /\ u.checkpointMsgCounter =
       t.checkpointMsgCounter - Cardinality(Behind(t.log, 0, CheckpointEvents))
                              + Cardinality(Behind(t.log, i, CheckpointEvents))

LEMMA RollsToStart ==
  ASSUME NEW t \in TapRec
  PROVE  RollsTo(t, 0, t)
<1>1. \A j : j \notin 1..0
  OBVIOUS
<1>2. SameStream(t, t) /\ SameFlags(t, t)
  BY DEF SameStream, SameFlags
<1>3. t.log \in Seq(LogRec) /\ t.opaqueMsgCounter \in Int /\ t.checkpointMsgCounter \in Int
  BY DEF TapRec
<1>4. /\ Cardinality(Behind(t.log, 0, Opaques)) \in Nat
      /\ Cardinality(Behind(t.log, 0, CheckpointEvents)) \in Nat
  <2>1. 0 \in 0..Len(t.log)
    BY <1>3
  <2> QED
    BY <1>3, <2>1, BehindFinite, FS_CardinalityType
<1>5. /\ t.opaqueMsgCounter = t.opaqueMsgCounter - Cardinality(Behind(t.log, 0, Opaques))
                                + Cardinality(Behind(t.log, 0, Opaques))
      /\ t.checkpointMsgCounter =
           t.checkpointMsgCounter - Cardinality(Behind(t.log, 0, CheckpointEvents))
                                  + Cardinality(Behind(t.log, 0, CheckpointEvents))
  BY <1>3, <1>4
<1> QED
  BY <1>1, <1>2, <1>5 DEF RollsTo

LEMMA RollsToNext ==
  ASSUME NEW t \in TapRec, Increasing(t.log), NEW i \in 1..Len(t.log), NEW v, RollsTo(t, i - 1, v)
  PROVE  RollsTo(t, i, Requeued(Uncounted(v, t.log[i]), t.log[i]))
<1> DEFINE e == t.log[i]
           u == Requeued(Uncounted(v, e), e)
<1> SUFFICES RollsTo(t, i, u)
  OBVIOUS
<1>1. /\ t.log \in Seq(LogRec) /\ e \in LogRec
      /\ t.opaqueMsgCounter \in Int /\ t.checkpointMsgCounter \in Int
      /\ t.checkpointMsgs \in Seq(MessageRec)
  <2>1. /\ t.log \in Seq(LogRec)
        /\ t.opaqueMsgCounter \in Int /\ t.checkpointMsgCounter \in Int
        /\ t.checkpointMsgs \in Seq(MessageRec)
    BY DEF TapRec
  <2> QED
    BY <2>1
<1>2. /\ v \in TapRec /\ SameStream(t, v) /\ SameFlags(t, v) /\ v.log = t.log
      /\ v.isLastAckSucceed = t.isLastAckSucceed
      /\ Len(v.checkpointMsgs) + v.checkpointMsgCounter =
           Len(t.checkpointMsgs) + t.checkpointMsgCounter
      /\ v.opaqueMsgCounter =
           t.opaqueMsgCounter - Cardinality(Behind(t.log, 0, Opaques))
                              + Cardinality(Behind(t.log, i - 1, Opaques))
      /\ v.checkpointMsgCounter =
           t.checkpointMsgCounter - Cardinality(Behind(t.log, 0, CheckpointEvents))
                                  + Cardinality(Behind(t.log, i - 1, CheckpointEvents))
  BY DEF RollsTo
<1>3. \A x : x \in ToSet(v.high) <=>
               (x \in ToSet(t.high)
                \/ \E j \in 1..(i - 1) : t.log[j].ev \in HighEvents /\ x = t.log[j].ev)
  BY DEF RollsTo
<1>4. \A x : x \in ToSet(v.queue) <=>
              (x \in ToSet(t.queue) \/ \E j \in 1..(i - 1) : t.log[j].ev = "item" /\ x = t.log[j].n)
  BY DEF RollsTo
<1>5. \A x : x \in ToSet(v.checkpointMsgs) <=>
              (x \in ToSet(t.checkpointMsgs)
               \/ \E j \in 1..(i - 1) : /\ t.log[j].ev \in CheckpointEvents
                                        /\ x = Message(t.log[j].ev, t.log[j].n))
  BY DEF RollsTo
<1>6. Requeues(v, e, u)
  BY <1>1, <1>2, RequeueFacts
<1> HIDE DEF u
<1>7. \A j : j \in 1..i <=> (j \in 1..(i - 1) \/ j = i)
  OBVIOUS
<1>8. /\ v.high \in Seq(HighEvents) /\ v.queue \in Seq(Nat) /\ v.checkpointMsgs \in Seq(MessageRec)
      /\ e.ev \in Events /\ e.n \in Nat
      /\ v.checkpointMsgCounter \in Int
  BY <1>1, <1>2 DEF TapRec, LogRec
<1>9. \A x : x \in ToSet(u.high) <=>
               (x \in ToSet(t.high)
                \/ \E j \in 1..i : t.log[j].ev \in HighEvents /\ x = t.log[j].ev)
  <2> SUFFICES ASSUME NEW x
               PROVE  x \in ToSet(u.high) <=>
                        (x \in ToSet(t.high)
                         \/ \E j \in 1..i : t.log[j].ev \in HighEvents /\ x = t.log[j].ev)
    OBVIOUS
  <2>1. x \in ToSet(u.high) <=> x \in ToSet(v.high) \/ (e.ev \in HighEvents /\ x = e.ev)
    <3>1. CASE e.ev \in HighEvents
      <4>1. u.high = Append(v.high, e.ev)
        BY <1>6, <3>1 DEF Requeues
      <4>2. v.high \in Seq(HighEvents) /\ e.ev \in HighEvents
        BY <1>8, <3>1
      <4>3. ToSet(u.high) = ToSet(v.high) \cup {e.ev}
        BY <4>1, <4>2, AppendFacts
      <4> QED
        BY <3>1, <4>3
    <3>2. CASE e.ev \notin HighEvents
      <4>1. u.high = v.high
        BY <1>6, <3>2 DEF Requeues
      <4> QED
        BY <3>2, <4>1
    <3> QED
      BY <3>1, <3>2
  <2>2. (\E j \in 1..i : t.log[j].ev \in HighEvents /\ x = t.log[j].ev) <=>
          \/ \E j \in 1..(i - 1) : t.log[j].ev \in HighEvents /\ x = t.log[j].ev
          \/ e.ev \in HighEvents /\ x = e.ev
    BY <1>7
  <2> QED
    BY <1>3, <2>1, <2>2
<1>10. \A x : x \in ToSet(u.queue) <=>
              (x \in ToSet(t.queue) \/ \E j \in 1..i : t.log[j].ev = "item" /\ x = t.log[j].n)
  <2> SUFFICES ASSUME NEW x
               PROVE  x \in ToSet(u.queue) <=>
                        (x \in ToSet(t.queue)
                         \/ \E j \in 1..i : t.log[j].ev = "item" /\ x = t.log[j].n)
    OBVIOUS
  <2>1. x \in ToSet(u.queue) <=> x \in ToSet(v.queue) \/ (e.ev = "item" /\ x = e.n)
    <3>1. CASE e.ev = "item"
      <4>1. u.queue = Append(v.queue, e.n)
        BY <1>6, <3>1 DEF Requeues
      <4>2. v.queue \in Seq(Nat) /\ e.n \in Nat
        BY <1>8, <3>1
      <4>3. ToSet(u.queue) = ToSet(v.queue) \cup {e.n}
        BY <4>1, <4>2, AppendFacts
      <4> QED
        BY <3>1, <4>3
    <3>2. CASE e.ev # "item"
      <4>1. u.queue = v.queue
        BY <1>6, <3>2 DEF Requeues
      <4> QED
        BY <3>2, <4>1
    <3> QED
      BY <3>1, <3>2
  <2>2. (\E j \in 1..i : t.log[j].ev = "item" /\ x = t.log[j].n) <=>
          \/ \E j \in 1..(i - 1) : t.log[j].ev = "item" /\ x = t.log[j].n
          \/ e.ev = "item" /\ x = e.n
    BY <1>7
  <2> QED
    BY <1>4, <2>1, <2>2
<1>11. /\ \A x : x \in ToSet(u.checkpointMsgs) <=>
              (x \in ToSet(t.checkpointMsgs)
               \/ \E j \in 1..i : /\ t.log[j].ev \in CheckpointEvents
                                  /\ x = Message(t.log[j].ev, t.log[j].n))
       /\ Len(u.checkpointMsgs) + u.checkpointMsgCounter =
           Len(v.checkpointMsgs) + v.checkpointMsgCounter
  <2>1. /\ e.ev \in CheckpointEvents =>
             ToSet(u.checkpointMsgs) = ToSet(v.checkpointMsgs) \cup {Message(e.ev, e.n)}
        /\ e.ev \notin CheckpointEvents => ToSet(u.checkpointMsgs) = ToSet(v.checkpointMsgs)
        /\ Len(u.checkpointMsgs) + u.checkpointMsgCounter =
             Len(v.checkpointMsgs) + v.checkpointMsgCounter
    <3>1. CASE e.ev \in CheckpointEvents
      <4>1. Message(e.ev, e.n) \in MessageRec
        BY <1>8, <3>1 DEF Message, MessageRec
      <4>2. u.checkpointMsgs = Append(v.checkpointMsgs, Message(e.ev, e.n))
        BY <1>6, <3>1 DEF Requeues
      <4>3. /\ ToSet(u.checkpointMsgs) = ToSet(v.checkpointMsgs) \cup {Message(e.ev, e.n)}
            /\ Len(u.checkpointMsgs) = Len(v.checkpointMsgs) + 1 /\ Len(v.checkpointMsgs) \in Nat
        BY <1>8, <4>1, <4>2, AppendFacts
      <4>4. u.checkpointMsgCounter = v.checkpointMsgCounter - 1
        BY <1>6, <3>1 DEF Requeues
      <4>5. Len(u.checkpointMsgs) + u.checkpointMsgCounter =
             Len(v.checkpointMsgs) + v.checkpointMsgCounter
        BY <1>8, <4>3, <4>4
      <4> QED
        BY <3>1, <4>3, <4>5
    <3>2. CASE e.ev \notin CheckpointEvents
      <4>1. u.checkpointMsgs = v.checkpointMsgs /\ u.checkpointMsgCounter = v.checkpointMsgCounter
        BY <1>6, <1>8, <3>2 DEF Requeues
      <4> QED
        BY <3>2, <4>1
    <3> QED
      BY <3>1, <3>2
  <2>2. ASSUME NEW x
        PROVE  x \in ToSet(u.checkpointMsgs) <=>
                 (x \in ToSet(t.checkpointMsgs)
                  \/ \E j \in 1..i : /\ t.log[j].ev \in CheckpointEvents
                                     /\ x = Message(t.log[j].ev, t.log[j].n))
    <3>1. x \in ToSet(u.checkpointMsgs) <=>
            x \in ToSet(v.checkpointMsgs) \/ (e.ev \in CheckpointEvents /\ x = Message(e.ev, e.n))
      <4>1. CASE e.ev \in CheckpointEvents
        BY <2>1, <4>1
      <4>2. CASE e.ev \notin CheckpointEvents
        BY <2>1, <4>2
      <4> QED
        BY <4>1, <4>2
    <3>2. (\E j \in 1..i : /\ t.log[j].ev \in CheckpointEvents
                           /\ x = Message(t.log[j].ev, t.log[j].n)) <=>
            \/ \E j \in 1..(i - 1) : /\ t.log[j].ev \in CheckpointEvents
                                     /\ x = Message(t.log[j].ev, t.log[j].n)
            \/ e.ev \in CheckpointEvents /\ x = Message(e.ev, e.n)
      BY <1>7
    <3> QED
      BY <1>5, <3>1, <3>2
  <2> QED
    BY <2>1, <2>2
<1>12. ASSUME NEW evs
       PROVE  /\ Cardinality(Behind(t.log, i, evs)) \in Nat
              /\ Cardinality(Behind(t.log, 0, evs)) \in Nat
              /\ Cardinality(Behind(t.log, i - 1, evs)) =
                   Cardinality(Behind(t.log, i, evs)) + IF e.ev \in evs THEN 1 ELSE 0
  <2>1. i \in 0..Len(t.log) /\ 0 \in 0..Len(t.log)
    BY <1>1
  <2>2. IsFiniteSet(Behind(t.log, i, evs)) /\ IsFiniteSet(Behind(t.log, 0, evs))
    BY <1>1, <2>1, BehindFinite
  <2> QED
    BY <1>1, <2>2, FS_CardinalityType, BehindStep
<1>13. /\ u.opaqueMsgCounter =
            t.opaqueMsgCounter - Cardinality(Behind(t.log, 0, Opaques))
                               + Cardinality(Behind(t.log, i, Opaques))
       /\ u.checkpointMsgCounter =
            t.checkpointMsgCounter - Cardinality(Behind(t.log, 0, CheckpointEvents))
                                   + Cardinality(Behind(t.log, i, CheckpointEvents))
  <2>1. u.opaqueMsgCounter = v.opaqueMsgCounter - (IF e.ev \in Opaques THEN 1 ELSE 0)
    BY <1>6 DEF Requeues
  <2>2. u.checkpointMsgCounter = v.checkpointMsgCounter - (IF e.ev \in CheckpointEvents THEN 1 ELSE 0)
    BY <1>6 DEF Requeues
  <2>3. u.opaqueMsgCounter =
            t.opaqueMsgCounter - Cardinality(Behind(t.log, 0, Opaques))
                               + Cardinality(Behind(t.log, i, Opaques))
    <3> DEFINE a == Cardinality(Behind(t.log, 0, Opaques))
               b == Cardinality(Behind(t.log, i, Opaques))
               c == Cardinality(Behind(t.log, i - 1, Opaques))
               d == IF e.ev \in Opaques THEN 1 ELSE 0
    <3>1. a \in Nat /\ b \in Nat /\ c = b + d
      BY <1>12
    <3>2. v.opaqueMsgCounter = t.opaqueMsgCounter - a + c
      BY <1>2
    <3>3. u.opaqueMsgCounter = v.opaqueMsgCounter - d /\ d \in Nat
      BY <2>1
    <3> HIDE DEF a, b, c, d
    <3>4. u.opaqueMsgCounter = t.opaqueMsgCounter - a + b
      BY <1>1, <3>1, <3>2, <3>3
    <3> QED
      BY <3>4 DEF a, b
  <2>4. u.checkpointMsgCounter =
            t.checkpointMsgCounter - Cardinality(Behind(t.log, 0, CheckpointEvents))
                                   + Cardinality(Behind(t.log, i, CheckpointEvents))
    <3> DEFINE a == Cardinality(Behind(t.log, 0, CheckpointEvents))
               b == Cardinality(Behind(t.log, i, CheckpointEvents))
               c == Cardinality(Behind(t.log, i - 1, CheckpointEvents))
               d == IF e.ev \in CheckpointEvents THEN 1 ELSE 0
    <3>1. a \in Nat /\ b \in Nat /\ c = b + d
      BY <1>12
    <3>2. v.checkpointMsgCounter = t.checkpointMsgCounter - a + c
      BY <1>2
    <3>3. u.checkpointMsgCounter = v.checkpointMsgCounter - d /\ d \in Nat
      BY <2>2
    <3> HIDE DEF a, b, c, d
    <3>4. u.checkpointMsgCounter = t.checkpointMsgCounter - a + b
      BY <1>1, <3>1, <3>2, <3>3
    <3> QED
      BY <3>4 DEF a, b
  <2> QED
    BY <2>3, <2>4
<1>14. /\ u \in TapRec /\ SameStream(t, u) /\ SameFlags(t, u) /\ u.log = t.log
       /\ u.isLastAckSucceed = t.isLastAckSucceed
  BY <1>2, <1>6 DEF Requeues, SameStream, SameFlags
<1>15. Len(u.checkpointMsgs) + u.checkpointMsgCounter =
         Len(t.checkpointMsgs) + t.checkpointMsgCounter
  BY <1>2, <1>11
<1> QED
  BY <1>9, <1>10, <1>11, <1>13, <1>14, <1>15 DEF RollsTo

RollStep(u, e) == Requeued(Uncounted(u, e), e)

LEMMA RollbackIterates ==
  ASSUME NEW t \in TapRec
  PROVE  \E f : /\ f = [i \in 0..Len(t.log) |-> IF i = 0 THEN t ELSE RollStep(f[i - 1], t.log[i])]
                /\ RolledBack(t) = [f[Len(t.log)] EXCEPT !.log = <<>>, !.seqnoReceived = t.seqno - 1]
<1> DEFINE n == Len(t.log)
           step == [i \in 1..n |-> [u \in TapRec |-> RollStep(u, t.log[i])]]
           P(f) == f = [i \in 0..n |-> IF i = 0 THEN t ELSE RollStep(f[i - 1], t.log[i])]
<1>1. t.log \in Seq(LogRec) /\ n \in Nat
  BY DEF TapRec
<1>2. ASSUME NEW i \in 1..n, NEW u \in TapRec
      PROVE  RollStep(u, t.log[i]) \in TapRec
  <2>1. t.log[i] \in LogRec
    BY <1>1
  <2> QED
    BY <2>1, RequeueFacts DEF Requeues, RollStep
<1>3. step \in [1..n -> [TapRec -> TapRec]]
  BY <1>2
<1>4. PICK f : Iteration(f, TapRec, n, t, step)
  <2> HIDE DEF step
  <2> QED
    BY <1>1, <1>3, IterationExists
<1>5. /\ f \in [0..n -> TapRec] /\ f[0] = t
      /\ \A i \in 1..n : f[i] = RollStep(f[i - 1], t.log[i])
  <2>1. /\ f \in [0..n -> TapRec] /\ f[0] = t
        /\ \A i \in 1..n : f[i] = step[i][f[i - 1]]
    BY <1>4 DEF Iteration
  <2>2. ASSUME NEW i \in 1..n
        PROVE  f[i] = RollStep(f[i - 1], t.log[i])
    <3>1. f[i - 1] \in TapRec
      BY <1>1, <2>1
    <3> QED
      BY <2>1, <3>1
  <2> QED
    BY <2>1, <2>2
<1>6. P(f)
  <2> DEFINE g == [i \in 0..n |-> IF i = 0 THEN t ELSE RollStep(f[i - 1], t.log[i])]
  <2>1. ASSUME NEW i \in 0..n
        PROVE  f[i] = g[i]
    <3>1. i # 0 => i \in 1..n
      BY <1>1
    <3> QED
      BY <1>5, <3>1
  <2> QED
    BY <1>5, <2>1
<1>7. P(CHOOSE g : P(g))
  <2> HIDE DEF P
  <2> QED
    BY <1>6
<1>8. RolledBack(t) = [(CHOOSE g : P(g))[n] EXCEPT !.log = <<>>, !.seqnoReceived = t.seqno - 1]
  BY DEF RolledBack, RollStep
<1> QED
  BY <1>7, <1>8

LEMMA RollbackFacts ==
  ASSUME NEW t \in TapRec, Increasing(t.log)
  PROVE  \E v : /\ RollsTo(t, Len(t.log), v)
                /\ RolledBack(t) = [v EXCEPT !.log = <<>>, !.seqnoReceived = t.seqno - 1]
<1> DEFINE n == Len(t.log)
<1>1. n \in Nat
  BY DEF TapRec
<1>2. PICK f : /\ f = [i \in 0..n |-> IF i = 0 THEN t ELSE RollStep(f[i - 1], t.log[i])]
               /\ RolledBack(t) = [f[n] EXCEPT !.log = <<>>, !.seqnoReceived = t.seqno - 1]
  BY RollbackIterates
<1>3. f[0] = t /\ \A i \in 1..n : f[i] = RollStep(f[i - 1], t.log[i])
  BY <1>1, <1>2
<1> DEFINE T == {i \in 0..n : ~RollsTo(t, i, f[i])}
<1>4. ASSUME NEW i \in T, \A j \in T : i <= j
      PROVE  FALSE
  <2>1. i \in 0..n /\ ~RollsTo(t, i, f[i])
    OBVIOUS
  <2>2. i # 0
    BY <1>3, <2>1, RollsToStart
  <2>3. i \in 1..n /\ i - 1 \in 0..n /\ ~(i <= i - 1)
    BY <1>1, <2>1, <2>2
  <2>4. RollsTo(t, i - 1, f[i - 1])
    BY <1>4, <2>3
  <2>5. RollsTo(t, i, RollStep(f[i - 1], t.log[i]))
    BY <2>3, <2>4, RollsToNext DEF RollStep
  <2> QED
    BY <1>3, <2>1, <2>3, <2>5
<1>5. T \subseteq Nat
  OBVIOUS
<1>6. T = {}
  <2> HIDE DEF T
  <2> QED
    BY <1>4, <1>5, NatLeast
<1>7. n \in 0..n
  BY <1>1
<1>8. RollsTo(t, n, f[n])
  BY <1>6, <1>7
<1> QED
  BY <1>2, <1>8

\* What the rollback leaves, field by field.
RollsBack(t, u) ==
  /\ u \in TapRec /\ SameStream(t, u) /\ SameFlags(t, u)
  /\ u.log = <<>> /\ u.seqnoReceived = t.seqno - 1
  /\ \A x : x \in ToSet(u.high) <=>
              (x \in ToSet(t.high) \/ \E e \in ToSet(t.log) : e.ev \in HighEvents /\ x = e.ev)
  /\ \A x : x \in ToSet(u.queue) <=>
              (x \in ToSet(t.queue) \/ \E e \in ToSet(t.log) : e.ev = "item" /\ x = e.n)
  /\ \A x : x \in ToSet(u.checkpointMsgs) <=>
              (x \in ToSet(t.checkpointMsgs)
               \/ \E e \in ToSet(t.log) : e.ev \in CheckpointEvents /\ x = Message(e.ev, e.n))
  /\ Len(u.checkpointMsgs) + u.checkpointMsgCounter =
       Len(t.checkpointMsgs) + t.checkpointMsgCounter
  /\ u.opaqueMsgCounter = t.opaqueMsgCounter - Cardinality(Behind(t.log, 0, Opaques))
  /\ u.checkpointMsgCounter =
       t.checkpointMsgCounter - Cardinality(Behind(t.log, 0, CheckpointEvents))

LEMMA ClearedLog ==
  ASSUME NEW v \in TapRec, NEW w \in Int
  PROVE  [v EXCEPT !.log = <<>>, !.seqnoReceived = w] \in TapRec
<1>1. <<>> \in Seq(LogRec)
  OBVIOUS
<1> QED
  BY <1>1 DEF TapRec

LEMMA RolledBackFacts ==
  ASSUME NEW t \in TapRec, Increasing(t.log)
  PROVE  RollsBack(t, RolledBack(t))
<1> DEFINE n == Len(t.log)
           u == RolledBack(t)
<1>1. /\ n \in Nat /\ t.log \in Seq(LogRec) /\ t.seqno \in Nat /\ DOMAIN t.log = 1..n
      /\ t.opaqueMsgCounter \in Int /\ t.checkpointMsgCounter \in Int
  BY DEF TapRec
<1>2. PICK v : /\ RollsTo(t, n, v)
               /\ u = [v EXCEPT !.log = <<>>, !.seqnoReceived = t.seqno - 1]
  BY RollbackFacts
<1>3. /\ v \in TapRec /\ SameStream(t, v) /\ SameFlags(t, v)
      /\ Len(v.checkpointMsgs) + v.checkpointMsgCounter =
           Len(t.checkpointMsgs) + t.checkpointMsgCounter
      /\ v.opaqueMsgCounter =
           t.opaqueMsgCounter - Cardinality(Behind(t.log, 0, Opaques))
                              + Cardinality(Behind(t.log, n, Opaques))
      /\ v.checkpointMsgCounter =
           t.checkpointMsgCounter - Cardinality(Behind(t.log, 0, CheckpointEvents))
                                  + Cardinality(Behind(t.log, n, CheckpointEvents))
  BY <1>2 DEF RollsTo
<1>4. \A x : x \in ToSet(v.high) <=>
              (x \in ToSet(t.high)
               \/ \E j \in 1..n : t.log[j].ev \in HighEvents /\ x = t.log[j].ev)
  BY <1>2 DEF RollsTo
<1>5. \A x : x \in ToSet(v.queue) <=>
              (x \in ToSet(t.queue) \/ \E j \in 1..n : t.log[j].ev = "item" /\ x = t.log[j].n)
  BY <1>2 DEF RollsTo
<1>6. \A x : x \in ToSet(v.checkpointMsgs) <=>
              (x \in ToSet(t.checkpointMsgs)
               \/ \E j \in 1..n : /\ t.log[j].ev \in CheckpointEvents
                                  /\ x = Message(t.log[j].ev, t.log[j].n))
  BY <1>2 DEF RollsTo
<1>7. \A e : e \in ToSet(t.log) <=> \E j \in 1..n : e = t.log[j]
  BY <1>1 DEF ToSet
<1>8. ASSUME NEW evs
      PROVE  /\ Cardinality(Behind(t.log, n, evs)) = 0
             /\ Cardinality(Behind(t.log, 0, evs)) \in Nat
  <2>1. n \in 0..n /\ 0 \in 0..n
    BY <1>1
  <2>2. Behind(t.log, n, evs) = {} /\ IsFiniteSet(Behind(t.log, 0, evs))
    BY <1>1, <2>1, BehindFinite
  <2> QED
    BY <2>2, FS_EmptySet, FS_CardinalityType
<1>9. /\ v.opaqueMsgCounter = t.opaqueMsgCounter - Cardinality(Behind(t.log, 0, Opaques))
      /\ v.checkpointMsgCounter =
            t.checkpointMsgCounter - Cardinality(Behind(t.log, 0, CheckpointEvents))
  <2>1. /\ Cardinality(Behind(t.log, n, Opaques)) = 0
        /\ Cardinality(Behind(t.log, 0, Opaques)) \in Nat
        /\ Cardinality(Behind(t.log, n, CheckpointEvents)) = 0
        /\ Cardinality(Behind(t.log, 0, CheckpointEvents)) \in Nat
    BY <1>8
  <2> HIDE DEF n
  <2> QED
    BY <1>1, <1>3, <2>1
<1>10. <<>> \in Seq(LogRec) /\ t.seqno - 1 \in Int
  BY <1>1
<1>11. /\ u \in TapRec /\ SameStream(v, u) /\ SameFlags(v, u)
       /\ u.log = <<>> /\ u.seqnoReceived = t.seqno - 1
       /\ u.high = v.high /\ u.queue = v.queue /\ u.checkpointMsgs = v.checkpointMsgs
       /\ u.opaqueMsgCounter = v.opaqueMsgCounter
       /\ u.checkpointMsgCounter = v.checkpointMsgCounter
  <2>1. u \in TapRec
    BY <1>2, <1>3, <1>10, ClearedLog
  <2>2. /\ u.log = <<>> /\ u.seqnoReceived = t.seqno - 1
        /\ u.high = v.high /\ u.queue = v.queue /\ u.checkpointMsgs = v.checkpointMsgs
        /\ u.opaqueMsgCounter = v.opaqueMsgCounter
        /\ u.checkpointMsgCounter = v.checkpointMsgCounter
    BY <1>2, <1>3 DEF TapRec
  <2>3. SameStream(v, u)
    BY <1>2, <1>3 DEF TapRec, SameStream
  <2>4. SameFlags(v, u)
    BY <1>2, <1>3 DEF TapRec, SameFlags
  <2> QED
    BY <2>1, <2>2, <2>3, <2>4
<1>12. SameStream(t, u) /\ SameFlags(t, u)
  BY <1>3, <1>11 DEF SameStream, SameFlags
<1> HIDE DEF u, n
<1>13. \A x : x \in ToSet(u.high) <=>
              (x \in ToSet(t.high) \/ \E e \in ToSet(t.log) : e.ev \in HighEvents /\ x = e.ev)
  <2> SUFFICES ASSUME NEW x
               PROVE  x \in ToSet(u.high) <=>
                        (x \in ToSet(t.high)
                         \/ \E e \in ToSet(t.log) : e.ev \in HighEvents /\ x = e.ev)
    OBVIOUS
  <2>1. (\E e \in ToSet(t.log) : e.ev \in HighEvents /\ x = e.ev) <=>
          \E j \in 1..n : t.log[j].ev \in HighEvents /\ x = t.log[j].ev
    BY <1>7
  <2>2. u.high = v.high
    BY <1>11
  <2> QED
    BY <1>4, <2>1, <2>2
<1>14. \A x : x \in ToSet(u.queue) <=>
              (x \in ToSet(t.queue) \/ \E e \in ToSet(t.log) : e.ev = "item" /\ x = e.n)
  BY <1>5, <1>7, <1>11
<1>15. \A x : x \in ToSet(u.checkpointMsgs) <=>
              (x \in ToSet(t.checkpointMsgs)
               \/ \E e \in ToSet(t.log) : e.ev \in CheckpointEvents /\ x = Message(e.ev, e.n))
  <2> SUFFICES ASSUME NEW x
               PROVE  x \in ToSet(u.checkpointMsgs) <=>
                        (x \in ToSet(t.checkpointMsgs)
                         \/ \E e \in ToSet(t.log) :
                              e.ev \in CheckpointEvents /\ x = Message(e.ev, e.n))
    OBVIOUS
  <2>1. (\E e \in ToSet(t.log) : e.ev \in CheckpointEvents /\ x = Message(e.ev, e.n)) <=>
          \E j \in 1..n : t.log[j].ev \in CheckpointEvents /\ x = Message(t.log[j].ev, t.log[j].n)
    BY <1>7
  <2>2. u.checkpointMsgs = v.checkpointMsgs
    BY <1>11
  <2> QED
    BY <1>6, <2>1, <2>2
<1>16. Len(u.checkpointMsgs) + u.checkpointMsgCounter =
         Len(t.checkpointMsgs) + t.checkpointMsgCounter
  BY <1>3, <1>11
<1> QED
  BY <1>9, <1>11, <1>12, <1>13, <1>14, <1>15, <1>16 DEF RollsBack, u

LEMMA SetToSeqFacts ==
  ASSUME NEW S, NEW V, S \subseteq V, IsFiniteSet(S)
  PROVE  SetToSeq(S) \in Seq(V) /\ ToSet(SetToSeq(S)) = S
<1> DEFINE n == Cardinality(S)
           s == SetToSeq(S)
<1>0. n \in Nat
  BY FS_CardinalityType
<1>1. PICK f \in Bijection(1..n, S) : TRUE
  BY FS_CardinalityType DEF ExistsBijection
<1>2. f \in [1..n -> S] /\ IsInjective(f)
  BY <1>1 DEF Bijection, Injection, IsInjective
<1>3. s \in [1..n -> S] /\ IsInjective(s)
  BY <1>2 DEF SetToSeq
<1> HIDE DEF s
<1>4. s \in Injection(1..n, S)
  BY <1>3 DEF Injection, IsInjective
<1>5. IsFiniteSet(1..n) /\ Cardinality(1..n) = n
  BY <1>0, FS_Interval
<1>6. s \in Surjection(1..n, S)
  BY <1>4, <1>5, FS_Injection
<1>7. \A y \in S : \E i \in 1..n : s[i] = y
  BY <1>6 DEF Surjection
<1>8. s \in Seq(S) /\ DOMAIN s = 1..n
  BY <1>0, <1>3
<1>9. ToSet(s) = S
  BY <1>3, <1>7, <1>8 DEF ToSet
<1>10. s \in Seq(V)
  BY <1>0, <1>3, <1>8
<1> QED
  BY <1>9, <1>10 DEF s

LEMMA LogIndexFacts ==
  ASSUME NEW s, tap.log \in Seq(LogRec)
  PROVE  \/ LogIndex(s) = 0 /\ \A i \in 1..Len(tap.log) : tap.log[i].seqno # s
         \/ LogIndex(s) \in 1..Len(tap.log) /\ tap.log[LogIndex(s)].seqno = s
<1> DEFINE I == {i \in 1..Len(tap.log) : tap.log[i].seqno = s}
<1>1. LogIndex(s) = IF I # {} THEN Min(I) ELSE 0
  BY DEF LogIndex, SelectInSeq
<1>2. CASE I = {}
  BY <1>1, <1>2
<1>3. CASE I # {}
  <2>1. I \subseteq Nat
    BY DEF I
  <2>2. \E x \in I : \A y \in I : x <= y
    BY <1>3, <2>1, NatLeast
  <2>3. Min(I) \in I
    BY <2>2 DEF Min
  <2> QED
    BY <1>1, <1>3, <2>3
<1> QED
  BY <1>2, <1>3

LEMMA OnlyFacts ==
  ASSUME NEW S, NEW s \in Seq(S), NEW evs
  PROVE  /\ Only(s, evs) \in Seq(S)
         /\ \A x : x \in ToSet(Only(s, evs)) <=> x \in ToSet(s) /\ x \in evs
<1> DEFINE n == Len(s)
           step == [i \in 1..n |-> [u \in Seq(S) |-> IF s[i] \in evs THEN Append(u, s[i]) ELSE u]]
           P(f) == f = [i \in 0..n |->
                          IF i = 0 THEN <<>>
                          ELSE IF s[i] \in evs THEN Append(f[i - 1], s[i]) ELSE f[i - 1]]
<1>1. n \in Nat /\ DOMAIN s = 1..n /\ <<>> \in Seq(S)
  OBVIOUS
<1>2. \A i \in 1..n : s[i] \in S
  OBVIOUS
<1>3. step \in [1..n -> [Seq(S) -> Seq(S)]]
  BY <1>2
<1>4. PICK f : Iteration(f, Seq(S), n, <<>>, step)
  <2> HIDE DEF step
  <2> QED
    BY <1>1, <1>3, IterationExists
<1>5. /\ f \in [0..n -> Seq(S)] /\ f[0] = <<>>
      /\ \A i \in 1..n : f[i] = IF s[i] \in evs THEN Append(f[i - 1], s[i]) ELSE f[i - 1]
  <2>1. /\ f \in [0..n -> Seq(S)] /\ f[0] = <<>>
        /\ \A i \in 1..n : f[i] = step[i][f[i - 1]]
    BY <1>4 DEF Iteration
  <2>2. ASSUME NEW i \in 1..n
        PROVE  f[i] = IF s[i] \in evs THEN Append(f[i - 1], s[i]) ELSE f[i - 1]
    <3>1. f[i - 1] \in Seq(S)
      BY <1>1, <2>1, SMTT(30)
    <3> QED
      BY <2>1, <3>1
  <2> QED
    BY <2>1, <2>2
<1>6. P(f)
  <2> DEFINE g == [i \in 0..n |->
                     IF i = 0 THEN <<>>
                     ELSE IF s[i] \in evs THEN Append(f[i - 1], s[i]) ELSE f[i - 1]]
  <2>1. ASSUME NEW i \in 0..n
        PROVE  f[i] = g[i]
    <3>1. i # 0 => i \in 1..n
      BY <1>1
    <3> QED
      BY <1>5, <3>1
  <2> QED
    BY <1>5, <2>1
<1>7. PICK h : P(h) /\ Only(s, evs) = h[n]
  <2> HIDE DEF P
  <2>1. P(CHOOSE g : P(g))
    BY <1>6
  <2>2. Only(s, evs) = (CHOOSE g : P(g))[n]
    BY DEF Only, P
  <2> QED
    BY <2>1, <2>2
<1>8. h[0] = <<>> /\ \A i \in 1..n : h[i] = IF s[i] \in evs THEN Append(h[i - 1], s[i]) ELSE h[i - 1]
  <2>1. h = [i \in 0..n |->
               IF i = 0 THEN <<>>
               ELSE IF s[i] \in evs THEN Append(h[i - 1], s[i]) ELSE h[i - 1]]
    BY <1>7
  <2>2. 0 \in 0..n /\ \A i \in 1..n : i \in 0..n /\ i # 0
    BY <1>1
  <2>3. h[0] = <<>>
    BY <2>1, <2>2
  <2>4. ASSUME NEW i \in 1..n
        PROVE  h[i] = IF s[i] \in evs THEN Append(h[i - 1], s[i]) ELSE h[i - 1]
    <3>1. i \in 0..n /\ i # 0
      BY <2>2
    <3> HIDE DEF n
    <3> QED
      BY <2>1, <3>1, Zenon
  <2> QED
    BY <2>3, <2>4
<1> DEFINE Good(i) == /\ h[i] \in Seq(S)
                      /\ \A x : x \in ToSet(h[i]) <=> \E j \in 1..i : x = s[j] /\ x \in evs
           T == {i \in 0..n : ~Good(i)}
<1>9. Good(0)
  <2>1. \A j : j \notin 1..0
    OBVIOUS
  <2>2. ToSet(<<>>) = {}
    BY DEF ToSet
  <2> QED
    BY <1>1, <1>8, <2>1, <2>2
<1>10. ASSUME NEW i \in 1..n, Good(i - 1)
       PROVE  Good(i)
  <2>1. \A j : j \in 1..i <=> (j \in 1..(i - 1) \/ j = i)
    BY <1>1
  <2>2. h[i - 1] \in Seq(S) /\ s[i] \in S
    BY <1>2, <1>10
  <2>3. \A x : x \in ToSet(h[i - 1]) <=> \E j \in 1..(i - 1) : x = s[j] /\ x \in evs
    BY <1>10
  <2>4. CASE s[i] \in evs
    <3>1. h[i] = Append(h[i - 1], s[i])
      BY <1>8, <2>4
    <3>2. h[i] \in Seq(S) /\ ToSet(h[i]) = ToSet(h[i - 1]) \cup {s[i]}
      BY <2>2, <3>1, AppendFacts
    <3>3. \A x : x \in ToSet(h[i]) <=> \E j \in 1..i : x = s[j] /\ x \in evs
      BY <2>1, <2>3, <2>4, <3>2, Zenon
    <3> QED
      BY <3>2, <3>3
  <2>5. CASE s[i] \notin evs
    <3>1. h[i] = h[i - 1]
      BY <1>8, <2>5
    <3>2. \A x : x \in ToSet(h[i]) <=> \E j \in 1..i : x = s[j] /\ x \in evs
      BY <2>1, <2>3, <2>5, <3>1, Zenon
    <3> QED
      BY <2>2, <3>1, <3>2
  <2> QED
    BY <2>4, <2>5
<1>11. ASSUME NEW i \in T, \A j \in T : i <= j
       PROVE  FALSE
  <2>1. i \in 0..n /\ ~Good(i)
    OBVIOUS
  <2> HIDE DEF Good
  <2>2. i # 0
    BY <1>9, <2>1
  <2>3. i \in 1..n /\ i - 1 \in 0..n /\ ~(i <= i - 1)
    BY <1>1, <2>1, <2>2
  <2>4. Good(i - 1)
    BY <1>11, <2>3
  <2> QED
    BY <1>10, <2>1, <2>3, <2>4
<1>12. T = {}
  <2>1. T \subseteq Nat
    OBVIOUS
  <2> HIDE DEF T
  <2> QED
    BY <1>11, <2>1, NatLeast
<1>13. Good(n)
  <2>1. n \in 0..n
    BY <1>1
  <2> HIDE DEF Good
  <2> QED
    BY <1>12, <2>1
<1>14. \A x : x \in ToSet(s) <=> \E j \in 1..n : x = s[j]
  BY <1>1 DEF ToSet
<1>15. h[n] \in Seq(S) /\ \A x : x \in ToSet(h[n]) <=> x \in ToSet(s) /\ x \in evs
  BY <1>13, <1>14
<1> QED
  BY <1>7, <1>15

LEMMA ModSmall ==
  ASSUME NEW x \in Nat, x < Highest
  PROVE  x % SeqModulus = x /\ (x + 1) % SeqModulus = x + 1
<1>1. SeqModulus \in Nat \ {0}
  BY BoundsAssumption
<1>2. x + 1 < SeqModulus
  BY <1>1 DEF Highest
<1> QED
  BY <1>1, <1>2

-----------------------------------------------------------------------------
(***************************************************************************)
(* The inductive invariant, in parts.                                      *)
(***************************************************************************)
\* The types.
TypeOK ==
  /\ mode \in {"replica", "takeover"}
  /\ src \in [state : {"active", "dead"}, entries : Seq(EntryRec), first : Nat, cursor : Nat]
  /\ writer \in BOOLEAN
  /\ tap \in TapRec
  /\ tasks \in Seq(TaskRec)
  /\ toC \in Seq(SentRec) /\ toP \in Seq(AnswerRec)
  /\ copy \in [state : {"replica", "pending", "active"}, open : Nat, closed : BOOLEAN,
               backfill : BOOLEAN, has : SUBSET Nat]
  /\ used \in [nacks : Nat, drops : Nat]
  /\ lapse \subseteq {"late", "stale", "replayed"}

\* The source: checkpoints have a dummy, a start, items and an end, in this order,
\* and follow each other without a gap; the cursor is in one that is in memory.
Follows(e, f) ==
  \/ e.ev = "dummy" /\ f.ev = "start" /\ f.chk = e.chk
  \/ e.ev \in {"start", "item"} /\ f.ev \in {"item", "end"} /\ f.chk = e.chk
  \/ e.ev = "end" /\ f.ev = "dummy" /\ f.chk = e.chk + 1
Chained(E) ==
  /\ Len(E) >= 2 /\ E[1].chk = 2
  /\ \A i \in 1..(Len(E) - 1) : Follows(E[i], E[i + 1])
  /\ E[Len(E)].ev \in {"start", "item"}
Sorted(E) ==
  /\ \A i, j \in 1..Len(E) : i <= j => E[i].chk <= E[j].chk
  /\ \A i, j \in 1..Len(E) : i < j /\ E[j].ev = "dummy" => E[i].chk < E[j].chk
Begun(E) == \A id \in 2..E[Len(E)].chk : \E i \in 1..Len(E) : E[i] = Entry("dummy", id, 0)
CursorOK(s) ==
  /\ s.first \in 2..s.entries[Len(s.entries)].chk
  /\ s.cursor # 0 => s.cursor \in 1..Len(s.entries) /\ s.entries[s.cursor].chk >= s.first
EntriesInv == Chained(src.entries) /\ Sorted(src.entries) /\ Begun(src.entries) /\ CursorOK(src)

\* The backfill: the producer has at most one task, its counters say what that task is
\* yet to do, and there is no cursor exactly until the task has visited the vbucket.
TasksOK(ts) ==
  /\ \A i, j \in DOMAIN ts : ts[i].own /\ ts[j].own => i = j
  /\ \A i \in DOMAIN ts : /\ ts[i].completed \/ ts[i].disk => ts[i].visited
                          /\ ~Finished(ts[i])
Pending(ts) == \E i \in DOMAIN ts : ts[i].own /\ ~ts[i].completed
OnDisk(ts) == \E i \in DOMAIN ts : ts[i].own /\ ts[i].disk
Unvisited(ts) == \E i \in DOMAIN ts : ts[i].own /\ ~ts[i].visited
BackfillOK(t, ts, cursor) ==
  /\ TasksOK(ts)
  /\ t.backfillVBucket = ~t.backfillCompleted
  /\ t.doRunBackfill => t.backfillVBucket /\ cursor = 0
  /\ \A i \in DOMAIN ts : ts[i].own => t.backfillVBucket /\ ~t.doRunBackfill
  /\ t.pendingBackfill = IF Pending(ts) THEN 1 ELSE 0
  /\ t.diskBackfill = IF OnDisk(ts) THEN 1 ELSE 0
  /\ Unvisited(ts) => cursor = 0
  /\ t.exists /\ cursor = 0 => t.doRunBackfill \/ Unvisited(ts)
\* The stream: the log, the messages on their way and the answers on theirs are in the
\* order of their numbers, every message that is not an item is or will be answered,
\* and no number in the log is acknowledged.
LogOK(t) == /\ Increasing(t.log)
            /\ \A e \in ToSet(t.log) : 1 <= e.seqno /\ e.seqno < t.seqno
            /\ t.seqno >= 1
SentOK(t, c) ==
  /\ ~t.connected => c = <<>>
  /\ Increasing(c)
  /\ \A m \in ToSet(c) : \E e \in ToSet(t.log) : e.seqno = m.seqno /\ e.ev = m.ev /\ e.n = m.n
AnsweredOK(t, c, p) ==
  /\ ~t.connected => p = <<>>
  /\ Increasing(p)
  /\ \A a \in ToSet(p) : \E e \in ToSet(t.log) : e.seqno = a.seqno /\ (~a.ok => e.ev = "item")
  /\ \A a \in ToSet(p), m \in ToSet(c) : a.seqno < m.seqno
Awaited(t, c, p) ==
  t.connected =>
    \A e \in ToSet(t.log) : e.ev # "item" =>
      \/ \E m \in ToSet(c) : m.seqno = e.seqno /\ m.ack
      \/ \E a \in ToSet(p) : a.seqno = e.seqno
AckedOK(t) ==
  /\ \A e \in ToSet(t.log) : SeqnoAcked(t) < e.seqno
  /\ 0 <= t.seqnoReceived /\ t.seqnoReceived < t.seqno
  /\ \A e \in ToSet(t.log) : e.ev = "item" => e.seqno <= t.lastSeqNum
  /\ ~t.isSeqNumRotated
StreamOK(t, c, p) ==
  (t.connected => t.exists)
  /\ LogOK(t) /\ SentOK(t, c) /\ AnsweredOK(t, c, p) /\ Awaited(t, c, p) /\ AckedOK(t)
\* The counters of opaque and of checkpoint messages are those of the log; there is at
\* most one checkpoint message that is to be sent or acknowledged.
Numbers(log, evs) == {e.seqno : e \in {f \in ToSet(log) : f.ev \in evs}}
InLog(log, ev) == \E e \in ToSet(log) : e.ev = ev
Announced(t) == "initial_stream" \in ToSet(t.high) \/ InLog(t.log, "initial_stream")
CountersOK(t) ==
  /\ t.opaqueMsgCounter = Cardinality(Numbers(t.log, Opaques))
  /\ t.checkpointMsgCounter = Cardinality(Numbers(t.log, CheckpointEvents))
  /\ Len(t.checkpointMsgs) + t.checkpointMsgCounter <= 1
  /\ Announced(t) => t.doRunBackfill
\* What NothingLeftBehind leaves open: an item in the log counts as long as its message,
\* its refusal or the next connection is to come, and one in a task only if it is the producer's.
InFlight(t, c, p) ==
  {n \in Nat : \E e \in ToSet(t.log) :
     /\ e.ev = "item" /\ e.n = n
     /\ t.connected => \/ \E m \in ToSet(c) : m.seqno = e.seqno
                       \/ \E a \in ToSet(p) : a.seqno = e.seqno /\ ~a.ok}
ToCome(ts) ==
  (UNION {ToSet(ts[i].mem) : i \in {j \in DOMAIN ts : ts[j].own /\ ~ts[j].completed}})
  \cup (UNION {ToSet(ts[i].cold) : i \in {j \in DOMAIN ts : ts[j].own /\ ts[j].disk}})
Kept(t, ts, c, p, has) ==
  has \cup ToSet(t.queue) \cup ToSet(t.fetched) \cup ToSet(t.jobs)
      \cup InFlight(t, c, p) \cup ToCome(ts)
Items(E, i) == {E[j].n : j \in {k \in 1..i : E[k].ev = "item"}}
CoveredOK(s, t, ts, c, p, cp) ==
  t.exists /\ s.cursor # 0 => Items(s.entries, s.cursor) \subseteq Kept(t, ts, c, p, cp.has)

\* Where the copy is, given the entry under the cursor and the checkpoint message that is
\* outstanding; it is delivered when its message has arrived and its answer has not.
Outstanding(t) ==
  ToSet(t.checkpointMsgs)
  \cup {Message(e.ev, e.n) : e \in {f \in ToSet(t.log) : f.ev \in CheckpointEvents}}
Delivered(t, c) ==
  /\ t.connected
  /\ \E e \in ToSet(t.log) : e.ev \in CheckpointEvents /\ \A m \in ToSet(c) : m.seqno # e.seqno
Fresh(id, cp) == \/ cp.open = 0 /\ ~cp.closed
                 \/ cp.open = id - 1 /\ cp.closed
                 \/ cp.open = id /\ ~cp.closed
PhaseOK(e, out, delivered, cp) ==
  \/ /\ e.ev = "dummy" /\ Fresh(e.chk, cp)
     /\ out = {} \/ (out = {Message("end", e.chk - 1)} /\ cp.open = e.chk - 1 /\ cp.closed)
  \/ e.ev = "start" /\ out = {} /\ cp.open = e.chk /\ ~cp.closed
  \/ /\ e.ev = "start" /\ out = {Message("start", e.chk)} /\ Fresh(e.chk, cp)
     /\ delivered => cp.open = e.chk /\ ~cp.closed
  \/ e.ev = "item" /\ out = {} /\ cp.open = e.chk /\ ~cp.closed
  \/ e.ev = "end" /\ out = {} /\ cp.open = e.chk /\ cp.closed
  \/ /\ e.ev = "end" /\ out = {Message("end", e.chk)} /\ cp.open = e.chk
     /\ delivered => cp.closed
StreamPending(t, c) ==
  \/ "initial_stream" \in ToSet(t.high)
  \/ t.connected /\ \E m \in ToSet(c) : m.ev = "initial_stream"
  \/ ~t.connected /\ InLog(t.log, "initial_stream")
PhasesOK(s, t, c, cp) ==
  cp.state # "active" =>
    /\ t.exists /\ s.cursor # 0 =>
         PhaseOK(s.entries[s.cursor], Outstanding(t), Delivered(t, c), cp)
    /\ t.backfillVBucket => Outstanding(t) = {}
    /\ t.backfillVBucket /\ ~StreamPending(t, c) => cp.open = 0 /\ ~cp.closed

\* The copy's checkpoint is one of the source's, and a closed one is closed there.
Newest(E) == E[Len(E)].chk
CopyOK(E, cp) ==
  /\ cp.open = 0 \/ cp.open \in 2..Newest(E)
  /\ cp.closed => cp.open # 0 /\ cp.open < Newest(E)

\* A cursor that has left the items of a checkpoint left none that the copy does not have.
ConfirmedOK(s, t, cp) ==
  t.exists /\ s.cursor # 0 /\ ~t.backfillVBucket /\ s.entries[s.cursor].ev # "item"
    => Items(s.entries, s.cursor) \subseteq cp.has

\* The copy is told to become active after the source died, and with all that was written.
Ending(c, cp) == cp.state = "active" \/ \E m \in ToSet(c) : m.ev = "set_active"
EndingOK(s, t, c, cp, l) ==
  Ending(c, cp) => /\ s.state = "dead" /\ ~Announced(t)
                   /\ "late" \notin l => Items(s.entries, Len(s.entries)) \subseteq cp.has

\* A copy that is active stays so: it is not told to wait for its activation any more.
PendingOK(t, c, cp) ==
  /\ Ending(c, cp) => "set_pending" \notin ToSet(t.high)
  /\ \A m \in ToSet(c) : m.ev = "set_pending" => cp.state # "active"
  /\ \A m, k \in ToSet(c) : m.ev = "set_pending" /\ k.ev = "set_active" => m.seqno < k.seqno

NotRotated == tap.seqno < Highest - 1

Sound(s, t, ts, c, p, cp, l) ==
  /\ BackfillOK(t, ts, s.cursor) /\ StreamOK(t, c, p) /\ CountersOK(t)
  /\ CoveredOK(s, t, ts, c, p, cp) /\ PhasesOK(s, t, c, cp) /\ CopyOK(s.entries, cp)
  /\ ConfirmedOK(s, t, cp) /\ EndingOK(s, t, c, cp, l) /\ PendingOK(t, c, cp)
Strong == Sound(src, tap, tasks, toC, toP, copy, lapse)

Properties == NothingLeftBehind /\ ResumePointSound /\ ActiveIsComplete
IInv == TypeOK /\ EntriesInv /\ Properties /\ (Regular => Strong)

-----------------------------------------------------------------------------
(***************************************************************************)
(* What the steps of the producer keep.                                    *)
(***************************************************************************)
SameLog(t, u) ==
  /\ u.exists = t.exists /\ u.connected = t.connected
  /\ u.log = t.log /\ u.seqno = t.seqno /\ u.seqnoReceived = t.seqnoReceived
  /\ u.isLastAckSucceed = t.isLastAckSucceed /\ u.isSeqNumRotated = t.isSeqNumRotated
  /\ u.lastSeqNum = t.lastSeqNum
SameQueues(t, u) == u.queue = t.queue /\ u.fetched = t.fetched /\ u.jobs = t.jobs
SameMessages(t, u) == /\ u.checkpointMsgs = t.checkpointMsgs
                      /\ u.checkpointMsgCounter = t.checkpointMsgCounter
SameHigh(t, u) == u.high = t.high /\ u.opaqueMsgCounter = t.opaqueMsgCounter

LEMMA SeqModulusFacts ==
  /\ SeqModulus \in Nat \ {0} /\ Highest \in Nat
  /\ \A x \in Nat : (x + 1) % SeqModulus \in Nat
<1>1. SeqModulus \in Nat \ {0}
  BY BoundsAssumption
<1> QED
  BY <1>1 DEF Highest

LEMMA CheckBackfillFacts ==
  ASSUME NEW t \in TapRec
  PROVE  LET u == CheckBackfill(t)
         IN  /\ u \in TapRec
             /\ SameLog(t, u) /\ SameQueues(t, u) /\ SameMessages(t, u)
             /\ u.opaqueMsgCounter = t.opaqueMsgCounter
             /\ \/ u = t
                \/ /\ ~t.backfillCompleted /\ ~IsPendingBackfill(t) /\ BackfillQueueEmpty(t)
                   /\ t.log = <<>>
                   /\ u.backfillCompleted /\ ~u.backfillVBucket
                   /\ u.doRunBackfill = t.doRunBackfill
                   /\ u.pendingBackfill = t.pendingBackfill /\ u.diskBackfill = t.diskBackfill
                   /\ u.high = t.high \/ u.high = Append(t.high, "close_backfill")
<1> DEFINE u == CheckBackfill(t)
           h == IF t.backfillVBucket THEN Append(t.high, "close_backfill") ELSE t.high
<1>1. CASE u = t
  BY <1>1 DEF SameLog, SameQueues, SameMessages
<1>2. CASE u # t
  <2>1. /\ ~t.backfillCompleted /\ ~IsPendingBackfill(t) /\ BackfillQueueEmpty(t) /\ t.log = <<>>
        /\ u = [t EXCEPT !.backfillCompleted = TRUE, !.backfillVBucket = FALSE, !.high = h]
    BY <1>2 DEF CheckBackfill, TapRec
  <2>2. h \in Seq(HighEvents)
    <3>1. "close_backfill" \in HighEvents
      BY DEF HighEvents, Opaques
    <3>2. t.high \in Seq(HighEvents)
      BY DEF TapRec
    <3> QED
      BY <3>1, <3>2
  <2>3. h = t.high \/ h = Append(t.high, "close_backfill")
    OBVIOUS
  <2> HIDE DEF h, u
  <2>4. u \in TapRec
    BY <2>1, <2>2 DEF TapRec
  <2>5. SameLog(t, u) /\ SameQueues(t, u) /\ SameMessages(t, u)
    BY <2>1 DEF TapRec, SameLog, SameQueues, SameMessages
  <2>6. /\ u.opaqueMsgCounter = t.opaqueMsgCounter
        /\ u.backfillCompleted /\ ~u.backfillVBucket
        /\ u.doRunBackfill = t.doRunBackfill
        /\ u.pendingBackfill = t.pendingBackfill /\ u.diskBackfill = t.diskBackfill
        /\ u.high = h
    BY <2>1 DEF TapRec
  <2> QED
    BY <2>1, <2>3, <2>4, <2>5, <2>6 DEF u
<1> QED
  BY <1>1, <1>2

LEMMA DisconnectFacts ==
  ASSUME NEW t \in TapRec, NEW s
  PROVE  LET u == DisconnectIfIdle(t, s)
         IN  /\ u \in TapRec
             /\ SameLog(t, u) /\ SameQueues(t, u) /\ SameMessages(t, u) /\ SameHigh(t, u)
             /\ SameFlags(t, u)
<1> DEFINE u == DisconnectIfIdle(t, s)
<1>1. u = t \/ u = [t EXCEPT !.disconnect = TRUE]
  BY DEF DisconnectIfIdle
<1> HIDE DEF u
<1> QED
  BY <1>1, ZenonT(60) DEF TapRec, SameLog, SameQueues, SameMessages, SameHigh, SameFlags, u

\* m is the message ev of Send.
Sends(t, ev, n, u, m) ==
  /\ u \in TapRec
  /\ u.exists = t.exists /\ u.connected = t.connected
  /\ u.log = Append(t.log, [seqno |-> t.seqno, ev |-> ev, n |-> n])
  /\ u.seqnoReceived = t.seqnoReceived
  /\ u.isLastAckSucceed = t.isLastAckSucceed
  /\ u.lastSeqNum = (IF ev = "item" THEN t.seqno ELSE t.lastSeqNum)
  /\ SameQueues(t, u) /\ SameMessages(t, u) /\ SameHigh(t, u) /\ SameFlags(t, u)
  /\ t.seqno < Highest => u.seqno = t.seqno + 1 /\ u.isSeqNumRotated = t.isSeqNumRotated
  /\ m \in SentRec /\ m.seqno = t.seqno /\ m.ev = ev /\ m.n = n
  /\ ev # "item" => m.ack

LEMMA SendFacts ==
  ASSUME NEW t \in TapRec, NEW s, NEW ev \in Events, NEW n \in Nat, Send(t, s, ev, n)
  PROVE  src' = s /\ \E m : Sends(t, ev, n, tap', m) /\ toC' = Append(toC, m)
<1> DEFINE r == [seqno |-> t.seqno, ev |-> ev, n |-> n]
           a == [t EXCEPT !.log = Append(@, r)]
           b == [a EXCEPT !.lastSeqNum = IF ev = "item" THEN t.seqno ELSE @]
           c == [b EXCEPT !.seqno = (@ + 1) % SeqModulus]
           m == [seqno |-> t.seqno, ev |-> ev, n |-> n, ack |-> IsExplicit(a, s, ev)]
<1>1. /\ t.seqno \in Nat /\ t.log \in Seq(LogRec) /\ t.lastSeqNum \in Nat
  BY DEF TapRec
<1>2. r \in LogRec
  BY <1>1 DEF LogRec
<1>3. Append(t.log, r) \in Seq(LogRec)
  BY <1>1, <1>2
<1> HIDE DEF r
<1>4. a \in TapRec /\ a.seqno = t.seqno /\ a.lastSeqNum = t.lastSeqNum
  BY <1>3 DEF TapRec
<1>5. (IF ev = "item" THEN t.seqno ELSE a.lastSeqNum) \in Nat
  BY <1>1, <1>4
<1> DEFINE l == IF ev = "item" THEN t.seqno ELSE a.lastSeqNum
<1>6. b = [a EXCEPT !.lastSeqNum = l]
  BY <1>4 DEF TapRec
<1> HIDE DEF l, b
<1>7. b \in TapRec /\ b.seqno = t.seqno
  BY <1>4, <1>5, <1>6 DEF TapRec, l
<1>8. (b.seqno + 1) % SeqModulus \in Nat
  BY <1>1, <1>7, SeqModulusFacts
<1> DEFINE q == (b.seqno + 1) % SeqModulus
<1>9. c = [b EXCEPT !.seqno = q]
  BY <1>7 DEF TapRec
<1> HIDE DEF q, c
<1>10. c \in TapRec /\ c.seqno = q
  BY <1>7, <1>8, <1>9 DEF TapRec, q
<1>11. AckRequested(a, ev) = IF c.seqno = 0 THEN [c EXCEPT !.isSeqNumRotated = TRUE, !.seqno = 1] ELSE c
  BY <1>4 DEF AckRequested, Spend, b, c
<1>12. /\ tap' = AckRequested(a, ev) /\ src' = s /\ toC' = Append(toC, m)
  BY DEF Send, Logged, r
<1>13. /\ SameQueues(t, c) /\ SameMessages(t, c) /\ SameHigh(t, c) /\ SameFlags(t, c)
       /\ c.exists = t.exists /\ c.connected = t.connected
       /\ c.log = Append(t.log, r)
       /\ c.seqnoReceived = t.seqnoReceived
       /\ c.isLastAckSucceed = t.isLastAckSucceed
       /\ c.isSeqNumRotated = t.isSeqNumRotated
       /\ c.lastSeqNum = l
  <2>1. /\ SameQueues(t, a) /\ SameMessages(t, a) /\ SameHigh(t, a) /\ SameFlags(t, a)
        /\ a.exists = t.exists /\ a.connected = t.connected
        /\ a.log = Append(t.log, r)
        /\ a.seqnoReceived = t.seqnoReceived
        /\ a.isLastAckSucceed = t.isLastAckSucceed
        /\ a.isSeqNumRotated = t.isSeqNumRotated
    BY DEF TapRec, SameQueues, SameMessages, SameHigh, SameFlags
  <2> HIDE DEF a
  <2>2. /\ SameQueues(a, b) /\ SameMessages(a, b) /\ SameHigh(a, b) /\ SameFlags(a, b)
        /\ b.exists = a.exists /\ b.connected = a.connected
        /\ b.log = a.log
        /\ b.seqnoReceived = a.seqnoReceived
        /\ b.isLastAckSucceed = a.isLastAckSucceed
        /\ b.isSeqNumRotated = a.isSeqNumRotated
        /\ b.lastSeqNum = l
    BY <1>4, <1>6 DEF TapRec, SameQueues, SameMessages, SameHigh, SameFlags
  <2>3. /\ SameQueues(b, c) /\ SameMessages(b, c) /\ SameHigh(b, c) /\ SameFlags(b, c)
        /\ c.exists = b.exists /\ c.connected = b.connected
        /\ c.log = b.log
        /\ c.seqnoReceived = b.seqnoReceived
        /\ c.isLastAckSucceed = b.isLastAckSucceed
        /\ c.isSeqNumRotated = b.isSeqNumRotated
        /\ c.lastSeqNum = b.lastSeqNum
    BY <1>7, <1>9 DEF TapRec, SameQueues, SameMessages, SameHigh, SameFlags
  <2> QED
    BY <2>1, <2>2, <2>3 DEF SameQueues, SameMessages, SameHigh, SameFlags
<1>14. l = IF ev = "item" THEN t.seqno ELSE t.lastSeqNum
  BY <1>4 DEF l
<1>15. t.seqno < Highest => q = t.seqno + 1 /\ q # 0
  BY <1>1, <1>7, ModSmall DEF q
<1> DEFINE u == AckRequested(a, ev)
<1>16. CASE c.seqno = 0
  <2>1. u = [c EXCEPT !.isSeqNumRotated = TRUE, !.seqno = 1]
    BY <1>11, <1>16
  <2> HIDE DEF u
  <2>2. /\ u \in TapRec
        /\ SameQueues(c, u) /\ SameMessages(c, u) /\ SameHigh(c, u) /\ SameFlags(c, u)
        /\ u.exists = c.exists /\ u.connected = c.connected
        /\ u.log = c.log
        /\ u.seqnoReceived = c.seqnoReceived
        /\ u.isLastAckSucceed = c.isLastAckSucceed
        /\ u.lastSeqNum = c.lastSeqNum
    BY <1>10, <2>1 DEF TapRec, SameQueues, SameMessages, SameHigh, SameFlags
  <2>3. /\ SameQueues(t, u) /\ SameMessages(t, u) /\ SameHigh(t, u) /\ SameFlags(t, u)
    BY <1>13, <2>2 DEF SameQueues, SameMessages, SameHigh, SameFlags
  <2>4. ~(t.seqno < Highest)
    BY <1>10, <1>15, <1>16
  <2>5. m \in SentRec /\ m.seqno = t.seqno /\ m.ev = ev /\ m.n = n /\ (ev # "item" => m.ack)
    BY <1>1 DEF SentRec, IsExplicit
  <2> HIDE DEF m
  <2>6. Sends(t, ev, n, u, m)
    BY <1>13, <1>14, <2>2, <2>3, <2>4, <2>5 DEF Sends, r
  <2> QED
    BY <1>12, <2>6 DEF u
<1>17. CASE c.seqno # 0
  <2>1. u = c
    BY <1>11, <1>17
  <2>2. t.seqno < Highest => c.seqno = t.seqno + 1
    BY <1>10, <1>15
  <2>5. m \in SentRec /\ m.seqno = t.seqno /\ m.ev = ev /\ m.n = n /\ (ev # "item" => m.ack)
    BY <1>1 DEF SentRec, IsExplicit
  <2> HIDE DEF m, u
  <2>6. Sends(t, ev, n, c, m)
    BY <1>10, <1>13, <1>14, <2>2, <2>5 DEF Sends, r
  <2> QED
    BY <1>12, <2>1, <2>6 DEF u
<1> QED
  BY <1>16, <1>17

-----------------------------------------------------------------------------
(***************************************************************************)
(* The entries of the source.                                              *)
(***************************************************************************)
Good(E) == E \in Seq(EntryRec) /\ Chained(E) /\ Sorted(E) /\ Begun(E)

LEMMA EntryFacts ==
  ASSUME NEW E, Good(E)
  PROVE  /\ Len(E) \in Nat /\ Len(E) >= 2 /\ DOMAIN E = 1..Len(E)
         /\ \A i \in 1..Len(E) : /\ E[i] \in EntryRec /\ E[i].chk \in Nat /\ E[i].n \in Nat
                                 /\ E[i].ev \in {"dummy", "start", "item", "end"}
                                 /\ 2 <= E[i].chk /\ E[i].chk <= Newest(E)
         /\ Newest(E) \in Nat /\ Newest(E) >= 2
         /\ \A i \in 1..Len(E) : E[i].ev = "end" => E[i].chk < Newest(E)
<1>1. E \in Seq(EntryRec) /\ Chained(E) /\ Sorted(E)
  BY DEF Good
<1>2. Len(E) \in Nat /\ Len(E) >= 2 /\ DOMAIN E = 1..Len(E) /\ E[1].chk = 2
  BY <1>1 DEF Chained
<1>3. \A i \in 1..Len(E) : E[i] \in EntryRec
  BY <1>1
<1>4. \A i \in 1..Len(E) : /\ E[i].chk \in Nat /\ E[i].n \in Nat
                           /\ E[i].ev \in {"dummy", "start", "item", "end"}
  BY <1>3 DEF EntryRec
<1>5. \A i \in 1..Len(E) : 2 <= E[i].chk /\ E[i].chk <= Newest(E)
  <2>1. \A i, j \in 1..Len(E) : i <= j => E[i].chk <= E[j].chk
    BY <1>1 DEF Sorted
  <2> QED
    BY <1>2, <2>1 DEF Newest
<1>6. Newest(E) \in Nat /\ Newest(E) >= 2
  BY <1>2, <1>4, <1>5 DEF Newest
<1>7. ASSUME NEW i \in 1..Len(E), E[i].ev = "end"
      PROVE  E[i].chk < Newest(E)
  <2>1. i # Len(E)
    BY <1>1, <1>7 DEF Chained
  <2>2. i \in 1..(Len(E) - 1) /\ i + 1 \in 1..Len(E)
    <3>1. \A n \in Nat : \A k \in 1..n : k # n => k \in 1..(n - 1) /\ k + 1 \in 1..n
      OBVIOUS
    <3> QED
      BY <1>2, <2>1, <3>1
  <2>3. Follows(E[i], E[i + 1])
    BY <1>1, <2>2 DEF Chained
  <2>4. E[i + 1].chk = E[i].chk + 1
    BY <1>7, <2>3 DEF Follows
  <2> QED
    BY <1>4, <1>5, <1>6, <2>2, <2>4
<1> QED
  BY <1>2, <1>3, <1>4, <1>5, <1>6, <1>7

LEMMA EntryValues ==
  ASSUME NEW ev, NEW id, NEW n
  PROVE  /\ Entry(ev, id, n).ev = ev /\ Entry(ev, id, n).chk = id /\ Entry(ev, id, n).n = n
         /\ ev \in {"dummy", "start", "item", "end"} /\ id \in Nat /\ n \in Nat
              => Entry(ev, id, n) \in EntryRec
BY DEF Entry, EntryRec

LEMMA ItemsFacts ==
  ASSUME NEW E, Good(E), NEW i \in 0..Len(E)
  PROVE  /\ \A x : x \in Items(E, i) <=> \E j \in 1..i : E[j].ev = "item" /\ E[j].n = x
         /\ Items(E, i) \subseteq Nat /\ IsFiniteSet(Items(E, i))
         /\ \A j \in 0..i : Items(E, j) \subseteq Items(E, i)
<1>0. i \in Nat /\ 1..i \subseteq 1..Len(E) /\ Len(E) \in Nat
  BY EntryFacts
<1>1. \A j : \A x : x \in Items(E, j) <=> \E k \in 1..j : E[k].ev = "item" /\ E[k].n = x
  BY DEF Items
<1>2. Items(E, i) \subseteq Nat
  BY <1>0, <1>1, EntryFacts
<1>3. IsFiniteSet(Items(E, i))
  <2> DEFINE K == {k \in 1..i : E[k].ev = "item"}
             f == [k \in K |-> E[k].n]
  <2>1. IsFiniteSet(1..i)
    BY <1>0, FS_Interval
  <2>2. IsFiniteSet(K)
    BY <2>1, FS_Subset
  <2>3. f \in [K -> Items(E, i)]
    BY <1>1
  <2>4. \A y \in Items(E, i) : \E x \in K : f[x] = y
    BY <1>1
  <2> HIDE DEF K, f
  <2> QED
    BY <2>2, <2>3, <2>4, ImageFinite
<1>4. ASSUME NEW j \in 0..i
      PROVE  Items(E, j) \subseteq Items(E, i)
  <2>1. 1..j \subseteq 1..i
    BY <1>0
  <2> QED
    BY <1>1, <2>1
<1> QED
  BY <1>1, <1>2, <1>3, <1>4

\* The terms of the specification.
LEMMA SourceFacts ==
  ASSUME TypeOK, EntriesInv
  PROVE  /\ Good(src.entries) /\ DOMAIN src.entries = 1..Len(src.entries)
         /\ Len(src.entries) \in Nat /\ Len(src.entries) >= 2
         /\ OpenId = Newest(src.entries) /\ OpenId \in Nat /\ OpenId >= 2
         /\ src.first \in 2..OpenId /\ src.cursor \in 0..Len(src.entries)
         /\ src.cursor # 0 => src.entries[src.cursor].chk \in src.first..OpenId
         /\ \A i : ItemsUpTo(i) = Items(src.entries, i)
         /\ Written = Items(src.entries, Len(src.entries))
         /\ \A i : ChkAt(i) = src.entries[i].chk
         /\ ResumePoint = IF copy.open = 0 THEN 1 ELSE copy.open + IF copy.closed THEN 1 ELSE 0
         /\ src.entries \in Seq(EntryRec) /\ src.state \in {"active", "dead"}
         /\ src.cursor \in Nat
<1>1. src.entries \in Seq(EntryRec) /\ src.state \in {"active", "dead"}
      /\ src.cursor \in Nat /\ src.first \in Nat
  BY DEF TypeOK
<1>2. Good(src.entries)
  BY <1>1 DEF EntriesInv, Good
<1>3. /\ DOMAIN src.entries = 1..Len(src.entries)
      /\ Len(src.entries) \in Nat /\ Len(src.entries) >= 2
      /\ Newest(src.entries) \in Nat /\ Newest(src.entries) >= 2
      /\ \A i \in 1..Len(src.entries) : /\ src.entries[i].chk \in Nat
                                        /\ src.entries[i].chk <= Newest(src.entries)
  BY <1>2, EntryFacts
<1>4. OpenId = Newest(src.entries)
  BY DEF OpenId, Newest
<1>5. /\ src.first \in 2..OpenId /\ src.cursor \in 0..Len(src.entries)
      /\ src.cursor # 0 => src.entries[src.cursor].chk \in src.first..OpenId
  BY <1>1, <1>3, <1>4 DEF EntriesInv, CursorOK, Newest
<1>6. Written = Items(src.entries, Len(src.entries))
  BY <1>3 DEF Written, Items
<1>7. \A i : ItemsUpTo(i) = Items(src.entries, i)
  BY DEF ItemsUpTo, Items
<1> QED
  BY <1>1, <1>2, <1>3, <1>4, <1>5, <1>6, <1>7 DEF ChkAt, ResumePoint

LEMMA BeginningFacts ==
  ASSUME TypeOK, EntriesInv, NEW id \in 2..OpenId
  PROVE  /\ Beginning(id) \in 1..Len(src.entries) /\ Beginning(id) \in Nat \ {0}
         /\ src.entries[Beginning(id)].ev = "dummy" /\ src.entries[Beginning(id)].chk = id
         /\ \A i \in 1..Len(src.entries) :
              src.entries[i].ev = "item" /\ i <= Beginning(id) => src.entries[i].chk < id
<1> DEFINE E == src.entries
           b == Beginning(id)
<1>1. Good(E) /\ DOMAIN E = 1..Len(E) /\ Len(E) \in Nat /\ OpenId = Newest(E)
  BY SourceFacts
<1>2. \E i \in DOMAIN E : E[i] = Entry("dummy", id, 0)
  BY <1>1 DEF Good, Begun, Newest
<1>3. b \in DOMAIN E /\ E[b] = Entry("dummy", id, 0)
  BY <1>2 DEF Beginning
<1>4. b \in 1..Len(E) /\ E[b].ev = "dummy" /\ E[b].chk = id
  BY <1>1, <1>3, EntryValues
<1> HIDE DEF b
<1>5. ASSUME NEW i \in 1..Len(E), E[i].ev = "item", i <= b
      PROVE  E[i].chk < id
  <2>1. i < b
    BY <1>1, <1>4, <1>5
  <2> QED
    BY <1>1, <1>4, <2>1 DEF Good, Sorted
<1> QED
  BY <1>1, <1>4, <1>5 DEF b

\* What nextItem steps over from e to f.
Step(e, f) ==
  \/ e.ev = "dummy" /\ f.ev = "start" /\ f.chk = e.chk
  \/ e.ev \in {"start", "item"} /\ f.ev \in {"item", "end"} /\ f.chk = e.chk
  \/ e.ev = "end" /\ f.ev = "start" /\ f.chk = e.chk + 1

LEMMA NextFacts ==
  ASSUME TypeOK, EntriesInv, HasNext(src)
  PROVE  LET E == src.entries
             c == src.cursor
             d == NextPos
         IN  /\ c \in 1..Len(E) /\ d \in 1..Len(E) /\ c < d
             /\ Step(E[c], E[d]) /\ E[c].chk <= E[d].chk
             /\ \A x : x \in Items(E, d) <=>
                         (x \in Items(E, c) \/ (E[d].ev = "item" /\ x = E[d].n))
<1> DEFINE E == src.entries
           c == src.cursor
           d == NextPos
<1>1. Good(E) /\ Len(E) \in Nat
  BY SourceFacts
<1>2. c \in 1..(Len(E) - 1)
  BY DEF HasNext
<1>3. c \in 1..Len(E) /\ c + 1 \in 1..Len(E)
  BY <1>1, <1>2
<1>4. Follows(E[c], E[c + 1])
  BY <1>1, <1>2 DEF Good, Chained
<1>5. \A i \in 1..Len(E) : E[i].chk \in Nat
  BY <1>1, EntryFacts
<1>6. \A j : \A x : x \in Items(E, j) <=> \E k \in 1..j : E[k].ev = "item" /\ E[k].n = x
  BY DEF Items
<1>7. CASE E[c + 1].ev = "dummy"
  <2>1. c + 1 # Len(E)
    BY <1>1, <1>7 DEF Good, Chained
  <2>2. c + 1 \in 1..(Len(E) - 1) /\ c + 2 \in 1..Len(E)
    BY <1>1, <1>3, <2>1
  <2>3. Follows(E[c + 1], E[c + 2])
    <3>1. Follows(E[c + 1], E[(c + 1) + 1])
      BY <1>1, <2>2 DEF Good, Chained
    <3>2. (c + 1) + 1 = c + 2
      BY <1>2
    <3> QED
      BY <3>1, <3>2
  <2>4. d = c + 2
    BY <1>7 DEF NextPos
  <2>5. E[c].ev = "end" /\ E[c + 1].chk = E[c].chk + 1
    BY <1>4, <1>7 DEF Follows
  <2>6. E[c + 2].ev = "start" /\ E[c + 2].chk = E[c + 1].chk
    BY <1>7, <2>3 DEF Follows
  <2>7. \A k : k \in 1..(c + 2) <=> k \in 1..c \/ k = c + 1 \/ k = c + 2
    BY <1>2
  <2>8. \A x : x \in Items(E, c + 2) <=> x \in Items(E, c)
    BY <1>6, <1>7, <2>6, <2>7
  <2> QED
    BY <1>1, <1>3, <1>5, <2>2, <2>4, <2>5, <2>6, <2>8 DEF Step
<1>8. CASE E[c + 1].ev # "dummy"
  <2>1. d = c + 1
    BY <1>8 DEF NextPos
  <2>2. \A k : k \in 1..(c + 1) <=> k \in 1..c \/ k = c + 1
    BY <1>2
  <2>3. \A x : x \in Items(E, c + 1) <=>
                 (x \in Items(E, c) \/ (E[c + 1].ev = "item" /\ x = E[c + 1].n))
    BY <1>6, <2>2
  <2>4. Step(E[c], E[c + 1]) /\ E[c].chk <= E[c + 1].chk
    BY <1>3, <1>4, <1>5, <1>8 DEF Step, Follows
  <2> QED
    BY <1>1, <1>3, <2>1, <2>3, <2>4
<1> QED
  BY <1>7, <1>8

-----------------------------------------------------------------------------
(***************************************************************************)
(* Sequences in the order of their numbers.                                *)
(***************************************************************************)
Numbered(S) == \A x \in S : x.seqno \in Nat

LEMMA NumberedFacts == Numbered(LogRec) /\ Numbered(SentRec) /\ Numbered(AnswerRec)
BY DEF Numbered, LogRec, SentRec, AnswerRec

LEMMA ToSetFacts ==
  ASSUME NEW S, NEW s \in Seq(S)
  PROVE  /\ DOMAIN s = 1..Len(s) /\ Len(s) \in Nat
         /\ \A x : x \in ToSet(s) <=> \E i \in 1..Len(s) : s[i] = x
         /\ ToSet(s) \subseteq S
         /\ \A i \in 1..Len(s) : s[i] \in S /\ s[i] \in ToSet(s)
         /\ s = <<>> <=> ToSet(s) = {}
<1>1. DOMAIN s = 1..Len(s) /\ Len(s) \in Nat /\ \A i \in 1..Len(s) : s[i] \in S
  OBVIOUS
<1>2. \A x : x \in ToSet(s) <=> \E i \in 1..Len(s) : s[i] = x
  BY <1>1 DEF ToSet
<1>3. s = <<>> => ToSet(s) = {}
  BY <1>2
<1>4. s # <<>> => 1 \in 1..Len(s)
  OBVIOUS
<1> QED
  BY <1>1, <1>2, <1>3, <1>4

LEMMA EmptySet == ToSet(<<>>) = {} /\ Increasing(<<>>) /\ Len(<<>>) = 0
BY DEF ToSet, Increasing

LEMMA SameNumber ==
  ASSUME NEW S, NEW s \in Seq(S), Numbered(S), Increasing(s),
         NEW x \in ToSet(s), NEW y \in ToSet(s), x.seqno = y.seqno
  PROVE  x = y
<1>1. DOMAIN s = 1..Len(s) /\ Len(s) \in Nat
  BY ToSetFacts
<1>2. PICK i \in 1..Len(s), j \in 1..Len(s) : s[i] = x /\ s[j] = y
  BY ToSetFacts
<1>3. s[i].seqno \in Nat /\ s[j].seqno \in Nat
  BY ToSetFacts DEF Numbered
<1>4. ~(i < j) /\ ~(j < i)
  BY <1>1, <1>2, <1>3 DEF Increasing
<1> QED
  BY <1>1, <1>2, <1>4

LEMMA IncreasingAppend ==
  ASSUME NEW S, NEW s \in Seq(S), Numbered(S), Increasing(s), NEW x \in S,
         \A y \in ToSet(s) : y.seqno < x.seqno
  PROVE  Increasing(Append(s, x))
<1> DEFINE t == Append(s, x)
<1>1. /\ t \in Seq(S) /\ Len(t) = Len(s) + 1 /\ \A i \in 1..Len(s) : t[i] = s[i]
      /\ t[Len(s) + 1] = x
  BY AppendFacts
<1>2. DOMAIN s = 1..Len(s) /\ Len(s) \in Nat /\ \A i \in 1..Len(s) : s[i] \in ToSet(s)
  BY ToSetFacts
<1> HIDE DEF t
<1>3. DOMAIN t = 1..(Len(s) + 1)
  BY <1>1
<1>4. ASSUME NEW i \in DOMAIN t, NEW j \in DOMAIN t, i < j
      PROVE  t[i].seqno < t[j].seqno
  <2>1. i \in 1..Len(s)
    BY <1>2, <1>3, <1>4
  <2>2. CASE j \in 1..Len(s)
    <3>1. s[i].seqno < s[j].seqno
      BY <1>2, <1>4, <2>1, <2>2 DEF Increasing
    <3> QED
      BY <1>1, <2>1, <2>2, <3>1
  <2>3. CASE j = Len(s) + 1
    <3>1. s[i].seqno < x.seqno
      BY <1>2, <2>1
    <3> QED
      BY <1>1, <2>1, <2>3, <3>1
  <2> QED
    BY <1>2, <1>3, <2>2, <2>3
<1> QED
  BY <1>4 DEF Increasing, t

\* What comes after the i-th element has greater numbers, and is all that has.
LEMMA SuffixFacts ==
  ASSUME NEW S, NEW s \in Seq(S), Numbered(S), Increasing(s), NEW i \in 1..Len(s)
  PROVE  LET t == SubSeq(s, i + 1, Len(s))
         IN  /\ t \in Seq(S) /\ Increasing(t)
             /\ \A x : x \in ToSet(t) <=> x \in ToSet(s) /\ x.seqno > s[i].seqno
<1> DEFINE t == SubSeq(s, i + 1, Len(s))
<1>1. /\ t \in Seq(S) /\ Len(t) = Len(s) - i /\ \A j \in 1..(Len(s) - i) : t[j] = s[i + j]
      /\ ToSet(t) = {s[j] : j \in (i + 1)..Len(s)}
  BY SubSeqFacts
<1>2. DOMAIN s = 1..Len(s) /\ Len(s) \in Nat /\ i \in Nat
  BY ToSetFacts
<1> HIDE DEF t
<1>3. DOMAIN t = 1..(Len(s) - i)
  BY <1>1
<1>4. Increasing(t)
  <2>1. \A j, k \in 1..(Len(s) - i) : j < k => i + j \in 1..Len(s) /\ i + k \in 1..Len(s) /\ i + j < i + k
    BY <1>2
  <2> QED
    BY <1>1, <1>2, <1>3, <2>1, ZenonT(60) DEF Increasing
<1>5. \A j \in 1..Len(s) : s[j].seqno \in Nat
  BY ToSetFacts DEF Numbered
<1>6. \A j \in 1..Len(s) : j > i <=> s[j].seqno > s[i].seqno
  <2> TAKE j \in 1..Len(s)
  <2>1. j > i => s[i].seqno < s[j].seqno
    BY <1>2 DEF Increasing
  <2>2. j < i => s[j].seqno < s[i].seqno
    BY <1>2 DEF Increasing
  <2>3. j > i \/ j < i \/ j = i
    BY <1>2
  <2> QED
    BY <1>2, <1>5, <2>1, <2>2, <2>3
<1>7. \A j : j \in (i + 1)..Len(s) <=> j \in 1..Len(s) /\ j > i
  BY <1>2
<1>8. \A x : x \in ToSet(s) <=> \E j \in 1..Len(s) : s[j] = x
  BY ToSetFacts
<1>9. \A x : x \in ToSet(t) <=> \E j \in (i + 1)..Len(s) : s[j] = x
  BY <1>1
<1>10. \A x : x \in ToSet(t) <=> x \in ToSet(s) /\ x.seqno > s[i].seqno
  BY <1>6, <1>7, <1>8, <1>9
<1> QED
  BY <1>1, <1>4, <1>10 DEF t

\* The head has the least number.
LEMMA FirstFacts ==
  ASSUME NEW S, NEW s \in Seq(S), Numbered(S), Increasing(s), s # <<>>
  PROVE  /\ Head(s) \in S /\ Head(s) \in ToSet(s)
         /\ Tail(s) \in Seq(S) /\ Increasing(Tail(s))
         /\ \A x : x \in ToSet(Tail(s)) <=> x \in ToSet(s) /\ x.seqno > Head(s).seqno
         /\ \A x \in ToSet(s) : x = Head(s) \/ x \in ToSet(Tail(s))
<1>1. /\ Head(s) \in S /\ Tail(s) \in Seq(S) /\ Head(s) = s[1] /\ Len(s) \in Nat \ {0}
      /\ ToSet(s) = {Head(s)} \cup ToSet(Tail(s))
  BY HeadFacts
<1>2. Tail(s) = SubSeq(s, 1 + 1, Len(s))
  BY <1>1
<1>3. 1 \in 1..Len(s)
  BY <1>1
<1>4. LET t == SubSeq(s, 1 + 1, Len(s))
      IN  /\ t \in Seq(S) /\ Increasing(t)
          /\ \A x : x \in ToSet(t) <=> x \in ToSet(s) /\ x.seqno > s[1].seqno
  BY <1>3, SuffixFacts
<1> QED
  BY <1>1, <1>2, <1>4

-----------------------------------------------------------------------------
(***************************************************************************)
(* The numbers of a log.                                                   *)
(***************************************************************************)
LEMMA NumbersFacts ==
  ASSUME NEW log \in Seq(LogRec), NEW evs
  PROVE  /\ Numbers(log, evs) = Behind(log, 0, evs)
         /\ \A x : x \in Numbers(log, evs) <=> \E e \in ToSet(log) : e.ev \in evs /\ e.seqno = x
         /\ IsFiniteSet(Numbers(log, evs)) /\ Cardinality(Numbers(log, evs)) \in Nat
         /\ Cardinality(Numbers(log, evs)) = 0 => \A e \in ToSet(log) : e.ev \notin evs
<1>1. \A x : x \in Numbers(log, evs) <=> \E e \in ToSet(log) : e.ev \in evs /\ e.seqno = x
  BY DEF Numbers
<1>2. \A x : x \in Behind(log, 0, evs) <=>
               \E j \in (0 + 1)..Len(log) : log[j].ev \in evs /\ log[j].seqno = x
  BY DEF Behind
<1>3. 0 + 1 = 1 /\ 0 \in 0..Len(log)
  OBVIOUS
<1>4. \A e : e \in ToSet(log) <=> \E i \in 1..Len(log) : log[i] = e
  BY ToSetFacts
<1>5. Numbers(log, evs) = Behind(log, 0, evs)
  <2>1. \A x : x \in Behind(log, 0, evs) <=>
                 \E j \in 1..Len(log) : log[j].ev \in evs /\ log[j].seqno = x
    BY <1>2, <1>3
  <2>2. \A x : x \in Numbers(log, evs) <=>
                 \E j \in 1..Len(log) : log[j].ev \in evs /\ log[j].seqno = x
    BY <1>1, <1>4
  <2> QED
    BY <2>1, <2>2
<1>6. IsFiniteSet(Numbers(log, evs))
  BY <1>3, <1>5, BehindFinite
<1>7. Cardinality(Numbers(log, evs)) \in Nat
  BY <1>6, FS_CardinalityType
<1>8. Cardinality(Numbers(log, evs)) = 0 => Numbers(log, evs) = {}
  BY <1>6, FS_EmptySet
<1> QED
  BY <1>1, <1>5, <1>6, <1>7, <1>8

LEMMA NumbersAppend ==
  ASSUME NEW log \in Seq(LogRec), NEW r \in LogRec, NEW evs,
         \A e \in ToSet(log) : e.seqno < r.seqno
  PROVE  Cardinality(Numbers(Append(log, r), evs)) =
           Cardinality(Numbers(log, evs)) + IF r.ev \in evs THEN 1 ELSE 0
<1> DEFINE A == Numbers(log, evs)
           B == Numbers(Append(log, r), evs)
<1> SUFFICES Cardinality(B) = Cardinality(A) + IF r.ev \in evs THEN 1 ELSE 0
  OBVIOUS
<1>1. ToSet(Append(log, r)) = ToSet(log) \cup {r} /\ Append(log, r) \in Seq(LogRec)
  BY AppendFacts
<1>2. \A x : x \in B <=> \E e \in ToSet(log) \cup {r} : e.ev \in evs /\ e.seqno = x
  <2>1. \A x : x \in B <=> \E e \in ToSet(Append(log, r)) : e.ev \in evs /\ e.seqno = x
    BY <1>1, NumbersFacts
  <2> QED
    BY <1>1, <2>1
<1>3. /\ \A x : x \in A <=> \E e \in ToSet(log) : e.ev \in evs /\ e.seqno = x
      /\ IsFiniteSet(A) /\ Cardinality(A) \in Nat
  BY NumbersFacts
<1>4. \A e \in ToSet(log) : e.seqno # r.seqno
  BY ToSetFacts, NumberedFacts DEF Numbered
<1> HIDE DEF A, B
<1>5. r.seqno \notin A
  BY <1>3, <1>4
<1>6. CASE r.ev \in evs
  <2>1. B = A \cup {r.seqno}
    BY <1>2, <1>3, <1>6
  <2>2. Cardinality(A \cup {r.seqno}) = Cardinality(A) + 1
    BY <1>3, <1>5, FS_AddElement
  <2> QED
    BY <1>6, <2>1, <2>2
<1>7. CASE r.ev \notin evs
  <2>1. B = A
    BY <1>2, <1>3, <1>7
  <2> QED
    BY <1>3, <1>7, <2>1
<1> QED
  BY <1>6, <1>7

LEMMA NumbersEmpty ==
  ASSUME NEW evs
  PROVE  Cardinality(Numbers(<<>>, evs)) = 0
<1>1. Numbers(<<>>, evs) = {}
  BY EmptySet DEF Numbers
<1> QED
  BY <1>1, FS_EmptySet

\* The answer for the i-th element takes it and all before it from the log, where nothing
\* else of evs is before it.
LEMMA NumbersSuffix ==
  ASSUME NEW log \in Seq(LogRec), NEW i \in 1..Len(log), Increasing(log), NEW evs,
         \A e \in ToSet(log) : e.seqno < log[i].seqno => e.ev \notin evs
  PROVE  Cardinality(Numbers(log, evs)) =
           Cardinality(Numbers(SubSeq(log, i + 1, Len(log)), evs))
           + IF log[i].ev \in evs THEN 1 ELSE 0
<1> DEFINE t == SubSeq(log, i + 1, Len(log))
           A == Numbers(log, evs)
           B == Numbers(t, evs)
<1> SUFFICES Cardinality(A) = Cardinality(B) + IF log[i].ev \in evs THEN 1 ELSE 0
  OBVIOUS
<1>1. /\ t \in Seq(LogRec)
      /\ \A x : x \in ToSet(t) <=> x \in ToSet(log) /\ x.seqno > log[i].seqno
  BY SuffixFacts, NumberedFacts
<1> HIDE DEF t
<1>2. /\ \A x : x \in A <=> \E e \in ToSet(log) : e.ev \in evs /\ e.seqno = x
      /\ \A x : x \in B <=> \E e \in ToSet(t) : e.ev \in evs /\ e.seqno = x
      /\ IsFiniteSet(B) /\ Cardinality(B) \in Nat
  BY <1>1, NumbersFacts
<1>3. log[i] \in ToSet(log) /\ ToSet(log) \subseteq LogRec
  BY ToSetFacts
<1>4. \A e \in ToSet(log) : e.seqno \in Nat
  BY <1>3, NumberedFacts DEF Numbered
<1>5. \A e \in ToSet(log) : e.seqno = log[i].seqno => e = log[i]
  BY <1>3, SameNumber, NumberedFacts
<1>6. \A e \in ToSet(log) : e.ev \in evs => e = log[i] \/ e.seqno > log[i].seqno
  BY <1>3, <1>4, <1>5
<1> HIDE DEF A, B
<1>7. log[i].seqno \notin B
  BY <1>1, <1>2, <1>3, <1>4
<1>8. CASE log[i].ev \in evs
  <2>1. \A x : x \in A <=> x \in B \cup {log[i].seqno}
    BY <1>1, <1>2, <1>3, <1>6, <1>8
  <2>2. A = B \cup {log[i].seqno}
    BY <2>1
  <2>3. Cardinality(B \cup {log[i].seqno}) = Cardinality(B) + 1
    BY <1>2, <1>7, FS_AddElement
  <2> QED
    BY <1>8, <2>2, <2>3
<1>9. CASE log[i].ev \notin evs
  <2>1. \A x : x \in A <=> x \in B
    BY <1>1, <1>2, <1>3, <1>6, <1>9
  <2>2. A = B
    BY <2>1
  <2> QED
    BY <1>2, <1>9, <2>2
<1> QED
  BY <1>8, <1>9

-----------------------------------------------------------------------------
(***************************************************************************)
(* A part of the invariant and a step that has no effect on it.            *)
(***************************************************************************)
LEMMA BackfillFrame ==
  ASSUME NEW t, NEW u, NEW ts, NEW k, BackfillOK(t, ts, k), u.exists = t.exists, SameFlags(t, u)
  PROVE  BackfillOK(u, ts, k)
BY DEF BackfillOK, SameFlags

LEMMA StreamFrame ==
  ASSUME NEW t, NEW u, NEW c, NEW p, StreamOK(t, c, p), SameLog(t, u)
  PROVE  StreamOK(u, c, p)
<1>1. SeqnoAcked(u) = SeqnoAcked(t)
  BY DEF SeqnoAcked, SameLog
<1> QED
  BY <1>1 DEF StreamOK, SameLog, LogOK, SentOK, AnsweredOK, Awaited, AckedOK

LEMMA CountersFrame ==
  ASSUME NEW t, NEW u, CountersOK(t), u.log = t.log, SameMessages(t, u),
         u.opaqueMsgCounter = t.opaqueMsgCounter, u.doRunBackfill = t.doRunBackfill,
         "initial_stream" \in ToSet(u.high) => "initial_stream" \in ToSet(t.high)
  PROVE  CountersOK(u)
BY DEF CountersOK, SameMessages, Announced

LEMMA CoveredFrame ==
  ASSUME NEW s, NEW t, NEW ts, NEW c, NEW p, NEW cp, CoveredOK(s, t, ts, c, p, cp),
         NEW v, NEW u, NEW tu, NEW cu, NEW pu, NEW cpu,
         u.exists => t.exists,
         v.cursor # 0 => s.cursor # 0 /\ Items(v.entries, v.cursor) = Items(s.entries, s.cursor),
         \A x : x \in Kept(t, ts, c, p, cp.has) => x \in Kept(u, tu, cu, pu, cpu.has)
  PROVE  CoveredOK(v, u, tu, cu, pu, cpu)
BY DEF CoveredOK

LEMMA PhaseFrame ==
  ASSUME NEW s, NEW t, NEW c, NEW cp, PhasesOK(s, t, c, cp),
         NEW v, NEW u, NEW cu, NEW cpu,
         u.exists => t.exists,
         v.cursor # 0 => s.cursor # 0 /\ v.entries[v.cursor] = s.entries[s.cursor],
         cpu.state # "active" => cp.state # "active",
         cpu.open = cp.open, cpu.closed = cp.closed,
         u.backfillVBucket => t.backfillVBucket,
         Outstanding(u) = Outstanding(t),
         Delivered(u, cu) => Delivered(t, c),
         u.backfillVBucket /\ StreamPending(t, c) => StreamPending(u, cu)
  PROVE  PhasesOK(v, u, cu, cpu)
<1>1. \A e, out : PhaseOK(e, out, Delivered(t, c), cp) => PhaseOK(e, out, Delivered(u, cu), cpu)
  BY DEF PhaseOK, Fresh
<1> QED
  BY <1>1 DEF PhasesOK

LEMMA EndingFrame ==
  ASSUME NEW s, NEW t, NEW c, NEW cp, NEW l, EndingOK(s, t, c, cp, l),
         NEW v, NEW u, NEW cu, NEW cpu,
         v.state = s.state, v.entries = s.entries, cp.has \subseteq cpu.has,
         Ending(cu, cpu) => Ending(c, cp),
         Announced(u) => Announced(t)
  PROVE  EndingOK(v, u, cu, cpu, l)
BY DEF EndingOK

LEMMA PendingFrame ==
  ASSUME NEW t, NEW c, NEW cp, PendingOK(t, c, cp),
         NEW u, NEW cu, NEW cpu, cpu.state = cp.state, ToSet(cu) \subseteq ToSet(c),
         "set_pending" \in ToSet(u.high) => "set_pending" \in ToSet(t.high)
  PROVE  PendingOK(u, cu, cpu)
<1>1. Ending(cu, cpu) => Ending(c, cp)
  BY DEF Ending
<1> QED
  BY <1>1 DEF PendingOK

\* What is kept, element by element.
Comes(ts, x) ==
  \E i \in DOMAIN ts : /\ ts[i].own
                       /\ \/ ~ts[i].completed /\ x \in ToSet(ts[i].mem)
                          \/ ts[i].disk /\ x \in ToSet(ts[i].cold)

LEMMA KeptFacts ==
  ASSUME NEW t, NEW ts, NEW c, NEW p, NEW has, NEW x
  PROVE  x \in Kept(t, ts, c, p, has) <=>
           \/ x \in has \/ x \in ToSet(t.queue) \/ x \in ToSet(t.fetched) \/ x \in ToSet(t.jobs)
           \/ x \in InFlight(t, c, p) \/ Comes(ts, x)
<1> DEFINE M == {j \in DOMAIN ts : ts[j].own /\ ~ts[j].completed}
           D == {j \in DOMAIN ts : ts[j].own /\ ts[j].disk}
           A == UNION {ToSet(ts[i].mem) : i \in M}
           B == UNION {ToSet(ts[i].cold) : i \in D}
<1>0. ToCome(ts) = A \cup B
  BY DEF ToCome
<1>1. x \in ToCome(ts) <=> Comes(ts, x)
  <2>1. x \in A <=> \E i \in M : x \in ToSet(ts[i].mem)
    OBVIOUS
  <2>2. x \in B <=> \E i \in D : x \in ToSet(ts[i].cold)
    OBVIOUS
  <2> HIDE DEF A, B
  <2>3. x \in ToCome(ts) <=> (x \in A \/ x \in B)
    BY <1>0
  <2> QED
    BY <2>1, <2>2, <2>3 DEF Comes
<1> QED
  BY <1>1 DEF Kept

LEMMA OutstandingFacts ==
  ASSUME NEW t, NEW x
  PROVE  x \in Outstanding(t) <=>
           \/ x \in ToSet(t.checkpointMsgs)
           \/ \E e \in ToSet(t.log) : e.ev \in CheckpointEvents /\ x = Message(e.ev, e.n)
BY DEF Outstanding

LEMMA SameOutstanding ==
  ASSUME NEW t, NEW u, u.log = t.log, SameMessages(t, u)
  PROVE  Outstanding(u) = Outstanding(t)
BY DEF Outstanding, SameMessages

\* A message on its way is that of the log element with its number.
LEMMA SentIsLogged ==
  ASSUME NEW t \in TapRec, NEW c \in Seq(SentRec), NEW p, StreamOK(t, c, p),
         NEW m \in ToSet(c)
  PROVE  /\ t.connected
         /\ \E e \in ToSet(t.log) : e.seqno = m.seqno /\ e.ev = m.ev /\ e.n = m.n
         /\ \A e \in ToSet(t.log) : e.seqno = m.seqno => e.ev = m.ev /\ e.n = m.n
<1>1. t.log \in Seq(LogRec) /\ Increasing(t.log) /\ t.connected \in BOOLEAN
  BY DEF TapRec, StreamOK, LogOK
<1>2. PICK e \in ToSet(t.log) : e.seqno = m.seqno /\ e.ev = m.ev /\ e.n = m.n
  BY DEF StreamOK, SentOK
<1>3. \A f \in ToSet(t.log) : f.seqno = m.seqno => f = e
  BY <1>1, <1>2, SameNumber, NumberedFacts
<1>4. c # <<>>
  BY EmptySet
<1>5. t.connected
  BY <1>4 DEF StreamOK, SentOK
<1> QED
  BY <1>2, <1>3, <1>5

-----------------------------------------------------------------------------
(***************************************************************************)
(* Sending.                                                                *)
(***************************************************************************)
LEMMA SpendFacts ==
  ASSUME NEW t \in TapRec
  PROVE  LET u == Spend(t)
         IN  /\ u \in TapRec
             /\ u.exists = t.exists /\ u.connected = t.connected
             /\ u.log = t.log /\ u.seqnoReceived = t.seqnoReceived
             /\ u.isLastAckSucceed = t.isLastAckSucceed /\ u.isSeqNumRotated = t.isSeqNumRotated
             /\ u.lastSeqNum = t.lastSeqNum
             /\ t.seqno < Highest => u.seqno = t.seqno + 1
             /\ SameQueues(t, u) /\ SameMessages(t, u) /\ SameHigh(t, u) /\ SameFlags(t, u)
             /\ u.low = t.low
<1> DEFINE q == (t.seqno + 1) % SeqModulus
           u == Spend(t)
<1>1. t.seqno \in Nat /\ q \in Nat
  BY SeqModulusFacts DEF TapRec
<1>2. t.seqno < Highest => q = t.seqno + 1
  BY <1>1, ModSmall
<1>3. u = [t EXCEPT !.seqno = q]
  BY DEF Spend, TapRec
<1> HIDE DEF q, u
<1>4. u \in TapRec /\ u.seqno = q
  BY <1>1, <1>3 DEF TapRec
<1>5. /\ u.exists = t.exists /\ u.connected = t.connected
      /\ u.log = t.log /\ u.seqnoReceived = t.seqnoReceived
      /\ u.isLastAckSucceed = t.isLastAckSucceed /\ u.isSeqNumRotated = t.isSeqNumRotated
      /\ u.lastSeqNum = t.lastSeqNum
      /\ SameQueues(t, u) /\ SameMessages(t, u) /\ SameHigh(t, u) /\ SameFlags(t, u)
      /\ u.low = t.low
  BY <1>3 DEF TapRec, SameQueues, SameMessages, SameHigh, SameFlags
<1> QED
  BY <1>2, <1>4, <1>5 DEF u

\* A number may have been spent before the message got its own.
Ahead(t, u) ==
  /\ u.exists = t.exists /\ u.connected = t.connected
  /\ u.log = t.log /\ u.seqnoReceived = t.seqnoReceived
  /\ u.isLastAckSucceed = t.isLastAckSucceed /\ u.isSeqNumRotated = t.isSeqNumRotated
  /\ u.lastSeqNum = t.lastSeqNum
  /\ u.seqno = t.seqno \/ u.seqno = t.seqno + 1

Posts(t, ev, n, u, m) ==
  /\ u \in TapRec /\ m \in SentRec
  /\ u.exists = t.exists /\ u.connected = t.connected
  /\ m.ev = ev /\ m.n = n /\ (ev # "item" => m.ack)
  /\ t.seqno <= m.seqno /\ u.seqno = m.seqno + 1
  /\ u.log = Append(t.log, [seqno |-> m.seqno, ev |-> ev, n |-> n])
  /\ [seqno |-> m.seqno, ev |-> ev, n |-> n] \in LogRec
  /\ u.seqnoReceived = t.seqnoReceived
  /\ u.isLastAckSucceed = t.isLastAckSucceed /\ u.isSeqNumRotated = t.isSeqNumRotated
  /\ u.lastSeqNum = (IF ev = "item" THEN m.seqno ELSE t.lastSeqNum)

LEMMA PostsFacts ==
  ASSUME NEW t \in TapRec, NEW x \in TapRec, Ahead(t, x), t.seqno < Highest - 1,
         NEW ev \in Events, NEW n \in Nat, NEW u, NEW m, Sends(x, ev, n, u, m)
  PROVE  Posts(t, ev, n, u, m)
<1>1. t.seqno \in Nat /\ x.seqno \in Nat /\ Highest \in Nat
  BY HighestFacts DEF TapRec
<1>2. x.seqno < Highest /\ t.seqno <= x.seqno
  BY <1>1 DEF Ahead
<1>3. m.seqno = x.seqno /\ u.seqno = x.seqno + 1 /\ u.isSeqNumRotated = x.isSeqNumRotated
  BY <1>2 DEF Sends
<1>4. [seqno |-> m.seqno, ev |-> ev, n |-> n] \in LogRec
  BY <1>1, <1>3 DEF LogRec
<1>5. u.log = Append(t.log, [seqno |-> m.seqno, ev |-> ev, n |-> n])
  BY <1>3 DEF Sends, Ahead
<1>6. u.lastSeqNum = (IF ev = "item" THEN m.seqno ELSE t.lastSeqNum)
  BY <1>3 DEF Sends, Ahead
<1> QED
  BY <1>2, <1>3, <1>4, <1>5, <1>6 DEF Posts, Sends, Ahead

LEMMA PostedLog ==
  ASSUME NEW t \in TapRec, NEW ev, NEW n, NEW u, NEW m, Posts(t, ev, n, u, m)
  PROVE  LET r == [seqno |-> m.seqno, ev |-> ev, n |-> n]
         IN  /\ r \in LogRec /\ r.seqno = m.seqno /\ r.ev = ev /\ r.n = n
             /\ t.log \in Seq(LogRec) /\ u.log = Append(t.log, r) /\ u.log \in Seq(LogRec)
             /\ ToSet(u.log) = ToSet(t.log) \cup {r}
<1> DEFINE r == [seqno |-> m.seqno, ev |-> ev, n |-> n]
<1>1. r \in LogRec /\ u.log = Append(t.log, r)
  BY DEF Posts
<1>2. t.log \in Seq(LogRec)
  BY DEF TapRec
<1>3. r.seqno = m.seqno /\ r.ev = ev /\ r.n = n
  OBVIOUS
<1> HIDE DEF r
<1>4. ToSet(u.log) = ToSet(t.log) \cup {r} /\ u.log \in Seq(LogRec)
  BY <1>1, <1>2, AppendFacts
<1> QED
  BY <1>1, <1>2, <1>3, <1>4 DEF r

LEMMA PostStream ==
  ASSUME NEW t \in TapRec, NEW c \in Seq(SentRec), NEW p \in Seq(AnswerRec),
         StreamOK(t, c, p), t.connected,
         NEW ev, NEW n, NEW u, NEW m, Posts(t, ev, n, u, m)
  PROVE  StreamOK(u, Append(c, m), p)
<1> DEFINE r == [seqno |-> m.seqno, ev |-> ev, n |-> n]
           d == Append(c, m)
<1>1. /\ r \in LogRec /\ r.seqno = m.seqno /\ r.ev = ev /\ r.n = n
      /\ t.log \in Seq(LogRec) /\ u.log = Append(t.log, r)
      /\ ToSet(u.log) = ToSet(t.log) \cup {r}
  BY PostedLog
<1>2. m \in SentRec /\ ToSet(d) = ToSet(c) \cup {m}
  BY AppendFacts DEF Posts
<1>3. /\ \A e \in ToSet(t.log) : e.seqno \in Nat
      /\ \A x \in ToSet(c) : x.seqno \in Nat
      /\ \A a \in ToSet(p) : a.seqno \in Nat
  BY <1>1, ToSetFacts, NumberedFacts DEF Numbered
<1>4. /\ t.seqno \in Nat /\ m.seqno \in Nat /\ u.seqno = m.seqno + 1 /\ t.seqno <= m.seqno
      /\ t.seqnoReceived \in Int /\ t.lastSeqNum \in Nat
  BY <1>2 DEF TapRec, Posts, SentRec
<1>5. \A e \in ToSet(t.log) : 1 <= e.seqno /\ e.seqno < m.seqno
  BY <1>3, <1>4 DEF StreamOK, LogOK
<1> HIDE DEF r, d
<1>6. LogOK(u)
  <2>1. Increasing(u.log)
    BY <1>1, <1>5, IncreasingAppend, NumberedFacts DEF StreamOK, LogOK
  <2>2. t.seqno >= 1
    BY DEF StreamOK, LogOK
  <2>3. \A e \in ToSet(u.log) : 1 <= e.seqno /\ e.seqno < u.seqno
    BY <1>1, <1>3, <1>4, <1>5, <2>2
  <2> QED
    BY <1>4, <2>1, <2>2, <2>3 DEF LogOK
<1>7. SentOK(u, d)
  <2>1. \A x \in ToSet(c) : x.seqno < m.seqno
    BY <1>5 DEF StreamOK, SentOK
  <2>2. Increasing(d)
    BY <1>2, <2>1, IncreasingAppend, NumberedFacts DEF StreamOK, SentOK, d
  <2>3. \A x \in ToSet(d) : \E e \in ToSet(u.log) : e.seqno = x.seqno /\ e.ev = x.ev /\ e.n = x.n
    <3>1. \A x \in ToSet(c) : \E e \in ToSet(t.log) : e.seqno = x.seqno /\ e.ev = x.ev /\ e.n = x.n
      BY DEF StreamOK, SentOK
    <3>2. r.seqno = m.seqno /\ r.ev = m.ev /\ r.n = m.n
      BY <1>1 DEF Posts
    <3> QED
      BY <1>1, <1>2, <3>1, <3>2
  <2>4. u.connected
    BY DEF Posts
  <2> QED
    BY <2>2, <2>3, <2>4 DEF SentOK
<1>8. AnsweredOK(u, d, p)
  <2>1. /\ Increasing(p)
        /\ \A a \in ToSet(p) : \E e \in ToSet(t.log) : e.seqno = a.seqno /\ (~a.ok => e.ev = "item")
        /\ \A a \in ToSet(p), x \in ToSet(c) : a.seqno < x.seqno
    BY DEF StreamOK, AnsweredOK
  <2>2. \A a \in ToSet(p) : a.seqno < m.seqno
    BY <1>5, <2>1
  <2>3. u.connected
    BY DEF Posts
  <2>4. \A a \in ToSet(p) : \E e \in ToSet(u.log) : e.seqno = a.seqno /\ (~a.ok => e.ev = "item")
    BY <1>1, <2>1
  <2>5. \A a \in ToSet(p), x \in ToSet(d) : a.seqno < x.seqno
    BY <1>2, <2>1, <2>2
  <2> QED
    BY <2>1, <2>3, <2>4, <2>5 DEF AnsweredOK
<1>9. Awaited(u, d, p)
  <2>1. \A e \in ToSet(t.log) : e.ev # "item" =>
          \/ \E x \in ToSet(c) : x.seqno = e.seqno /\ x.ack
          \/ \E a \in ToSet(p) : a.seqno = e.seqno
    BY DEF StreamOK, Awaited
  <2>2. r.ev # "item" => m.seqno = r.seqno /\ m.ack
    BY <1>1 DEF Posts
  <2>3. \A e \in ToSet(u.log) : e.ev # "item" =>
          \/ \E x \in ToSet(d) : x.seqno = e.seqno /\ x.ack
          \/ \E a \in ToSet(p) : a.seqno = e.seqno
    BY <1>1, <1>2, <2>1, <2>2
  <2> QED
    BY <2>3 DEF Awaited
<1>10. AckedOK(u)
  <2>1. /\ \A e \in ToSet(t.log) : SeqnoAcked(t) < e.seqno
        /\ 0 <= t.seqnoReceived /\ t.seqnoReceived < t.seqno
        /\ \A e \in ToSet(t.log) : e.ev = "item" => e.seqno <= t.lastSeqNum
        /\ ~t.isSeqNumRotated
    BY DEF StreamOK, AckedOK
  <2>2. SeqnoAcked(u) = SeqnoAcked(t)
    BY DEF SeqnoAcked, Posts
  <2>3. SeqnoAcked(t) \in Int /\ SeqnoAcked(t) < m.seqno
    BY <1>4, <2>1 DEF SeqnoAcked
  <2>4. \A e \in ToSet(u.log) : SeqnoAcked(u) < e.seqno
    BY <1>1, <2>1, <2>2, <2>3
  <2>5. 0 <= u.seqnoReceived /\ u.seqnoReceived < u.seqno /\ ~u.isSeqNumRotated
    BY <1>4, <2>1 DEF Posts
  <2>6. \A e \in ToSet(u.log) : e.ev = "item" => e.seqno <= u.lastSeqNum
    <3>1. CASE ev = "item"
      <4>1. u.lastSeqNum = m.seqno
        BY <3>1 DEF Posts
      <4> QED
        BY <1>1, <1>3, <1>4, <1>5, <4>1
    <3>2. CASE ev # "item"
      <4>1. u.lastSeqNum = t.lastSeqNum
        BY <3>2 DEF Posts
      <4> QED
        BY <1>1, <2>1, <3>2, <4>1
    <3> QED
      BY <3>1, <3>2
  <2> QED
    BY <2>4, <2>5, <2>6 DEF AckedOK
<1>11. u.connected => u.exists
  BY DEF StreamOK, Posts
<1> QED
  BY <1>6, <1>7, <1>8, <1>9, <1>10, <1>11 DEF StreamOK, d

LEMMA PostNumbers ==
  ASSUME NEW t \in TapRec, NEW c, NEW p, StreamOK(t, c, p),
         NEW ev, NEW n, NEW u, NEW m, Posts(t, ev, n, u, m), NEW evs
  PROVE  Cardinality(Numbers(u.log, evs)) =
           Cardinality(Numbers(t.log, evs)) + IF ev \in evs THEN 1 ELSE 0
<1> DEFINE r == [seqno |-> m.seqno, ev |-> ev, n |-> n]
<1>1. /\ r \in LogRec /\ r.seqno = m.seqno /\ r.ev = ev
      /\ t.log \in Seq(LogRec) /\ u.log = Append(t.log, r)
  BY PostedLog
<1>2. /\ \A e \in ToSet(t.log) : e.seqno \in Nat
      /\ t.seqno \in Nat /\ m.seqno \in Nat /\ t.seqno <= m.seqno
  BY <1>1, ToSetFacts, NumberedFacts DEF Numbered, TapRec, Posts, SentRec
<1>3. \A e \in ToSet(t.log) : e.seqno < t.seqno
  BY DEF StreamOK, LogOK
<1> HIDE DEF r
<1>4. \A e \in ToSet(t.log) : e.seqno < r.seqno
  BY <1>1, <1>2, <1>3
<1> QED
  BY <1>1, <1>4, NumbersAppend

\* What is on its way stays on its way, and the new message is.
LEMMA PostInFlight ==
  ASSUME NEW t \in TapRec, NEW c \in Seq(SentRec), NEW p, t.connected,
         NEW ev, NEW n, NEW u, NEW m, Posts(t, ev, n, u, m), NEW x
  PROVE  /\ x \in InFlight(t, c, p) => x \in InFlight(u, Append(c, m), p)
         /\ ev = "item" => n \in InFlight(u, Append(c, m), p)
<1> DEFINE r == [seqno |-> m.seqno, ev |-> ev, n |-> n]
           d == Append(c, m)
<1>1. /\ r \in LogRec /\ r.seqno = m.seqno /\ r.ev = ev /\ r.n = n
      /\ ToSet(u.log) = ToSet(t.log) \cup {r}
  BY PostedLog
<1>2. ToSet(d) = ToSet(c) \cup {m}
  BY AppendFacts DEF Posts
<1>3. u.connected /\ n \in Nat
  BY DEF Posts, SentRec
<1> HIDE DEF r, d
<1>4. x \in InFlight(t, c, p) => x \in InFlight(u, d, p)
  BY <1>1, <1>2, <1>3 DEF InFlight
<1>5. ev = "item" => n \in InFlight(u, d, p)
  BY <1>1, <1>2, <1>3 DEF InFlight
<1> QED
  BY <1>4, <1>5 DEF d

LEMMA PostPhase ==
  ASSUME NEW t \in TapRec, NEW c \in Seq(SentRec), NEW p, StreamOK(t, c, p), t.connected,
         NEW ev, NEW n, NEW u, NEW m, Posts(t, ev, n, u, m)
  PROVE  /\ Delivered(u, Append(c, m)) => Delivered(t, c)
         /\ (\E x \in ToSet(c) : x.ev = "initial_stream")
              => \E x \in ToSet(Append(c, m)) : x.ev = "initial_stream"
         /\ ev = "initial_stream" => \E x \in ToSet(Append(c, m)) : x.ev = "initial_stream"
         /\ InLog(u.log, "initial_stream") => InLog(t.log, "initial_stream") \/ ev = "initial_stream"
         /\ \A cp : Ending(Append(c, m), cp) => Ending(c, cp) \/ ev = "set_active"
<1> DEFINE r == [seqno |-> m.seqno, ev |-> ev, n |-> n]
           d == Append(c, m)
<1>1. /\ r \in LogRec /\ r.seqno = m.seqno /\ r.ev = ev /\ r.n = n
      /\ ToSet(u.log) = ToSet(t.log) \cup {r}
  BY PostedLog
<1>2. ToSet(d) = ToSet(c) \cup {m} /\ m.ev = ev
  BY AppendFacts DEF Posts
<1> HIDE DEF r, d
<1>3. Delivered(u, d) => Delivered(t, c)
  BY <1>1, <1>2 DEF Delivered
<1>4. InLog(u.log, "initial_stream") => InLog(t.log, "initial_stream") \/ ev = "initial_stream"
  BY <1>1 DEF InLog
<1>5. \A cp : Ending(d, cp) => Ending(c, cp) \/ ev = "set_active"
  BY <1>2 DEF Ending
<1> QED
  BY <1>2, <1>3, <1>4, <1>5 DEF d

-----------------------------------------------------------------------------
(***************************************************************************)
(* Steps within the producer.                                              *)
(***************************************************************************)
Queued(t, x) == x \in ToSet(t.queue) \/ x \in ToSet(t.fetched) \/ x \in ToSet(t.jobs)

LEMMA KeptStep ==
  ASSUME NEW t, NEW u, NEW ts, NEW tu, NEW c, NEW p, NEW has, NEW more, has \subseteq more,
         u.log = t.log, u.connected = t.connected, NEW x,
         Queued(t, x) \/ Comes(ts, x) => Queued(u, x) \/ Comes(tu, x),
         x \in Kept(t, ts, c, p, has)
  PROVE  x \in Kept(u, tu, c, p, more)
<1>1. InFlight(u, c, p) = InFlight(t, c, p)
  BY DEF InFlight
<1>2. \/ x \in has \/ Queued(t, x)
      \/ x \in InFlight(t, c, p) \/ Comes(ts, x)
  BY KeptFacts DEF Queued
<1>3. \/ x \in more \/ Queued(u, x)
      \/ x \in InFlight(u, c, p) \/ Comes(tu, x)
  BY <1>1, <1>2
<1> QED
  BY <1>3, KeptFacts DEF Queued

LEMMA QuietSound ==
  ASSUME NEW s, NEW t, NEW ts, NEW c, NEW p, NEW cp, NEW l, Sound(s, t, ts, c, p, cp, l),
         NEW u, SameLog(t, u), SameFlags(t, u), SameMessages(t, u), SameHigh(t, u),
         \A x : Queued(t, x) => Queued(u, x)
  PROVE  Sound(s, u, ts, c, p, cp, l)
<1>1. u.exists = t.exists /\ u.log = t.log /\ u.connected = t.connected
      /\ u.backfillVBucket = t.backfillVBucket /\ u.high = t.high
      /\ u.opaqueMsgCounter = t.opaqueMsgCounter /\ u.doRunBackfill = t.doRunBackfill
  BY DEF SameLog, SameFlags, SameHigh
<1>2. BackfillOK(u, ts, s.cursor)
  BY <1>1, BackfillFrame DEF Sound
<1>3. StreamOK(u, c, p)
  BY StreamFrame DEF Sound
<1>4. CountersOK(u)
  BY <1>1, CountersFrame DEF Sound
<1>5. \A x : x \in Kept(t, ts, c, p, cp.has) => x \in Kept(u, ts, c, p, cp.has)
  BY <1>1, KeptStep
<1>6. CoveredOK(s, u, ts, c, p, cp)
  BY <1>1, <1>5, CoveredFrame DEF Sound
<1>7. Outstanding(u) = Outstanding(t)
  BY <1>1, SameOutstanding
<1>8. Delivered(u, c) = Delivered(t, c) /\ StreamPending(u, c) = StreamPending(t, c)
      /\ Announced(u) = Announced(t)
  BY <1>1 DEF Delivered, StreamPending, Announced
<1>9. PhasesOK(s, u, c, cp)
  BY <1>1, <1>7, <1>8, PhaseFrame DEF Sound
<1>10. ConfirmedOK(s, u, cp)
  BY <1>1 DEF Sound, ConfirmedOK
<1>11. EndingOK(s, u, c, cp, l)
  BY <1>8 DEF Sound, EndingOK
<1>12. PendingOK(u, c, cp)
  BY <1>1, PendingFrame DEF Sound
<1> QED
  BY <1>2, <1>3, <1>4, <1>6, <1>9, <1>10, <1>11, <1>12 DEF Sound

LEMMA NoOwnTask ==
  ASSUME NEW t, NEW ts, NEW k, BackfillOK(t, ts, k), ~IsPendingBackfill(t)
  PROVE  \A i \in DOMAIN ts : ~ts[i].own
<1>1. t.pendingBackfill = (IF Pending(ts) THEN 1 ELSE 0)
      /\ t.diskBackfill = (IF OnDisk(ts) THEN 1 ELSE 0)
      /\ ~(t.pendingBackfill > 0) /\ ~(t.diskBackfill > 0)
  BY DEF BackfillOK, IsPendingBackfill
<1>2. ~Pending(ts) /\ ~OnDisk(ts)
  BY <1>1
<1> QED
  BY <1>2 DEF BackfillOK, TasksOK, Pending, OnDisk, Finished

LEMMA NothingComes ==
  ASSUME NEW ts, \A i \in DOMAIN ts : ~ts[i].own
  PROVE  \A x : ~Comes(ts, x)
BY DEF Comes

\* With nothing in the log, in a queue and to come, what is kept is with the copy.
LEMMA KeptIsCopied ==
  ASSUME NEW t, BackfillQueueEmpty(t), t.log = <<>>,
         NEW ts, \A i \in DOMAIN ts : ~ts[i].own, NEW c, NEW p, NEW has
  PROVE  Kept(t, ts, c, p, has) \subseteq has
<1>1. \A x : ~Queued(t, x)
  BY EmptySet DEF Queued, BackfillQueueEmpty
<1>2. \A x : ~Comes(ts, x)
  BY NothingComes
<1>3. \A x : x \notin InFlight(t, c, p)
  BY EmptySet DEF InFlight
<1>4. ASSUME NEW x \in Kept(t, ts, c, p, has)
      PROVE  x \in has
  BY <1>1, <1>2, <1>3, KeptFacts DEF Queued
<1> QED
  BY <1>4

LEMMA CheckBackfillSound ==
  ASSUME NEW s, NEW t \in TapRec, NEW ts, NEW c, NEW p, NEW cp, NEW l,
         Sound(s, t, ts, c, p, cp, l)
  PROVE  Sound(s, CheckBackfill(t), ts, c, p, cp, l)
<1> DEFINE u == CheckBackfill(t)
<1>1. /\ u \in TapRec
      /\ SameLog(t, u) /\ SameQueues(t, u) /\ SameMessages(t, u)
      /\ u.opaqueMsgCounter = t.opaqueMsgCounter
      /\ \/ u = t
         \/ /\ ~t.backfillCompleted /\ ~IsPendingBackfill(t) /\ BackfillQueueEmpty(t)
            /\ t.log = <<>>
            /\ u.backfillCompleted /\ ~u.backfillVBucket
            /\ u.doRunBackfill = t.doRunBackfill
            /\ u.pendingBackfill = t.pendingBackfill /\ u.diskBackfill = t.diskBackfill
            /\ u.high = t.high \/ u.high = Append(t.high, "close_backfill")
  BY CheckBackfillFacts
<1> HIDE DEF u
<1> SUFFICES Sound(s, u, ts, c, p, cp, l)
  BY DEF u
<1>2. CASE u = t
  BY <1>2
<1>3. CASE u # t
  <2>1. /\ ~IsPendingBackfill(t) /\ BackfillQueueEmpty(t) /\ t.log = <<>>
        /\ u.backfillCompleted /\ ~u.backfillVBucket
        /\ u.doRunBackfill = t.doRunBackfill
        /\ u.pendingBackfill = t.pendingBackfill /\ u.diskBackfill = t.diskBackfill
        /\ u.high = t.high \/ u.high = Append(t.high, "close_backfill")
    BY <1>1, <1>3
  <2>2. \A i \in DOMAIN ts : ~ts[i].own
    BY <2>1, NoOwnTask DEF Sound
  <2>3. u.exists = t.exists /\ u.log = t.log /\ u.connected = t.connected
    BY <1>1 DEF SameLog
  <2>4. ~t.doRunBackfill
    BY <2>1 DEF IsPendingBackfill
  <2>5. BackfillOK(u, ts, s.cursor)
    <3>1. BackfillOK(t, ts, s.cursor)
      BY DEF Sound
    <3>2. u.backfillVBucket = ~u.backfillCompleted
      BY <1>1, <2>1 DEF TapRec
    <3> QED
      BY <2>1, <2>2, <2>3, <2>4, <3>1, <3>2 DEF BackfillOK
  <2>6. StreamOK(u, c, p)
    BY <1>1, StreamFrame DEF Sound
  <2>7. /\ "initial_stream" \in ToSet(u.high) => "initial_stream" \in ToSet(t.high)
        /\ "set_pending" \in ToSet(u.high) => "set_pending" \in ToSet(t.high)
    <3>1. t.high \in Seq(HighEvents) /\ "close_backfill" \in HighEvents
      BY DEF TapRec, HighEvents, Opaques
    <3>2. ToSet(Append(t.high, "close_backfill")) = ToSet(t.high) \cup {"close_backfill"}
      BY <3>1, AppendFacts
    <3>3. \A x \in {"initial_stream", "set_pending"} :
            x \in ToSet(Append(t.high, "close_backfill")) => x \in ToSet(t.high)
      BY <3>2
    <3> HIDE <3>2
    <3> QED
      BY <2>1, <3>3
  <2>8. CountersOK(u)
    BY <1>1, <2>1, <2>3, <2>7, CountersFrame DEF Sound
  <2>9. CoveredOK(s, u, ts, c, p, cp)
    <3>1. \A x : Queued(t, x) => Queued(u, x)
      BY <1>1 DEF Queued, SameQueues
    <3>2. \A x : x \in Kept(t, ts, c, p, cp.has) => x \in Kept(u, ts, c, p, cp.has)
      BY <2>3, <3>1, KeptStep
    <3> QED
      BY <2>3, <3>2, CoveredFrame DEF Sound
  <2>10. PhasesOK(s, u, c, cp)
    <3>1. Outstanding(u) = Outstanding(t)
      BY <1>1, <2>3, SameOutstanding
    <3>2. Delivered(u, c) => Delivered(t, c)
      BY <2>3 DEF Delivered
    <3>3. PhasesOK(s, t, c, cp)
      BY DEF Sound
    <3> QED
      BY <2>1, <2>3, <3>1, <3>2, <3>3, PhaseFrame
  <2>11. ConfirmedOK(s, u, cp)
    <3>1. Kept(t, ts, c, p, cp.has) \subseteq cp.has
      BY <2>1, <2>2, KeptIsCopied
    <3>2. CoveredOK(s, t, ts, c, p, cp)
      BY DEF Sound
    <3> QED
      BY <2>3, <3>1, <3>2 DEF CoveredOK, ConfirmedOK
  <2>12. EndingOK(s, u, c, cp, l)
    <3>1. Announced(u) => Announced(t)
      BY <2>3, <2>7 DEF Announced
    <3> QED
      BY <3>1 DEF Sound, EndingOK
  <2>13. PendingOK(u, c, cp)
    BY <2>7, PendingFrame DEF Sound
  <2> QED
    BY <2>5, <2>6, <2>8, <2>9, <2>10, <2>11, <2>12, <2>13 DEF Sound
<1> QED
  BY <1>2, <1>3

LEMMA DisconnectSound ==
  ASSUME NEW s, NEW t \in TapRec, NEW ts, NEW c, NEW p, NEW cp, NEW l,
         Sound(s, t, ts, c, p, cp, l), NEW v
  PROVE  Sound(s, DisconnectIfIdle(t, v), ts, c, p, cp, l)
<1> DEFINE u == DisconnectIfIdle(t, v)
<1>1. /\ SameLog(t, u) /\ SameQueues(t, u) /\ SameMessages(t, u) /\ SameHigh(t, u)
      /\ SameFlags(t, u)
  BY DisconnectFacts
<1> HIDE DEF u
<1>2. \A x : Queued(t, x) => Queued(u, x)
  BY <1>1 DEF Queued, SameQueues
<1>3. Sound(s, u, ts, c, p, cp, l)
  BY <1>1, <1>2, QuietSound
<1> QED
  BY <1>3 DEF u

-----------------------------------------------------------------------------
(***************************************************************************)
(* What the steps of walkTapQueue do to the producer.                      *)
(***************************************************************************)
Walked(x, ev, n) == \E m : Sends(x, ev, n, tap', m) /\ toC' = Append(toC, m)

LEMMA TapFacts ==
  ASSUME TypeOK
  PROVE  /\ tap \in TapRec
         /\ tap.high \in Seq(HighEvents) /\ tap.low \in Seq({"set_active"})
         /\ tap.checkpointMsgs \in Seq(MessageRec) /\ tap.queue \in Seq(Nat)
         /\ tap.fetched \in Seq(Nat) /\ tap.jobs \in Seq(Nat) /\ tap.log \in Seq(LogRec)
         /\ tap.opaqueMsgCounter \in Int /\ tap.checkpointMsgCounter \in Int
         /\ tap.seqno \in Nat /\ tap.pendingBackfill \in Nat /\ tap.diskBackfill \in Nat
         /\ tap.connected \in BOOLEAN /\ tap.exists \in BOOLEAN
         /\ tap.backfillVBucket \in BOOLEAN /\ tap.doRunBackfill \in BOOLEAN
         /\ tap.backfillCompleted \in BOOLEAN
BY DEF TypeOK, TapRec

LEMMA EventFacts ==
  /\ HighEvents \subseteq Events /\ CheckpointEvents \subseteq Events
  /\ "item" \in Events /\ "set_active" \in Events
  /\ "initial_stream" \in Opaques /\ Opaques \subseteq HighEvents
  /\ \A ev \in HighEvents : ev \notin CheckpointEvents /\ ev # "item" /\ ev # "set_active"
  /\ \A ev \in CheckpointEvents : ev \notin Opaques /\ ev # "item" /\ ev # "set_active"
                                  /\ ev # "initial_stream" /\ ev \notin HighEvents
  /\ "item" \notin Opaques /\ "set_active" \notin Opaques
  /\ "item" \notin CheckpointEvents /\ "set_active" \notin CheckpointEvents
BY DEF Events, HighEvents, CheckpointEvents, Opaques

LEMMA SendHighPriorityFacts ==
  ASSUME TypeOK, SendHighPriority
  PROVE  \E ev \in HighEvents, x \in TapRec :
           /\ tap.connected /\ src' = src /\ Walked(x, ev, 0)
           /\ ev \in ToSet(tap.high)
           /\ ToSet(tap.high) \subseteq ToSet(x.high) \cup {ev}
           /\ ToSet(x.high) \subseteq ToSet(tap.high)
           /\ x.opaqueMsgCounter = tap.opaqueMsgCounter + (IF ev \in Opaques THEN 1 ELSE 0)
           /\ SameQueues(tap, x) /\ SameMessages(tap, x) /\ SameFlags(tap, x)
           /\ tap.seqno < Highest => Ahead(tap, x)
<1> DEFINE ev == Head(tap.high)
           h == Tail(tap.high)
           q == tap.opaqueMsgCounter + IF ev \in Opaques THEN 1 ELSE 0
           y == [tap EXCEPT !.high = h, !.opaqueMsgCounter = q]
           x == Spend(y)
<1>1. tap \in TapRec /\ tap.high \in Seq(HighEvents) /\ tap.opaqueMsgCounter \in Int
  BY TapFacts
<1>2. tap.high # <<>> /\ tap.connected
  BY DEF SendHighPriority, Walks
<1>3. ev \in HighEvents /\ h \in Seq(HighEvents) /\ ToSet(tap.high) = {ev} \cup ToSet(h)
  BY <1>1, <1>2, HeadFacts
<1>4. q \in Int
  BY <1>1
<1>5. Send(x, src, ev, 0)
  BY DEF SendHighPriority
<1> HIDE DEF ev, h, q
<1>6. y \in TapRec
  BY <1>1, <1>3, <1>4 DEF TapRec
<1>7. /\ y.high = h /\ y.opaqueMsgCounter = q
      /\ SameLog(tap, y) /\ SameQueues(tap, y) /\ SameMessages(tap, y) /\ SameFlags(tap, y)
  BY <1>1 DEF TapRec, SameLog, SameQueues, SameMessages, SameFlags
<1> HIDE DEF y
<1>8. /\ x \in TapRec
      /\ x.exists = y.exists /\ x.connected = y.connected
      /\ x.log = y.log /\ x.seqnoReceived = y.seqnoReceived
      /\ x.isLastAckSucceed = y.isLastAckSucceed /\ x.isSeqNumRotated = y.isSeqNumRotated
      /\ x.lastSeqNum = y.lastSeqNum
      /\ y.seqno < Highest => x.seqno = y.seqno + 1
      /\ SameQueues(y, x) /\ SameMessages(y, x) /\ SameHigh(y, x) /\ SameFlags(y, x)
  BY <1>6, SpendFacts
<1> HIDE DEF x
<1>9. src' = src /\ Walked(x, ev, 0)
  BY <1>3, <1>5, <1>8, SendFacts, EventFacts DEF Walked
<1>10. /\ x.high = h /\ x.opaqueMsgCounter = q
       /\ SameQueues(tap, x) /\ SameMessages(tap, x) /\ SameFlags(tap, x)
  BY <1>7, <1>8 DEF SameQueues, SameMessages, SameFlags, SameHigh
<1>11. tap.seqno < Highest => Ahead(tap, x)
  BY <1>7, <1>8 DEF SameLog, Ahead
<1> QED
  BY <1>2, <1>3, <1>8, <1>9, <1>10, <1>11 DEF q

LEMMA RunBackfillFacts ==
  ASSUME TypeOK, RunBackfill
  PROVE  /\ tap' \in TapRec /\ tasks' = Append(tasks, NewTask) /\ tasks' \in Seq(TaskRec)
         /\ NewTask \in TaskRec
         /\ tap.high = <<>> /\ tap.opaqueMsgCounter = 0 /\ tap.doRunBackfill
         /\ SameLog(tap, tap') /\ SameQueues(tap, tap') /\ SameMessages(tap, tap')
         /\ SameHigh(tap, tap')
         /\ ~tap'.doRunBackfill /\ tap'.pendingBackfill = tap.pendingBackfill + 1
         /\ tap'.diskBackfill = tap.diskBackfill
         /\ tap'.backfillVBucket = tap.backfillVBucket
         /\ tap'.backfillCompleted = tap.backfillCompleted
<1>1. tap \in TapRec /\ tap.pendingBackfill \in Nat /\ tasks \in Seq(TaskRec)
  BY TapFacts DEF TypeOK
<1> DEFINE q == tap.pendingBackfill + 1
<1>2. q \in Nat
  BY <1>1
<1>3. tap' = [tap EXCEPT !.doRunBackfill = FALSE, !.pendingBackfill = q]
  BY DEF RunBackfill
<1>4. NewTask \in TaskRec
  BY DEF NewTask, TaskRec
<1>5. tap.high = <<>> /\ tap.opaqueMsgCounter = 0 /\ tap.doRunBackfill
      /\ tasks' = Append(tasks, NewTask)
  BY DEF RunBackfill, WalksOn
<1>6. tasks' \in Seq(TaskRec)
  BY <1>1, <1>4, <1>5
<1> HIDE DEF q
<1>7. tap' \in TapRec
  BY <1>1, <1>2, <1>3 DEF TapRec
<1>8. /\ SameLog(tap, tap') /\ SameQueues(tap, tap') /\ SameMessages(tap, tap')
      /\ SameHigh(tap, tap')
      /\ ~tap'.doRunBackfill /\ tap'.pendingBackfill = q
      /\ tap'.diskBackfill = tap.diskBackfill
      /\ tap'.backfillVBucket = tap.backfillVBucket
      /\ tap'.backfillCompleted = tap.backfillCompleted
  BY <1>1, <1>3 DEF TapRec, SameLog, SameQueues, SameMessages, SameHigh
<1> QED
  BY <1>4, <1>5, <1>6, <1>7, <1>8 DEF q

LEMMA SendCheckpointMessageFacts ==
  ASSUME TypeOK, SendCheckpointMessage
  PROVE  \E msg \in MessageRec, x \in TapRec :
           /\ tap.connected /\ src' = src /\ Walked(x, msg.ev, msg.n)
           /\ msg = Head(tap.checkpointMsgs) /\ tap.checkpointMsgs # <<>>
           /\ x.checkpointMsgs = Tail(tap.checkpointMsgs)
           /\ x.checkpointMsgCounter = tap.checkpointMsgCounter + 1
           /\ SameLog(tap, x) /\ SameQueues(tap, x) /\ SameHigh(tap, x) /\ SameFlags(tap, x)
<1> DEFINE msg == Head(tap.checkpointMsgs)
           h == Tail(tap.checkpointMsgs)
           q == tap.checkpointMsgCounter + 1
           x == [tap EXCEPT !.checkpointMsgs = h, !.checkpointMsgCounter = q]
<1>1. tap \in TapRec /\ tap.checkpointMsgs \in Seq(MessageRec) /\ tap.checkpointMsgCounter \in Int
  BY TapFacts
<1>2. tap.checkpointMsgs # <<>> /\ tap.connected
  BY DEF SendCheckpointMessage, WalksOn, Walks
<1>3. msg \in MessageRec /\ h \in Seq(MessageRec)
  BY <1>1, <1>2, HeadFacts
<1>4. q \in Int
  BY <1>1
<1>5. Send(x, src, msg.ev, msg.n)
  BY DEF SendCheckpointMessage
<1>6. msg.ev \in Events /\ msg.n \in Nat
  BY <1>3, EventFacts DEF MessageRec
<1> HIDE DEF msg, h, q
<1>7. x \in TapRec
  BY <1>1, <1>3, <1>4 DEF TapRec
<1>8. /\ x.checkpointMsgs = h /\ x.checkpointMsgCounter = q
      /\ SameLog(tap, x) /\ SameQueues(tap, x) /\ SameHigh(tap, x) /\ SameFlags(tap, x)
  BY <1>1 DEF TapRec, SameLog, SameQueues, SameHigh, SameFlags
<1> HIDE DEF x
<1>9. src' = src /\ Walked(x, msg.ev, msg.n)
  BY <1>5, <1>6, <1>7, SendFacts DEF Walked
<1> QED
  BY <1>2, <1>3, <1>7, <1>8, <1>9 DEF msg, h, q

LEMMA SendFetchedFacts ==
  ASSUME TypeOK, SendFetched
  PROVE  \E x \in TapRec :
           /\ tap.connected /\ src' = src /\ Walked(x, "item", Head(tap.fetched))
           /\ tap.fetched # <<>> /\ Head(tap.fetched) \in Nat
           /\ x.fetched = Tail(tap.fetched) /\ x.queue = tap.queue /\ x.jobs = tap.jobs
           /\ SameLog(tap, x) /\ SameMessages(tap, x) /\ SameHigh(tap, x) /\ SameFlags(tap, x)
<1> DEFINE h == Tail(tap.fetched)
           n == Head(tap.fetched)
           x == [tap EXCEPT !.fetched = h]
<1>1. tap \in TapRec /\ tap.fetched \in Seq(Nat)
  BY TapFacts
<1>2. tap.fetched # <<>> /\ tap.connected
  BY DEF SendFetched, WalksOn, Walks
<1>3. n \in Nat /\ h \in Seq(Nat)
  BY <1>1, <1>2, HeadFacts
<1>5. Send(x, src, "item", n)
  BY DEF SendFetched
<1> HIDE DEF h, n
<1>7. x \in TapRec
  BY <1>1, <1>3 DEF TapRec
<1>8. /\ x.fetched = h /\ x.queue = tap.queue /\ x.jobs = tap.jobs
      /\ SameLog(tap, x) /\ SameMessages(tap, x) /\ SameHigh(tap, x) /\ SameFlags(tap, x)
  BY <1>1 DEF TapRec, SameLog, SameMessages, SameHigh, SameFlags
<1> HIDE DEF x
<1>9. src' = src /\ Walked(x, "item", n)
  BY <1>3, <1>5, <1>7, SendFacts, EventFacts DEF Walked
<1> QED
  BY <1>2, <1>3, <1>7, <1>8, <1>9 DEF h, n

\* The item n is sent or waits for its value.
SentOrFetched(t, n) ==
  \/ Walked(t, "item", n)
  \/ /\ tap' \in TapRec /\ tap'.jobs = Append(t.jobs, n)
     /\ tap'.queue = t.queue /\ tap'.fetched = t.fetched
     /\ SameLog(t, tap') /\ SameMessages(t, tap') /\ SameHigh(t, tap') /\ SameFlags(t, tap')
     /\ toC' = toC

LEMMA SendOrFetchFacts ==
  ASSUME NEW t \in TapRec, NEW s, NEW n \in Nat, SendOrFetch(t, s, n)
  PROVE  src' = s /\ SentOrFetched(t, n)
<1>1. CASE Send(t, s, "item", n)
  BY <1>1, SendFacts, EventFacts DEF Walked, SentOrFetched
<1>2. CASE tap' = [t EXCEPT !.jobs = Append(@, n)] /\ src' = s /\ toC' = toC
  <2> DEFINE j == Append(t.jobs, n)
  <2>1. t.jobs \in Seq(Nat)
    BY DEF TapRec
  <2>2. j \in Seq(Nat)
    BY <2>1
  <2>3. tap' = [t EXCEPT !.jobs = j]
    BY <1>2
  <2> HIDE DEF j
  <2>4. tap' \in TapRec /\ tap'.jobs = j
    BY <2>2, <2>3 DEF TapRec
  <2>5. /\ tap'.queue = t.queue /\ tap'.fetched = t.fetched
        /\ SameLog(t, tap') /\ SameMessages(t, tap') /\ SameHigh(t, tap') /\ SameFlags(t, tap')
    BY <2>3 DEF TapRec, SameLog, SameMessages, SameHigh, SameFlags
  <2> QED
    BY <1>2, <2>4, <2>5 DEF SentOrFetched, j
<1> QED
  BY <1>1, <1>2 DEF SendOrFetch

LEMMA SendQueuedFacts ==
  ASSUME TypeOK, SendQueued
  PROVE  \E x \in TapRec :
           /\ tap.connected /\ src' = src /\ SentOrFetched(x, Head(tap.queue))
           /\ tap.queue # <<>> /\ Head(tap.queue) \in Nat
           /\ x.queue = Tail(tap.queue) /\ x.fetched = tap.fetched /\ x.jobs = tap.jobs
           /\ SameLog(tap, x) /\ SameMessages(tap, x) /\ SameHigh(tap, x) /\ SameFlags(tap, x)
<1> DEFINE h == Tail(tap.queue)
           n == Head(tap.queue)
           x == [tap EXCEPT !.queue = h]
<1>1. tap \in TapRec /\ tap.queue \in Seq(Nat)
  BY TapFacts
<1>2. tap.queue # <<>> /\ tap.connected
  BY DEF SendQueued, WalksItems, WalksOn, Walks
<1>3. n \in Nat /\ h \in Seq(Nat)
  BY <1>1, <1>2, HeadFacts
<1>5. SendOrFetch(x, src, n)
  BY DEF SendQueued
<1> HIDE DEF h, n
<1>7. x \in TapRec
  BY <1>1, <1>3 DEF TapRec
<1>8. /\ x.queue = h /\ x.fetched = tap.fetched /\ x.jobs = tap.jobs
      /\ SameLog(tap, x) /\ SameMessages(tap, x) /\ SameHigh(tap, x) /\ SameFlags(tap, x)
  BY <1>1 DEF TapRec, SameLog, SameMessages, SameHigh, SameFlags
<1> HIDE DEF x
<1>9. src' = src /\ SentOrFetched(x, n)
  BY <1>3, <1>5, <1>7, SendOrFetchFacts
<1> QED
  BY <1>2, <1>3, <1>7, <1>8, <1>9 DEF h, n

LEMMA BgFetchDoneFacts ==
  ASSUME TypeOK, BgFetchDone
  PROVE  /\ tap' \in TapRec /\ tap.jobs # <<>>
         /\ tap'.jobs = Tail(tap.jobs) /\ tap'.fetched = Append(tap.fetched, Head(tap.jobs))
         /\ tap'.queue = tap.queue
         /\ SameLog(tap, tap') /\ SameMessages(tap, tap') /\ SameHigh(tap, tap')
         /\ SameFlags(tap, tap')
<1> DEFINE h == Tail(tap.jobs)
           f == Append(tap.fetched, Head(tap.jobs))
<1>1. tap \in TapRec /\ tap.jobs \in Seq(Nat) /\ tap.fetched \in Seq(Nat)
  BY TapFacts
<1>2. tap.jobs # <<>> /\ tap' = [tap EXCEPT !.jobs = h, !.fetched = f]
  BY DEF BgFetchDone
<1>3. h \in Seq(Nat) /\ Head(tap.jobs) \in Nat
  BY <1>1, <1>2, HeadFacts
<1>4. f \in Seq(Nat)
  BY <1>1, <1>3
<1> HIDE DEF h, f
<1>5. tap' \in TapRec /\ tap'.jobs = h /\ tap'.fetched = f
  BY <1>1, <1>2, <1>3, <1>4 DEF TapRec
<1>6. /\ tap'.queue = tap.queue
      /\ SameLog(tap, tap') /\ SameMessages(tap, tap') /\ SameHigh(tap, tap')
      /\ SameFlags(tap, tap')
  BY <1>1, <1>2 DEF TapRec, SameLog, SameMessages, SameHigh, SameFlags
<1> QED
  BY <1>2, <1>5, <1>6 DEF h, f

SameAll(t, u) == /\ SameLog(t, u) /\ SameQueues(t, u) /\ SameMessages(t, u) /\ SameHigh(t, u)
                 /\ SameFlags(t, u)

SrcRec == [state : {"active", "dead"}, entries : Seq(EntryRec), first : Nat, cursor : Nat]

\* The source, but for its cursor.
MovedTo(s, v, k) ==
  /\ v \in SrcRec /\ v.cursor = k
  /\ v.state = s.state /\ v.entries = s.entries /\ v.first = s.first

LEMMA MovedFacts ==
  ASSUME NEW s \in SrcRec, NEW k \in Nat
  PROVE  MovedTo(s, [s EXCEPT !.cursor = k], k)
BY DEF SrcRec, MovedTo

\* The three outcomes of ReadCheckpoint that move the cursor, and the one that does not.
ReadsItem(t, e) ==
  /\ e.ev = "item" /\ MovedTo(src, src', NextPos)
  /\ \E x \in TapRec : SameAll(t, x) /\ SentOrFetched(x, e.n)
ReadsMessage(t, e) ==
  /\ e.ev \in CheckpointEvents /\ MovedTo(src, src', NextPos) /\ toC' = toC
  /\ e.ev = "end" => MayEndCheckpoint(t)
  /\ tap' \in TapRec /\ tap'.checkpointMsgs = Append(t.checkpointMsgs, Message(e.ev, e.chk))
  /\ Message(e.ev, e.chk) \in MessageRec
  /\ tap'.checkpointMsgCounter = t.checkpointMsgCounter
  /\ SameLog(t, tap') /\ SameQueues(t, tap') /\ SameHigh(t, tap') /\ SameFlags(t, tap')
Waits(t, e) ==
  /\ e.ev = "end" /\ src' = src /\ toC' = toC
  /\ tap' \in TapRec /\ SameAll(t, tap')

LEMMA ReadMessageFacts ==
  ASSUME NEW t \in TapRec, NEW ev \in CheckpointEvents, NEW k \in Nat, NEW b \in BOOLEAN,
         tap' = [t EXCEPT !.checkpointMsgs = Append(@, Message(ev, k)), !.atEnd = b]
  PROVE  /\ tap' \in TapRec /\ tap'.checkpointMsgs = Append(t.checkpointMsgs, Message(ev, k))
         /\ Message(ev, k) \in MessageRec
         /\ tap'.checkpointMsgCounter = t.checkpointMsgCounter
         /\ SameLog(t, tap') /\ SameQueues(t, tap') /\ SameHigh(t, tap') /\ SameFlags(t, tap')
<1> DEFINE h == Append(t.checkpointMsgs, Message(ev, k))
<1>1. Message(ev, k) \in MessageRec
  BY DEF Message, MessageRec
<1>2. t.checkpointMsgs \in Seq(MessageRec)
  BY DEF TapRec
<1>3. h \in Seq(MessageRec)
  BY <1>1, <1>2
<1>4. tap' = [t EXCEPT !.checkpointMsgs = h, !.atEnd = b]
  OBVIOUS
<1> HIDE DEF h
<1>5. tap' \in TapRec /\ tap'.checkpointMsgs = h
  BY <1>3, <1>4, ZenonT(60) DEF TapRec
<1>6. /\ tap'.checkpointMsgCounter = t.checkpointMsgCounter
      /\ SameLog(t, tap') /\ SameQueues(t, tap') /\ SameHigh(t, tap') /\ SameFlags(t, tap')
  BY <1>4 DEF TapRec, SameLog, SameQueues, SameHigh, SameFlags
<1> QED
  BY <1>1, <1>5, <1>6 DEF h

LEMMA ReadCheckpointFacts ==
  ASSUME TypeOK, EntriesInv, ReadCheckpoint
  PROVE  LET t == CheckBackfill(tap)
             e == src.entries[NextPos]
         IN  /\ tap.connected /\ HasNext(src) /\ t \in TapRec /\ t.backfillCompleted
             /\ tap.queue = <<>> /\ tap.fetched = <<>> /\ tap.checkpointMsgs = <<>>
             /\ tap.checkpointMsgCounter = 0
             /\ ReadsItem(t, e) \/ ReadsMessage(t, e) \/ Waits(t, e)
<1> DEFINE t == CheckBackfill(tap)
           e == src.entries[NextPos]
           s == [src EXCEPT !.cursor = NextPos]
           l == IsLastItem(NextPos)
           x == [t EXCEPT !.lastItem = l]
<1>1. /\ tap.connected /\ HasNext(src) /\ t.backfillCompleted
      /\ tap.queue = <<>> /\ tap.fetched = <<>> /\ tap.checkpointMsgs = <<>>
      /\ tap.checkpointMsgCounter = 0
  BY DEF ReadCheckpoint, WalksItems, WalksOn, Walks
<1>2. t \in TapRec
  BY TapFacts, CheckBackfillFacts
<1>3. NextPos \in 1..Len(src.entries)
  BY <1>1, NextFacts
<1>4. e.chk \in Nat /\ e.n \in Nat /\ NextPos \in Nat /\ src \in SrcRec
  <2>1. Good(src.entries) /\ Len(src.entries) \in Nat
    BY SourceFacts
  <2> QED
    BY <1>3, <2>1, EntryFacts DEF TypeOK, SrcRec
<1>5. MovedTo(src, s, NextPos)
  BY <1>4, MovedFacts
<1>6. \/ e.ev = "item" /\ SendOrFetch(x, s, e.n)
      \/ /\ e.ev = "start"
         /\ tap' = [t EXCEPT !.checkpointMsgs = Append(@, Message(e.ev, e.chk)), !.atEnd = FALSE]
         /\ src' = s /\ toC' = toC
      \/ /\ e.ev = "end" /\ MayEndCheckpoint(t)
         /\ tap' = [t EXCEPT !.checkpointMsgs = Append(@, Message(e.ev, e.chk)), !.atEnd = TRUE]
         /\ src' = s /\ toC' = toC
      \/ /\ e.ev = "end"
         /\ tap' = [t EXCEPT !.atEnd = TRUE] /\ src' = src /\ toC' = toC
  BY DEF ReadCheckpoint
<1>7. l \in BOOLEAN
  BY DEF IsLastItem
<1> HIDE DEF t, e, s, l
<1>8. x \in TapRec /\ SameAll(t, x)
  BY <1>2, <1>7 DEF TapRec, SameAll, SameLog, SameQueues, SameMessages, SameHigh, SameFlags
<1> HIDE DEF x
<1>9. CASE e.ev = "item" /\ SendOrFetch(x, s, e.n)
  <2>1. src' = s /\ SentOrFetched(x, e.n)
    BY <1>4, <1>8, <1>9, SendOrFetchFacts
  <2>2. ReadsItem(t, e)
    BY <1>5, <1>8, <1>9, <2>1 DEF ReadsItem
  <2> QED
    BY <1>1, <1>2, <2>2 DEF t, e
<1>10. ASSUME e.ev \in CheckpointEvents, e.ev = "end" => MayEndCheckpoint(t), NEW b \in BOOLEAN,
              tap' = [t EXCEPT !.checkpointMsgs = Append(@, Message(e.ev, e.chk)), !.atEnd = b],
              src' = s, toC' = toC
       PROVE  ReadsMessage(t, e)
  <2>1. /\ tap' \in TapRec /\ tap'.checkpointMsgs = Append(t.checkpointMsgs, Message(e.ev, e.chk))
        /\ Message(e.ev, e.chk) \in MessageRec
        /\ tap'.checkpointMsgCounter = t.checkpointMsgCounter
        /\ SameLog(t, tap') /\ SameQueues(t, tap') /\ SameHigh(t, tap') /\ SameFlags(t, tap')
    BY <1>2, <1>4, <1>10, ReadMessageFacts
  <2> QED
    BY <1>5, <1>10, <2>1 DEF ReadsMessage
<1>11. CASE /\ e.ev = "start"
            /\ tap' = [t EXCEPT !.checkpointMsgs = Append(@, Message(e.ev, e.chk)), !.atEnd = FALSE]
            /\ src' = s /\ toC' = toC
  <2>1. ReadsMessage(t, e)
    BY <1>10, <1>11 DEF CheckpointEvents
  <2> QED
    BY <1>1, <1>2, <2>1 DEF t, e
<1>12. CASE /\ e.ev = "end" /\ MayEndCheckpoint(t)
            /\ tap' = [t EXCEPT !.checkpointMsgs = Append(@, Message(e.ev, e.chk)), !.atEnd = TRUE]
            /\ src' = s /\ toC' = toC
  <2>1. ReadsMessage(t, e)
    BY <1>10, <1>12 DEF CheckpointEvents
  <2> QED
    BY <1>1, <1>2, <2>1 DEF t, e
<1>13. CASE /\ e.ev = "end"
            /\ tap' = [t EXCEPT !.atEnd = TRUE] /\ src' = src /\ toC' = toC
  <2>1. tap' \in TapRec /\ SameAll(t, tap')
    BY <1>2, <1>13 DEF TapRec, SameAll, SameLog, SameQueues, SameMessages, SameHigh, SameFlags
  <2>2. Waits(t, e)
    BY <1>13, <2>1 DEF Waits
  <2> QED
    BY <1>1, <1>2, <2>2 DEF t, e
<1> QED
  BY <1>6, <1>9, <1>11, <1>12, <1>13

\* The two outcomes of CompleteTakeover.
Activates(t) ==
  /\ t.log = <<>> /\ src'.state = "dead"
  /\ \E x \in TapRec : /\ Walked(x, "set_active", 0)
                       /\ t.seqno < Highest => Ahead(t, x)
                       /\ SameQueues(t, x) /\ SameMessages(t, x) /\ SameHigh(t, x) /\ SameFlags(t, x)
AsksAgain(t) ==
  /\ toC' = toC /\ tap' \in TapRec
  /\ t.seqno < Highest => Ahead(t, tap')
  /\ SameQueues(t, tap') /\ SameMessages(t, tap') /\ SameHigh(t, tap') /\ SameFlags(t, tap')

LEMMA CompleteTakeoverFacts ==
  ASSUME TypeOK, CompleteTakeover
  PROVE  LET t == CheckBackfill(tap)
         IN  /\ tap.connected /\ t \in TapRec /\ t.backfillCompleted
             /\ EmptyQueue(t, src)
             /\ src' \in SrcRec /\ src'.entries = src.entries /\ src'.first = src.first
             /\ src'.cursor = src.cursor /\ src'.state \in {src.state, "dead"}
             /\ Activates(t) \/ AsksAgain(t)
<1> DEFINE t == CheckBackfill(tap)
           dies == src.state = "active" /\ Len(tap.log) + 1 < MaxTakeoverLog
           s == IF dies THEN [src EXCEPT !.state = "dead"] ELSE src
           h == Tail(t.low)
           o == t.takeOverCompletionPhase \/ dies
           y == [t EXCEPT !.low = h, !.takeOverCompletionPhase = o]
           x == Spend(y)
           g == Append(h, "set_active")
           k == Len(tap.log)
<1>1. t \in TapRec /\ SameLog(tap, t) /\ tap \in TapRec /\ src \in SrcRec
  BY TapFacts, CheckBackfillFacts DEF TypeOK, SrcRec
<1>2. tap.connected /\ t.backfillCompleted /\ EmptyQueue(t, src) /\ t.low # <<>>
  BY DEF CompleteTakeover, WalksOn, Walks, MayCompleteTakeover
<1>3. t.low \in Seq({"set_active"}) /\ k \in Nat
  BY <1>1 DEF TapRec
<1>4. h \in Seq({"set_active"})
  BY <1>2, <1>3, HeadFacts
<1>5. g \in Seq({"set_active"}) /\ o \in BOOLEAN
  <2>1. "set_active" \in {"set_active"}
    OBVIOUS
  <2>2. g \in Seq({"set_active"})
    BY <1>4, <2>1
  <2> QED
    BY <2>2
<1>6. \/ t.log = <<>> /\ Send(x, s, "set_active", 0)
      \/ /\ tap' = [x EXCEPT !.low = Append(@, "set_active"), !.checked = k]
         /\ src' = s /\ toC' = toC
  BY DEF CompleteTakeover
<1>7. s \in SrcRec /\ s.entries = src.entries /\ s.first = src.first /\ s.cursor = src.cursor
      /\ s.state = (IF dies THEN "dead" ELSE src.state)
  BY <1>1 DEF SrcRec
<1>8. t.log = <<>> => s.state = "dead"
  <2> SUFFICES ASSUME t.log = <<>> PROVE s.state = "dead"
    OBVIOUS
  <2>1. tap.log = <<>>
    BY <1>1 DEF SameLog
  <2>2. MaxTakeoverLog \in Nat \ {0, 1}
    BY BoundsAssumption
  <2>3. Len(tap.log) + 1 < MaxTakeoverLog
    BY <2>1, <2>2, EmptySet
  <2>4. src.state \in {"active", "dead"}
    BY <1>1 DEF SrcRec
  <2> QED
    BY <1>7, <2>3, <2>4
<1>9. s.state \in {src.state, "dead"}
  BY <1>7
<1> HIDE DEF t, s, h, o, g, k
<1>10. y \in TapRec
  BY <1>1, <1>4, <1>5 DEF TapRec
<1>11. SameAll(t, y) /\ y.low = h
  BY <1>1 DEF TapRec, SameAll, SameLog, SameQueues, SameMessages, SameHigh, SameFlags
<1> HIDE DEF y
<1>12. /\ x \in TapRec
       /\ x.exists = y.exists /\ x.connected = y.connected
       /\ x.log = y.log /\ x.seqnoReceived = y.seqnoReceived
       /\ x.isLastAckSucceed = y.isLastAckSucceed /\ x.isSeqNumRotated = y.isSeqNumRotated
       /\ x.lastSeqNum = y.lastSeqNum
       /\ y.seqno < Highest => x.seqno = y.seqno + 1
       /\ SameQueues(y, x) /\ SameMessages(y, x) /\ SameHigh(y, x) /\ SameFlags(y, x)
       /\ x.low = y.low
  BY <1>10, SpendFacts
<1> HIDE DEF x
<1>13. /\ SameQueues(t, x) /\ SameMessages(t, x) /\ SameHigh(t, x) /\ SameFlags(t, x)
  BY <1>11, <1>12 DEF SameAll, SameQueues, SameMessages, SameHigh, SameFlags
<1>14. t.seqno < Highest => Ahead(t, x)
  BY <1>11, <1>12 DEF SameAll, SameLog, Ahead
<1>15. CASE t.log = <<>> /\ Send(x, s, "set_active", 0)
  <2>1. src' = s /\ Walked(x, "set_active", 0)
    BY <1>12, <1>15, SendFacts, EventFacts DEF Walked
  <2>2. Activates(t)
    BY <1>8, <1>12, <1>13, <1>14, <1>15, <2>1 DEF Activates
  <2> QED
    BY <1>1, <1>2, <1>7, <1>9, <2>1, <2>2 DEF t
<1>16. CASE /\ tap' = [x EXCEPT !.low = Append(@, "set_active"), !.checked = k]
            /\ src' = s /\ toC' = toC
  <2>1. tap' = [x EXCEPT !.low = g, !.checked = k]
    BY <1>11, <1>12, <1>16 DEF g
  <2>2. tap' \in TapRec
    BY <1>3, <1>5, <1>12, <2>1 DEF TapRec
  <2>3. SameAll(x, tap')
    BY <1>12, <2>1 DEF TapRec, SameAll, SameLog, SameQueues, SameMessages, SameHigh, SameFlags
  <2>4. /\ SameQueues(t, tap') /\ SameMessages(t, tap') /\ SameHigh(t, tap') /\ SameFlags(t, tap')
    BY <1>13, <2>3 DEF SameAll, SameQueues, SameMessages, SameHigh, SameFlags
  <2>5. t.seqno < Highest => Ahead(t, tap')
    BY <1>14, <2>3 DEF SameAll, SameLog, Ahead
  <2>6. AsksAgain(t)
    BY <1>16, <2>2, <2>4, <2>5 DEF AsksAgain
  <2> QED
    BY <1>1, <1>2, <1>7, <1>9, <1>16, <2>6 DEF t
<1> QED
  BY <1>6, <1>15, <1>16

-----------------------------------------------------------------------------
(***************************************************************************)
(* What backfill tasks do.                                                 *)
(***************************************************************************)
\* tu is ts with task in the place of its i-th, or without that if it is finished.
Updates(ts, i, task, tu) ==
  \E f \in [DOMAIN tu -> DOMAIN ts] :
    /\ \A j, k \in DOMAIN tu : f[j] = f[k] => j = k
    /\ \A j \in DOMAIN tu : tu[j] = IF f[j] = i THEN task ELSE ts[f[j]]
    /\ \A k \in DOMAIN ts : k # i \/ ~Finished(task) => \E j \in DOMAIN tu : f[j] = k
    /\ \A j \in DOMAIN tu : Finished(task) => f[j] # i

LEMMA UpdatedFacts ==
  ASSUME tasks \in Seq(TaskRec), NEW i \in DOMAIN tasks, NEW task \in TaskRec
  PROVE  Updated(i, task) \in Seq(TaskRec) /\ Updates(tasks, i, task, Updated(i, task))
<1> DEFINE n == Len(tasks)
           tu == Updated(i, task)
<1>1. n \in Nat /\ DOMAIN tasks = 1..n /\ i \in 1..n
  BY ToSetFacts
<1>2. CASE Finished(task)
  <2>1. tu = SubSeq(tasks, 1, i - 1) \o SubSeq(tasks, i + 1, n)
    BY <1>2 DEF Updated
  <2>2. /\ tu \in Seq(TaskRec) /\ Len(tu) = n - 1
        /\ \A j \in 1..(i - 1) : tu[j] = tasks[j]
        /\ \A j \in i..(n - 1) : tu[j] = tasks[j + 1]
    BY <1>1, <2>1, RemovedFacts, ZenonT(60)
  <2> DEFINE f == [j \in 1..(n - 1) |-> IF j < i THEN j ELSE j + 1]
  <2>3. DOMAIN tu = 1..(n - 1)
    BY <2>2
  <2> HIDE DEF tu
  <2>4. f \in [DOMAIN tu -> DOMAIN tasks]
    BY <1>1, <2>3
  <2>5. \A j, k \in DOMAIN tu : f[j] = f[k] => j = k
    BY <1>1, <2>3
  <2>6. \A j \in DOMAIN tu : f[j] # i
    BY <1>1, <2>3
  <2>7. \A j \in DOMAIN tu : tu[j] = tasks[f[j]]
    BY <1>1, <2>2, <2>3
  <2>8. ASSUME NEW k \in DOMAIN tasks, k # i
        PROVE  \E j \in DOMAIN tu : f[j] = k
    <3>1. CASE k < i
      <4>1. k \in DOMAIN tu /\ f[k] = k
        BY <1>1, <2>3, <3>1
      <4> QED
        BY <4>1
    <3>2. CASE k > i
      <4>1. k - 1 \in DOMAIN tu /\ f[k - 1] = k
        BY <1>1, <2>3, <3>2
      <4> QED
        BY <4>1
    <3> QED
      BY <1>1, <2>8, <3>1, <3>2
  <2> HIDE DEF f
  <2>9. Updates(tasks, i, task, tu)
    BY <1>2, <2>4, <2>5, <2>6, <2>7, <2>8 DEF Updates
  <2> QED
    BY <2>2, <2>9 DEF tu
<1>3. CASE ~Finished(task)
  <2>1. tu = [tasks EXCEPT ![i] = task]
    BY <1>3 DEF Updated
  <2>2. tu \in Seq(TaskRec) /\ DOMAIN tu = DOMAIN tasks
    BY <1>1, <2>1
  <2>3. \A j \in DOMAIN tasks : tu[j] = IF j = i THEN task ELSE tasks[j]
    BY <2>1
  <2> DEFINE f == [j \in DOMAIN tasks |-> j]
  <2> HIDE DEF tu
  <2>4. /\ f \in [DOMAIN tu -> DOMAIN tasks] /\ \A j \in DOMAIN tu : f[j] = j
    BY <2>2
  <2> HIDE DEF f
  <2>5. Updates(tasks, i, task, tu)
    BY <1>3, <2>2, <2>3, <2>4 DEF Updates
  <2> QED
    BY <2>2, <2>5 DEF tu
<1> QED
  BY <1>2, <1>3

\* What the invariant says of tasks, after such a change.
LEMMA UpdatesFacts ==
  ASSUME NEW ts, NEW i \in DOMAIN ts, NEW task, NEW tu, Updates(ts, i, task, tu),
         TasksOK(ts), task.own = ts[i].own, task.visited
  PROVE  /\ TasksOK(tu)
         /\ Pending(tu) <=> \/ task.own /\ ~task.completed
                            \/ \E k \in DOMAIN ts \ {i} : ts[k].own /\ ~ts[k].completed
         /\ OnDisk(tu) <=> \/ task.own /\ task.disk
                           \/ \E k \in DOMAIN ts \ {i} : ts[k].own /\ ts[k].disk
         /\ Unvisited(tu) <=> \E k \in DOMAIN ts \ {i} : ts[k].own /\ ~ts[k].visited
         /\ \A j \in DOMAIN tu : tu[j].own => \E k \in DOMAIN ts : ts[k].own
         /\ \A x : Comes(tu, x) <=>
              \/ /\ task.own
                 /\ \/ ~task.completed /\ x \in ToSet(task.mem)
                    \/ task.disk /\ x \in ToSet(task.cold)
              \/ \E k \in DOMAIN ts \ {i} :
                   /\ ts[k].own
                   /\ \/ ~ts[k].completed /\ x \in ToSet(ts[k].mem)
                      \/ ts[k].disk /\ x \in ToSet(ts[k].cold)
<1>1. PICK f \in [DOMAIN tu -> DOMAIN ts] :
        /\ \A j, k \in DOMAIN tu : f[j] = f[k] => j = k
        /\ \A j \in DOMAIN tu : tu[j] = IF f[j] = i THEN task ELSE ts[f[j]]
        /\ \A k \in DOMAIN ts : k # i \/ ~Finished(task) => \E j \in DOMAIN tu : f[j] = k
        /\ \A j \in DOMAIN tu : Finished(task) => f[j] # i
  BY DEF Updates
<1>2. \A j \in DOMAIN tu : tu[j].own = ts[f[j]].own /\ f[j] \in DOMAIN ts
  BY <1>1
<1>3. TasksOK(tu)
  <2>1. \A j, k \in DOMAIN tu : tu[j].own /\ tu[k].own => j = k
    BY <1>1, <1>2 DEF TasksOK
  <2>2. \A j \in DOMAIN tu : /\ tu[j].completed \/ tu[j].disk => tu[j].visited
                             /\ ~Finished(tu[j])
    BY <1>1, <1>2 DEF TasksOK
  <2> QED
    BY <2>1, <2>2 DEF TasksOK
<1>4. \A j \in DOMAIN tu : f[j] = i => tu[j] = task /\ ~Finished(task)
  BY <1>1
<1>5. \A j \in DOMAIN tu : f[j] # i => tu[j] = ts[f[j]] /\ f[j] \in DOMAIN ts \ {i}
  BY <1>1, <1>2
<1>6. \A k \in DOMAIN ts \ {i} : \E j \in DOMAIN tu : tu[j] = ts[k]
  BY <1>1
<1>7. ~Finished(task) => \E j \in DOMAIN tu : tu[j] = task
  BY <1>1
<1>8. \A j \in DOMAIN tu : tu[j] = task \/ \E k \in DOMAIN ts \ {i} : tu[j] = ts[k]
  BY <1>4, <1>5
<1>9. ~task.completed \/ task.disk => ~Finished(task)
  BY DEF Finished
<1>10. Pending(tu) <=> \/ task.own /\ ~task.completed
                       \/ \E k \in DOMAIN ts \ {i} : ts[k].own /\ ~ts[k].completed
  BY <1>6, <1>7, <1>8, <1>9 DEF Pending
<1>11. OnDisk(tu) <=> \/ task.own /\ task.disk
                      \/ \E k \in DOMAIN ts \ {i} : ts[k].own /\ ts[k].disk
  BY <1>6, <1>7, <1>8, <1>9 DEF OnDisk
<1>12. Unvisited(tu) <=> \E k \in DOMAIN ts \ {i} : ts[k].own /\ ~ts[k].visited
  BY <1>6, <1>8 DEF Unvisited
<1>13. \A x : Comes(tu, x) <=>
              \/ /\ task.own
                 /\ \/ ~task.completed /\ x \in ToSet(task.mem)
                    \/ task.disk /\ x \in ToSet(task.cold)
              \/ \E k \in DOMAIN ts \ {i} :
                   /\ ts[k].own
                   /\ \/ ~ts[k].completed /\ x \in ToSet(ts[k].mem)
                      \/ ts[k].disk /\ x \in ToSet(ts[k].cold)
  BY <1>6, <1>7, <1>8, <1>9 DEF Comes
<1>14. \A j \in DOMAIN tu : tu[j].own => \E k \in DOMAIN ts : ts[k].own
  BY <1>2
<1> QED
  BY <1>3, <1>10, <1>11, <1>12, <1>13, <1>14

LEMMA TaskFacts ==
  ASSUME TypeOK, NEW i \in DOMAIN tasks
  PROVE  /\ tasks \in Seq(TaskRec) /\ tasks[i] \in TaskRec
         /\ tasks[i].mem \in Seq(Nat) /\ tasks[i].cold \in Seq(Nat)
<1>1. tasks \in Seq(TaskRec)
  BY DEF TypeOK
<1>2. tasks[i] \in TaskRec
  BY <1>1
<1> QED
  BY <1>1, <1>2 DEF TaskRec

LEMMA VisitFacts ==
  ASSUME TypeOK, EntriesInv, NEW i \in DOMAIN tasks, Visit(i)
  PROVE  /\ MovedTo(src, src', Beginning(OpenId))
         /\ tap' \in TapRec /\ SameLog(tap, tap') /\ SameQueues(tap, tap')
         /\ SameMessages(tap, tap') /\ SameHigh(tap, tap')
         /\ tap'.doRunBackfill = tap.doRunBackfill
         /\ tap'.backfillCompleted = tap.backfillCompleted
         /\ tap'.backfillVBucket = tap.backfillVBucket
         /\ tap'.pendingBackfill = tap.pendingBackfill
         /\ tap'.diskBackfill = (IF Written # {} THEN tap.diskBackfill + 1 ELSE tap.diskBackfill)
         /\ tasks' \in Seq(TaskRec) /\ DOMAIN tasks' = DOMAIN tasks
         /\ \A j \in DOMAIN tasks : j # i => tasks'[j] = tasks[j]
         /\ tasks'[i].own = tasks[i].own /\ tasks'[i].completed = tasks[i].completed
         /\ tasks'[i].visited /\ (tasks'[i].disk <=> Written # {})
         /\ Written \subseteq ToSet(tasks'[i].mem) \cup ToSet(tasks'[i].cold)
<1>1. tap \in TapRec /\ src \in SrcRec /\ tap.diskBackfill \in Nat
  BY TapFacts DEF TypeOK, SrcRec
<1>2. OpenId \in 2..OpenId
  BY SourceFacts
<1>3. Beginning(OpenId) \in Nat
  BY <1>2, BeginningFacts
<1>4. src' = [src EXCEPT !.cursor = Beginning(OpenId)]
  BY DEF Visit
<1>5. MovedTo(src, src', Beginning(OpenId))
  BY <1>1, <1>3, <1>4, MovedFacts
<1>6. PICK cold \in SUBSET (ColdItems \cap Written) :
         tasks' = [tasks EXCEPT ![i] =
                     [tasks[i] EXCEPT !.visited = TRUE, !.disk = Written # {},
                               !.mem = SetToSeq(Written \ cold), !.cold = SetToSeq(cold)]]
  BY DEF Visit
<1>7. Written \subseteq Nat /\ IsFiniteSet(Written)
  <2>1. Written = Items(src.entries, Len(src.entries)) /\ Good(src.entries)
        /\ Len(src.entries) \in 0..Len(src.entries)
    BY SourceFacts
  <2> QED
    BY <2>1, ItemsFacts
<1> DEFINE M == SetToSeq(Written \ cold)
           C == SetToSeq(cold)
           task == [tasks[i] EXCEPT !.visited = TRUE, !.disk = Written # {}, !.mem = M, !.cold = C]
<1>8. M \in Seq(Nat) /\ ToSet(M) = Written \ cold
  <2>1. IsFiniteSet(Written \ cold)
    BY <1>7, FS_Subset
  <2> QED
    BY <1>7, <2>1, SetToSeqFacts
<1>9. C \in Seq(Nat) /\ ToSet(C) = cold
  <2>1. IsFiniteSet(cold)
    BY <1>7, FS_Subset
  <2> QED
    BY <1>7, <2>1, SetToSeqFacts
<1>10. tasks' = [tasks EXCEPT ![i] = task]
  BY <1>6
<1> HIDE DEF M, C
<1>11. /\ task \in TaskRec /\ task.own = tasks[i].own /\ task.completed = tasks[i].completed
       /\ task.visited /\ (task.disk <=> Written # {}) /\ task.mem = M /\ task.cold = C
  BY <1>8, <1>9, TaskFacts DEF TaskRec
<1> HIDE DEF task
<1>12. /\ tasks' \in Seq(TaskRec) /\ DOMAIN tasks' = DOMAIN tasks /\ tasks'[i] = task
       /\ \A j \in DOMAIN tasks : j # i => tasks'[j] = tasks[j]
  <2>1. tasks \in Seq(TaskRec)
    BY TaskFacts
  <2> QED
    BY <1>10, <1>11, <2>1
<1> DEFINE q == IF Written # {} THEN tap.diskBackfill + 1 ELSE tap.diskBackfill
<1>13. q \in Nat
  BY <1>1
<1>14. tap' = [tap EXCEPT !.diskBackfill = q]
  BY DEF Visit
<1> HIDE DEF q
<1>15. tap' \in TapRec /\ tap'.diskBackfill = q
  BY <1>1, <1>13, <1>14 DEF TapRec
<1>16. /\ SameLog(tap, tap') /\ SameQueues(tap, tap')
       /\ SameMessages(tap, tap') /\ SameHigh(tap, tap')
       /\ tap'.doRunBackfill = tap.doRunBackfill
       /\ tap'.backfillCompleted = tap.backfillCompleted
       /\ tap'.backfillVBucket = tap.backfillVBucket
       /\ tap'.pendingBackfill = tap.pendingBackfill
  BY <1>1, <1>14 DEF TapRec, SameLog, SameQueues, SameMessages, SameHigh
<1>17. Written \subseteq ToSet(M) \cup ToSet(C)
  BY <1>8, <1>9
<1> QED
  BY <1>5, <1>11, <1>12, <1>15, <1>16, <1>17 DEF q

\* The part of a task's last steps that does not change the tasks.
Loads(u) ==
  /\ u \in TapRec /\ SameLog(tap, u) /\ SameMessages(tap, u) /\ SameHigh(tap, u)
  /\ u.doRunBackfill = tap.doRunBackfill
  /\ u.backfillCompleted = tap.backfillCompleted
  /\ u.backfillVBucket = tap.backfillVBucket
  /\ \A x : Queued(tap, x) => Queued(u, x)

LEMMA DisconnectLoads ==
  ASSUME NEW t, Loads(t), NEW s
  PROVE  /\ Loads(DisconnectIfIdle(t, s))
         /\ DisconnectIfIdle(t, s).pendingBackfill = t.pendingBackfill
         /\ DisconnectIfIdle(t, s).diskBackfill = t.diskBackfill
         /\ \A x : Queued(t, x) => Queued(DisconnectIfIdle(t, s), x)
<1> DEFINE u == DisconnectIfIdle(t, s)
<1>1. /\ u \in TapRec
      /\ SameLog(t, u) /\ SameQueues(t, u) /\ SameMessages(t, u) /\ SameHigh(t, u)
      /\ SameFlags(t, u)
  BY DisconnectFacts DEF Loads
<1> HIDE DEF u
<1>2. \A x : Queued(t, x) => Queued(u, x)
  BY <1>1 DEF Queued, SameQueues
<1>3. Loads(u)
  BY <1>1, <1>2 DEF Loads, SameLog, SameMessages, SameHigh, SameFlags
<1>4. u.pendingBackfill = t.pendingBackfill /\ u.diskBackfill = t.diskBackfill
  BY <1>1 DEF SameFlags
<1> QED
  BY <1>2, <1>3, <1>4 DEF u

LEMMA CompleteFacts ==
  ASSUME TypeOK, NEW i \in DOMAIN tasks, Complete(i)
  PROVE  \E task \in TaskRec :
           /\ Loads(tap') /\ tap'.diskBackfill = tap.diskBackfill
           /\ tap'.pendingBackfill = (IF tap.pendingBackfill > 0 THEN tap.pendingBackfill - 1 ELSE 0)
           /\ tasks[i].own => \A x \in ToSet(tasks[i].mem) : Queued(tap', x)
           /\ tasks' \in Seq(TaskRec) /\ Updates(tasks, i, task, tasks')
           /\ tasks[i].visited /\ ~tasks[i].completed
           /\ task.own = tasks[i].own /\ task.visited /\ task.completed
           /\ task.disk = tasks[i].disk /\ task.cold = tasks[i].cold
<1>1. tap \in TapRec /\ tap.queue \in Seq(Nat) /\ tap.pendingBackfill \in Nat
  BY TapFacts
<1>2. /\ tasks \in Seq(TaskRec) /\ tasks[i] \in TaskRec /\ tasks[i].mem \in Seq(Nat)
  BY TaskFacts
<1>3. PICK valid \in {TRUE} \cup {tasks[i].own} :
        LET queued == IF valid THEN [tap EXCEPT !.queue = @ \o tasks[i].mem] ELSE tap
        IN  tap' = DisconnectIfIdle(
                     [queued EXCEPT !.pendingBackfill = IF @ > 0 THEN @ - 1 ELSE 0], src)
  BY DEF Complete
<1> DEFINE q == IF valid THEN tap.queue \o tasks[i].mem ELSE tap.queue
           k == IF tap.pendingBackfill > 0 THEN tap.pendingBackfill - 1 ELSE 0
           x == [tap EXCEPT !.queue = q, !.pendingBackfill = k]
           task == [tasks[i] EXCEPT !.completed = TRUE]
<1>4. k \in Nat
  BY <1>1
<1>5. /\ q \in Seq(Nat) /\ ToSet(tap.queue) \subseteq ToSet(q)
      /\ tasks[i].own => ToSet(tasks[i].mem) \subseteq ToSet(q)
  <2>1. /\ tap.queue \o tasks[i].mem \in Seq(Nat)
        /\ ToSet(tap.queue \o tasks[i].mem) = ToSet(tap.queue) \cup ToSet(tasks[i].mem)
    BY <1>1, <1>2, ConcatFacts
  <2>2. tasks[i].own => valid
    BY <1>3
  <2> QED
    BY <1>1, <2>1, <2>2
<1>6. tap' = DisconnectIfIdle(x, src)
  <2>1. CASE valid
    BY <1>1, <1>3, <2>1 DEF TapRec
  <2>2. CASE ~valid
    <3>1. tap' = DisconnectIfIdle([tap EXCEPT !.pendingBackfill = IF @ > 0 THEN @ - 1 ELSE 0], src)
      BY <1>3, <2>2
    <3>2. [tap EXCEPT !.pendingBackfill = IF @ > 0 THEN @ - 1 ELSE 0] = x
      BY <1>1, <2>2 DEF TapRec
    <3> QED
      BY <3>1, <3>2
  <2> QED
    BY <2>1, <2>2
<1> HIDE DEF q, k
<1>7. /\ x \in TapRec /\ x.queue = q /\ x.pendingBackfill = k
      /\ x.fetched = tap.fetched /\ x.jobs = tap.jobs /\ x.diskBackfill = tap.diskBackfill
      /\ SameLog(tap, x) /\ SameMessages(tap, x) /\ SameHigh(tap, x)
      /\ x.doRunBackfill = tap.doRunBackfill
      /\ x.backfillCompleted = tap.backfillCompleted
      /\ x.backfillVBucket = tap.backfillVBucket
  BY <1>1, <1>4, <1>5 DEF TapRec, SameLog, SameMessages, SameHigh
<1> HIDE DEF x
<1>8. /\ \A y : Queued(tap, y) => Queued(x, y)
      /\ tasks[i].own => \A y \in ToSet(tasks[i].mem) : Queued(x, y)
  BY <1>5, <1>7 DEF Queued
<1>9. Loads(x)
  BY <1>7, <1>8 DEF Loads
<1>10. /\ Loads(tap') /\ tap'.pendingBackfill = k /\ tap'.diskBackfill = tap.diskBackfill
       /\ \A y : Queued(x, y) => Queued(tap', y)
  BY <1>6, <1>7, <1>9, DisconnectLoads
<1>11. /\ task \in TaskRec /\ task.own = tasks[i].own /\ task.visited = tasks[i].visited
       /\ task.completed /\ task.disk = tasks[i].disk /\ task.cold = tasks[i].cold
  BY <1>2 DEF TaskRec
<1>12. tasks' = Updated(i, task) /\ tasks[i].visited /\ ~tasks[i].completed
  BY DEF Complete
<1> HIDE DEF task
<1>13. tasks' \in Seq(TaskRec) /\ Updates(tasks, i, task, tasks')
  BY <1>2, <1>11, <1>12, UpdatedFacts
<1> QED
  BY <1>8, <1>10, <1>11, <1>12, <1>13 DEF k

LEMMA LoadFromDiskFacts ==
  ASSUME TypeOK, NEW i \in DOMAIN tasks, LoadFromDisk(i)
  PROVE  \E task \in TaskRec :
           /\ Loads(tap') /\ tap'.pendingBackfill = tap.pendingBackfill
           /\ tap'.diskBackfill = (IF tap.diskBackfill > 0 THEN tap.diskBackfill - 1 ELSE 0)
           /\ tasks[i].own => \A x \in ToSet(tasks[i].cold) : Queued(tap', x)
           /\ tasks' \in Seq(TaskRec) /\ Updates(tasks, i, task, tasks')
           /\ tasks[i].disk
           /\ task.own = tasks[i].own /\ task.visited = tasks[i].visited /\ ~task.disk
           /\ task.completed = tasks[i].completed /\ task.mem = tasks[i].mem
<1>1. tap \in TapRec /\ tap.fetched \in Seq(Nat) /\ tap.diskBackfill \in Nat
  BY TapFacts
<1>2. /\ tasks \in Seq(TaskRec) /\ tasks[i] \in TaskRec /\ tasks[i].cold \in Seq(Nat)
  BY TaskFacts
<1> DEFINE accepted == tasks[i].own \/ tap.reconnected
           q == IF accepted THEN tap.fetched \o tasks[i].cold ELSE tap.fetched
           k == IF tap.diskBackfill > 0 THEN tap.diskBackfill - 1 ELSE 0
           x == [tap EXCEPT !.fetched = q, !.diskBackfill = k]
           task == [tasks[i] EXCEPT !.disk = FALSE]
<1>3. tap' = DisconnectIfIdle(x, src)
  BY DEF LoadFromDisk
<1>4. k \in Nat
  BY <1>1
<1>5. /\ q \in Seq(Nat) /\ ToSet(tap.fetched) \subseteq ToSet(q)
      /\ tasks[i].own => ToSet(tasks[i].cold) \subseteq ToSet(q)
  <2>1. /\ tap.fetched \o tasks[i].cold \in Seq(Nat)
        /\ ToSet(tap.fetched \o tasks[i].cold) = ToSet(tap.fetched) \cup ToSet(tasks[i].cold)
    BY <1>1, <1>2, ConcatFacts
  <2> QED
    BY <1>1, <2>1
<1> HIDE DEF q, k
<1>7. /\ x \in TapRec /\ x.fetched = q /\ x.diskBackfill = k
      /\ x.queue = tap.queue /\ x.jobs = tap.jobs /\ x.pendingBackfill = tap.pendingBackfill
      /\ SameLog(tap, x) /\ SameMessages(tap, x) /\ SameHigh(tap, x)
      /\ x.doRunBackfill = tap.doRunBackfill
      /\ x.backfillCompleted = tap.backfillCompleted
      /\ x.backfillVBucket = tap.backfillVBucket
  BY <1>1, <1>4, <1>5 DEF TapRec, SameLog, SameMessages, SameHigh
<1> HIDE DEF x
<1>8. /\ \A y : Queued(tap, y) => Queued(x, y)
      /\ tasks[i].own => \A y \in ToSet(tasks[i].cold) : Queued(x, y)
  BY <1>5, <1>7 DEF Queued
<1>9. Loads(x)
  BY <1>7, <1>8 DEF Loads
<1>10. /\ Loads(tap') /\ tap'.pendingBackfill = tap.pendingBackfill /\ tap'.diskBackfill = k
       /\ \A y : Queued(x, y) => Queued(tap', y)
  BY <1>3, <1>7, <1>9, DisconnectLoads
<1>11. /\ task \in TaskRec /\ task.own = tasks[i].own /\ task.visited = tasks[i].visited
       /\ task.completed = tasks[i].completed /\ ~task.disk /\ task.mem = tasks[i].mem
  BY <1>2 DEF TaskRec
<1>12. tasks' = Updated(i, task) /\ tasks[i].disk
  BY DEF LoadFromDisk
<1> HIDE DEF task
<1>13. tasks' \in Seq(TaskRec) /\ Updates(tasks, i, task, tasks')
  BY <1>2, <1>11, <1>12, UpdatedFacts
<1> QED
  BY <1>8, <1>10, <1>11, <1>12, <1>13 DEF k

-----------------------------------------------------------------------------
(***************************************************************************)
(* What the answers of the consumer do.                                    *)
(***************************************************************************)
\* What an answer leaves of the producer, but for the log and what was sent again.
Unanswered(t, u) ==
  /\ u \in TapRec
  /\ u.exists = t.exists /\ u.connected = t.connected /\ u.seqno = t.seqno
  /\ u.fetched = t.fetched /\ u.jobs = t.jobs
  /\ ~t.isSeqNumRotated => ~u.isSeqNumRotated
  /\ SameFlags(t, u)

LEMMA AnsweredFacts ==
  ASSUME TypeOK, NEW s \in Nat
  PROVE  LET u == Answered(s)
         IN  /\ Unanswered(tap, u)
             /\ u.seqnoReceived = s /\ ~u.isLastAckSucceed
             /\ ~tap.isSeqNumRotated => u.lastSeqNum = tap.lastSeqNum
             /\ u.log = tap.log /\ SameQueues(tap, u) /\ SameMessages(tap, u) /\ SameHigh(tap, u)
<1> DEFINE n == IF tap.isSeqNumRotated /\ s < tap.seqnoReceived THEN 0 ELSE tap.lastSeqNum
           b == tap.isSeqNumRotated /\ s >= tap.seqnoReceived
           u == [tap EXCEPT !.seqnoReceived = s, !.isLastAckSucceed = FALSE,
                            !.lastSeqNum = n, !.isSeqNumRotated = b]
<1>1. tap \in TapRec
  BY TapFacts
<1>2. u = Answered(s)
  BY <1>1 DEF Answered, TapRec
<1>3. /\ n \in Nat /\ b \in BOOLEAN
      /\ ~tap.isSeqNumRotated => n = tap.lastSeqNum /\ ~b
  BY <1>1 DEF TapRec
<1> HIDE DEF n, b
<1> DEFINE v == [tap EXCEPT !.seqnoReceived = s, !.isLastAckSucceed = FALSE]
<1>4. u \in TapRec
  <2>1. s \in Int /\ FALSE \in BOOLEAN
    OBVIOUS
  <2>2. v \in TapRec
    BY <1>1, <2>1 DEF TapRec
  <2>3. u = [v EXCEPT !.lastSeqNum = n, !.isSeqNumRotated = b]
    BY <1>1 DEF TapRec
  <2> HIDE DEF v
  <2>4. [v EXCEPT !.lastSeqNum = n, !.isSeqNumRotated = b] \in TapRec
    BY <1>3, <2>2 DEF TapRec
  <2> QED
    BY <2>3, <2>4
<1>5. /\ u.exists = tap.exists /\ u.connected = tap.connected /\ u.seqno = tap.seqno
      /\ u.fetched = tap.fetched /\ u.jobs = tap.jobs /\ SameFlags(tap, u)
      /\ u.log = tap.log /\ SameQueues(tap, u) /\ SameMessages(tap, u) /\ SameHigh(tap, u)
      /\ u.seqnoReceived = s /\ ~u.isLastAckSucceed
      /\ u.lastSeqNum = n /\ u.isSeqNumRotated = b
  BY <1>1 DEF TapRec, SameFlags, SameQueues, SameMessages, SameHigh
<1> HIDE DEF u
<1> QED
  BY <1>2, <1>3, <1>4, <1>5 DEF Unanswered

\* The i-th element of the log is acknowledged.
Acked(t, i, x) ==
  /\ Unanswered(t, x)
  /\ x.log = SubSeq(t.log, i + 1, Len(t.log))
  /\ x.seqnoReceived = t.log[i].seqno /\ x.isLastAckSucceed
  /\ ~t.isSeqNumRotated => x.lastSeqNum = t.lastSeqNum
  /\ SameQueues(t, x) /\ x.high = t.high /\ x.checkpointMsgs = t.checkpointMsgs
  /\ x.opaqueMsgCounter = t.opaqueMsgCounter - (IF t.log[i].ev \in Opaques THEN 1 ELSE 0)
  /\ x.checkpointMsgCounter =
       t.checkpointMsgCounter - (IF t.log[i].ev \in CheckpointEvents THEN 1 ELSE 0)

LEMMA AnswerFacts ==
  ASSUME TypeOK, toP # <<>>
  PROVE  /\ Head(toP) \in AnswerRec /\ Head(toP) \in ToSet(toP)
         /\ Head(toP).seqno \in Nat /\ Head(toP).ok \in BOOLEAN
         /\ toP \in Seq(AnswerRec) /\ Tail(toP) \in Seq(AnswerRec)
<1>1. toP \in Seq(AnswerRec)
  BY DEF TypeOK
<1>2. Head(toP) \in AnswerRec /\ Tail(toP) \in Seq(AnswerRec) /\ Head(toP) \in ToSet(toP)
  BY <1>1, HeadFacts
<1> QED
  BY <1>1, <1>2 DEF AnswerRec

LEMMA ReceiveAckFacts ==
  ASSUME TypeOK, ReceiveAck
  PROVE  /\ tap.connected /\ toP # <<>> /\ Head(toP).ok /\ toP' = Tail(toP)
         /\ \E x \in TapRec :
              /\ tap' = DisconnectIfIdle(CheckBackfill(x), src)
              /\ \/ \A i \in 1..Len(tap.log) : tap.log[i].seqno # Head(toP).seqno
                 \/ \E i \in 1..Len(tap.log) :
                      tap.log[i].seqno = Head(toP).seqno /\ Acked(tap, i, x)
<1> DEFINE s == Head(toP).seqno
           i == LogIndex(s)
           t == Answered(s)
           e == tap.log[i]
           c == Uncounted(t, e)
           l == After(i)
           b == t.atEnd /\ e.ev # "end"
           acked == [c EXCEPT !.log = l, !.isLastAckSucceed = TRUE, !.atEnd = b]
           x == IF i = 0 THEN t ELSE acked
<1>1. tap.connected /\ toP # <<>> /\ Head(toP).ok /\ toP' = Tail(toP)
  BY DEF ReceiveAck
<1>2. tap \in TapRec /\ tap.log \in Seq(LogRec)
  BY TapFacts
<1>3. s \in Nat
  BY <1>1, AnswerFacts
<1>4. /\ Unanswered(tap, t) /\ t \in TapRec
      /\ t.seqnoReceived = s
      /\ t.log = tap.log /\ SameQueues(tap, t) /\ SameMessages(tap, t) /\ SameHigh(tap, t)
      /\ ~tap.isSeqNumRotated => t.lastSeqNum = tap.lastSeqNum
  BY <1>3, AnsweredFacts DEF Unanswered
<1>5. CASE i = 0
  <2>1. tap' = DisconnectIfIdle(CheckBackfill(t), src)
    BY <1>5 DEF ReceiveAck
  <2>2. \A k \in 1..Len(tap.log) : tap.log[k].seqno # s
    BY <1>2, <1>5, LogIndexFacts
  <2> QED
    BY <1>1, <1>4, <2>1, <2>2
<1>6. CASE i # 0
  <2>1. i \in 1..Len(tap.log) /\ e.seqno = s
    BY <1>2, <1>6, LogIndexFacts
  <2>2. e \in LogRec
    BY <1>2, <2>1
  <2>3. l = SubSeq(tap.log, i + 1, Len(tap.log)) /\ l \in Seq(LogRec)
    BY <1>2, <2>1, SubSeqFacts DEF After
  <2>4. /\ c \in TapRec /\ SameStream(t, c) /\ SameFlags(t, c)
        /\ c.high = t.high /\ c.checkpointMsgs = t.checkpointMsgs /\ c.queue = t.queue
        /\ c.seqnoReceived = t.seqnoReceived /\ c.lastSeqNum = t.lastSeqNum
        /\ c.opaqueMsgCounter = t.opaqueMsgCounter - (IF e.ev \in Opaques THEN 1 ELSE 0)
        /\ c.checkpointMsgCounter =
             t.checkpointMsgCounter - (IF e.ev \in CheckpointEvents THEN 1 ELSE 0)
    BY <1>4, <2>2, UncountedFacts
  <2>5. tap' = DisconnectIfIdle(CheckBackfill(acked), src)
    <3>1. acked = [c EXCEPT !.log = l, !.isLastAckSucceed = TRUE,
                            !.atEnd = @ /\ e.ev # "end"]
      BY <1>4, <2>2 DEF Uncounted, TapRec
    <3> QED
      BY <1>6, <3>1 DEF ReceiveAck
  <2>6. b \in BOOLEAN
    OBVIOUS
  <2> HIDE DEF b, l, c, t, e, i
  <2>7. acked \in TapRec
    BY <2>3, <2>4, <2>6 DEF TapRec
  <2>8. /\ acked.exists = c.exists /\ acked.connected = c.connected /\ acked.seqno = c.seqno
        /\ acked.fetched = c.fetched /\ acked.jobs = c.jobs /\ SameFlags(c, acked)
        /\ acked.isSeqNumRotated = c.isSeqNumRotated
        /\ acked.log = l /\ acked.seqnoReceived = c.seqnoReceived /\ acked.isLastAckSucceed
        /\ acked.lastSeqNum = c.lastSeqNum
        /\ acked.queue = c.queue /\ acked.high = c.high /\ acked.checkpointMsgs = c.checkpointMsgs
        /\ acked.opaqueMsgCounter = c.opaqueMsgCounter
        /\ acked.checkpointMsgCounter = c.checkpointMsgCounter
    BY <2>4 DEF TapRec, SameFlags
  <2> HIDE DEF acked
  <2>9. Unanswered(tap, acked)
    BY <1>4, <2>4, <2>7, <2>8 DEF Unanswered, SameStream, SameFlags
  <2>10. Acked(tap, i, acked)
    <3>1. acked.log = SubSeq(tap.log, i + 1, Len(tap.log))
      BY <2>3, <2>8
    <3>2. acked.seqnoReceived = tap.log[i].seqno /\ acked.isLastAckSucceed
      BY <1>4, <2>1, <2>4, <2>8 DEF e
    <3>3. ~tap.isSeqNumRotated => acked.lastSeqNum = tap.lastSeqNum
      BY <1>4, <2>4, <2>8
    <3>4. SameQueues(tap, acked) /\ acked.high = tap.high /\ acked.checkpointMsgs = tap.checkpointMsgs
      BY <1>4, <2>4, <2>8 DEF SameQueues, SameMessages, SameHigh, SameStream
    <3>5. /\ acked.opaqueMsgCounter = tap.opaqueMsgCounter - (IF e.ev \in Opaques THEN 1 ELSE 0)
          /\ acked.checkpointMsgCounter =
               tap.checkpointMsgCounter - (IF e.ev \in CheckpointEvents THEN 1 ELSE 0)
      BY <1>4, <2>4, <2>8 DEF SameMessages, SameHigh
    <3> QED
      BY <2>9, <3>1, <3>2, <3>3, <3>4, <3>5 DEF Acked, e
  <2> QED
    BY <1>1, <2>1, <2>5, <2>7, <2>10 DEF e
<1> QED
  BY <1>5, <1>6

\* The i-th element of the log, an item, is refused.
Refused(t, i, u) ==
  /\ Unanswered(t, u)
  /\ u.log = SubSeq(t.log, i + 1, Len(t.log))
  /\ u.seqnoReceived = t.log[i].seqno /\ ~u.isLastAckSucceed
  /\ u.lastSeqNum = Highest
  /\ u.queue = Append(t.queue, t.log[i].n)
  /\ SameMessages(t, u) /\ SameHigh(t, u)

LEMMA ReceiveNackFacts ==
  ASSUME TypeOK, ReceiveNack
  PROVE  /\ tap.connected /\ toP # <<>> /\ ~Head(toP).ok /\ toP' = Tail(toP)
         /\ tap' \in TapRec
         /\ \/ \A i \in 1..Len(tap.log) : tap.log[i].seqno # Head(toP).seqno
            \/ \E i \in 1..Len(tap.log) :
                 /\ tap.log[i].seqno = Head(toP).seqno
                 /\ tap.log[i].ev = "item" => Refused(tap, i, tap')
<1> DEFINE s == Head(toP).seqno
           i == LogIndex(s)
           a == Answered(s)
           h == a.suspended \/ ~tap.takeOverCompletionPhase
           t == [a EXCEPT !.suspended = h]
           e == tap.log[i]
           q == Requeued(Uncounted(t, e), e)
           l == After(i)
           u == [q EXCEPT !.log = l]
<1>1. tap.connected /\ toP # <<>> /\ ~Head(toP).ok /\ toP' = Tail(toP)
  BY DEF ReceiveNack
<1>2. tap \in TapRec /\ tap.log \in Seq(LogRec)
  BY TapFacts
<1>3. s \in Nat
  BY <1>1, AnswerFacts
<1>4. /\ Unanswered(tap, a) /\ a \in TapRec
      /\ a.seqnoReceived = s /\ ~a.isLastAckSucceed
      /\ a.log = tap.log /\ SameQueues(tap, a) /\ SameMessages(tap, a) /\ SameHigh(tap, a)
  BY <1>3, AnsweredFacts DEF Unanswered
<1>5. t = [a EXCEPT !.suspended = @ \/ ~tap.takeOverCompletionPhase]
  BY <1>4 DEF TapRec
<1>6. h \in BOOLEAN
  BY <1>2, <1>4 DEF TapRec
<1> HIDE DEF a, h
<1>7. t \in TapRec
  BY <1>4, <1>6 DEF TapRec
<1>8. /\ t.exists = a.exists /\ t.connected = a.connected /\ t.seqno = a.seqno
      /\ t.fetched = a.fetched /\ t.jobs = a.jobs /\ SameFlags(a, t)
      /\ t.isSeqNumRotated = a.isSeqNumRotated
      /\ t.seqnoReceived = s /\ ~t.isLastAckSucceed
      /\ t.log = a.log /\ t.queue = a.queue /\ SameMessages(a, t) /\ SameHigh(a, t)
  BY <1>4 DEF TapRec, SameFlags, SameMessages, SameHigh
<1> HIDE DEF t
<1>9. CASE i = 0
  <2>1. tap' = [t EXCEPT !.log = <<>>]
    BY <1>5, <1>9 DEF ReceiveNack, a
  <2>2. tap' \in TapRec
    <3>1. <<>> \in Seq(LogRec)
      OBVIOUS
    <3> QED
      BY <1>7, <2>1, <3>1 DEF TapRec
  <2>3. \A k \in 1..Len(tap.log) : tap.log[k].seqno # s
    BY <1>2, <1>9, LogIndexFacts
  <2> QED
    BY <1>1, <2>2, <2>3
<1>10. CASE i # 0
  <2>1. i \in 1..Len(tap.log) /\ e.seqno = s
    BY <1>2, <1>10, LogIndexFacts
  <2>2. e \in LogRec
    BY <1>2, <2>1
  <2>3. l = SubSeq(tap.log, i + 1, Len(tap.log)) /\ l \in Seq(LogRec)
    BY <1>2, <2>1, SubSeqFacts DEF After
  <2>4. Requeues(t, e, q)
    BY <1>7, <2>2, RequeueFacts
  <2>5. tap' = u
    BY <1>5, <1>10 DEF ReceiveNack, a
  <2>6. q \in TapRec
    BY <2>4 DEF Requeues
  <2> HIDE DEF q, l
  <2>7. u \in TapRec
    BY <2>3, <2>6 DEF TapRec
  <2>8. /\ u.exists = q.exists /\ u.connected = q.connected /\ u.seqno = q.seqno
        /\ u.fetched = q.fetched /\ u.jobs = q.jobs /\ SameFlags(q, u)
        /\ u.isSeqNumRotated = q.isSeqNumRotated
        /\ u.log = l /\ u.seqnoReceived = q.seqnoReceived
        /\ u.isLastAckSucceed = q.isLastAckSucceed
        /\ u.lastSeqNum = q.lastSeqNum
        /\ u.queue = q.queue /\ SameHigh(q, u) /\ SameMessages(q, u)
    BY <2>6 DEF TapRec, SameFlags, SameHigh, SameMessages
  <2> HIDE DEF u, e, i, s
  <2>9. ASSUME e.ev = "item"
        PROVE  Refused(tap, i, u)
    <3>1. /\ SameStream(t, q) /\ SameFlags(t, q)
          /\ q.seqnoReceived = t.seqnoReceived /\ q.isLastAckSucceed = t.isLastAckSucceed
          /\ q.high = t.high /\ q.checkpointMsgs = t.checkpointMsgs
          /\ q.queue = Append(t.queue, e.n)
          /\ q.opaqueMsgCounter = t.opaqueMsgCounter - 0
          /\ q.checkpointMsgCounter = t.checkpointMsgCounter - 0
          /\ q.lastSeqNum = Highest
      BY <2>4, <2>9, EventFacts DEF Requeues
    <3>2. t.opaqueMsgCounter - 0 = t.opaqueMsgCounter
          /\ t.checkpointMsgCounter - 0 = t.checkpointMsgCounter
      BY <1>7 DEF TapRec
    <3>3. Unanswered(tap, u)
      BY <1>4, <1>8, <2>7, <2>8, <3>1 DEF Unanswered, SameStream, SameFlags
    <3>4. SameMessages(tap, u) /\ SameHigh(tap, u)
      BY <1>4, <1>8, <2>8, <3>1, <3>2 DEF SameMessages, SameHigh
    <3>5. u.queue = Append(tap.queue, e.n)
      BY <1>4, <1>8, <2>8, <3>1 DEF SameQueues
    <3> QED
      BY <1>8, <2>1, <2>3, <2>8, <3>1, <3>3, <3>4, <3>5 DEF Refused, e
  <2> QED
    BY <1>1, <2>1, <2>5, <2>7, <2>9 DEF e, s, i
<1> QED
  BY <1>9, <1>10

-----------------------------------------------------------------------------
(***************************************************************************)
(* What the consumer and the loss of a connection do.                      *)
(***************************************************************************)
CopyRec == [state : {"replica", "pending", "active"}, open : Nat, closed : BOOLEAN,
            backfill : BOOLEAN, has : SUBSET Nat]

\* The copy cp has received the message m.
Applies(cp, m, d) ==
  /\ d \in CopyRec
  /\ m.ev = "initial_stream" => d.has = {} /\ d.open = 0 /\ ~d.closed /\ d.state = cp.state
  /\ m.ev = "start" /\ cp.state # "active" =>
       d.open = m.n /\ ~d.closed /\ d.has = cp.has /\ d.state = cp.state
  /\ m.ev = "end" /\ cp.state # "active" =>
       /\ d.open = cp.open /\ (d.closed <=> cp.closed \/ cp.open = m.n)
       /\ d.has = cp.has /\ d.state = cp.state
  /\ m.ev = "item" =>
       /\ d.open = cp.open /\ d.closed = cp.closed /\ d.state = cp.state
       /\ d.has = cp.has \cup {m.n} \/ (d.has = cp.has /\ cp.state # "active" /\ cp.closed)
  /\ m.ev \in CheckpointEvents /\ cp.state = "active" => d = cp
  /\ m.ev \notin {"initial_stream", "start", "end", "item"} =>
       /\ d.has = cp.has /\ d.open = cp.open /\ d.closed = cp.closed
       /\ m.ev = "set_active" => d.state = "active"
       /\ m.ev = "set_pending" => d.state = "pending"
       /\ m.ev \notin {"set_active", "set_pending"} => d.state = cp.state

LEMMA AppliedFacts ==
  ASSUME TypeOK, NEW m \in SentRec
  PROVE  Applies(copy, m, Applied(m))
<1> DEFINE d == Applied(m)
<1>1. copy \in CopyRec /\ m.n \in Nat /\ m.ev \in Events
  BY DEF TypeOK, CopyRec, SentRec
<1>2. CASE m.ev = "initial_stream"
  <2>1. d = [copy EXCEPT !.has = {}, !.open = 0, !.closed = FALSE, !.backfill = TRUE]
    BY <1>2 DEF Applied
  <2> HIDE DEF d
  <2>2. {} \in SUBSET Nat
    OBVIOUS
  <2>3. d \in CopyRec
    BY <1>1, <2>1, <2>2 DEF CopyRec
  <2>4. d.has = {} /\ d.open = 0 /\ ~d.closed /\ d.state = copy.state
    BY <1>1, <2>1 DEF CopyRec
  <2> QED
    BY <1>2, <2>3, <2>4 DEF Applies, CheckpointEvents, d
<1>3. CASE m.ev = "close_backfill"
  <2>1. d = [copy EXCEPT !.backfill = FALSE]
    BY <1>3 DEF Applied
  <2> QED
    BY <1>1, <1>3, <2>1 DEF Applies, CopyRec, CheckpointEvents
<1>4. CASE m.ev = "set_pending"
  <2>1. d = [copy EXCEPT !.state = "pending"]
    BY <1>4 DEF Applied
  <2> QED
    BY <1>1, <1>4, <2>1 DEF Applies, CopyRec, CheckpointEvents
<1>5. CASE m.ev = "set_active"
  <2>1. d = [copy EXCEPT !.state = "active"]
    BY <1>5 DEF Applied
  <2> QED
    BY <1>1, <1>5, <2>1 DEF Applies, CopyRec, CheckpointEvents
<1>6. CASE m.ev = "start" /\ copy.state # "active"
  <2>1. d = [copy EXCEPT !.open = m.n, !.closed = FALSE, !.backfill = FALSE]
    BY <1>6 DEF Applied
  <2> QED
    BY <1>1, <1>6, <2>1 DEF Applies, CopyRec, CheckpointEvents
<1>7. CASE m.ev = "end" /\ copy.state # "active"
  <2> DEFINE b == copy.closed \/ copy.open = m.n
  <2>1. d = [copy EXCEPT !.closed = b]
    BY <1>1, <1>7 DEF Applied, CopyRec
  <2>2. b \in BOOLEAN /\ (b <=> copy.closed \/ copy.open = m.n)
    BY <1>1 DEF CopyRec
  <2> HIDE DEF b, d
  <2>3. d \in CopyRec
    BY <1>1, <2>1, <2>2 DEF CopyRec
  <2>4. /\ d.open = copy.open /\ d.closed = b /\ d.has = copy.has /\ d.state = copy.state
    BY <1>1, <2>1 DEF CopyRec
  <2> QED
    BY <1>7, <2>2, <2>3, <2>4 DEF Applies, CheckpointEvents, d
<1>8. CASE m.ev = "item"
  <2>1. CASE copy.state = "active" \/ copy.backfill \/ ~copy.closed
    <3> DEFINE h == copy.has \cup {m.n}
    <3>1. d = [copy EXCEPT !.has = h]
      BY <1>8, <2>1 DEF Applied
    <3>2. h \in SUBSET Nat
      BY <1>1 DEF CopyRec
    <3>3. d \in CopyRec /\ d.has = h /\ d.open = copy.open /\ d.closed = copy.closed
          /\ d.state = copy.state
      <4> HIDE DEF h, d
      <4> QED
        BY <1>1, <3>1, <3>2 DEF CopyRec
    <3> QED
      BY <1>8, <3>3 DEF Applies, CheckpointEvents
  <2>2. CASE copy.state # "active" /\ ~copy.backfill /\ copy.closed
    <3>1. d = copy
      BY <1>8, <2>2 DEF Applied
    <3> QED
      BY <1>1, <1>8, <2>2, <3>1 DEF Applies, CheckpointEvents
  <2>3. copy.closed \in BOOLEAN /\ copy.backfill \in BOOLEAN
    BY <1>1 DEF CopyRec
  <2> QED
    BY <2>1, <2>2, <2>3
<1>9. CASE /\ m.ev \notin {"initial_stream", "close_backfill", "set_pending", "set_active", "item"}
           /\ ~(m.ev = "start" /\ copy.state # "active")
           /\ ~(m.ev = "end" /\ copy.state # "active")
  <2>1. d = copy
    BY <1>9 DEF Applied
  <2> QED
    BY <1>1, <1>9, <2>1 DEF Applies, CheckpointEvents
<1> QED
  BY <1>2, <1>3, <1>4, <1>5, <1>6, <1>7, <1>8, <1>9

\* The consumer's answer to m.
Reply(m, ok, p) ==
  \E a \in AnswerRec : a.seqno = m.seqno /\ a.ok = ok /\ p = Append(toP, a)

LEMMA ReceiveFacts ==
  ASSUME TypeOK, Receive
  PROVE  LET m == Head(toC)
         IN  /\ toC # <<>> /\ toC' = Tail(toC) /\ toC \in Seq(SentRec) /\ toC' \in Seq(SentRec)
             /\ m \in SentRec /\ m \in ToSet(toC)
             /\ toP' \in Seq(AnswerRec) /\ used' \in [nacks : Nat, drops : Nat]
             /\ \/ /\ Applies(copy, m, copy')
                   /\ m.ack => Reply(m, TRUE, toP')
                   /\ ~m.ack => toP' = toP
                \/ m.ev = "item" /\ copy' = copy /\ Reply(m, FALSE, toP')
<1> DEFINE m == Head(toC)
           a(ok) == [seqno |-> m.seqno, ok |-> ok]
<1>1. toC # <<>> /\ toC' = Tail(toC) /\ toC \in Seq(SentRec)
  BY DEF Receive, TypeOK
<1>2. m \in SentRec /\ m \in ToSet(toC) /\ toC' \in Seq(SentRec)
  BY <1>1, HeadFacts
<1>3. toP \in Seq(AnswerRec) /\ used \in [nacks : Nat, drops : Nat]
  BY DEF TypeOK
<1>4. m.seqno \in Nat /\ m.ack \in BOOLEAN
  BY <1>2 DEF SentRec
<1>5. \A ok \in BOOLEAN : a(ok) \in AnswerRec /\ a(ok).seqno = m.seqno /\ a(ok).ok = ok
  BY <1>4 DEF AnswerRec
<1>6. \A ok \in BOOLEAN : Append(toP, a(ok)) \in Seq(AnswerRec)
  BY <1>3, <1>5, AppendFacts
<1>7. \A ok \in BOOLEAN : Reply(m, ok, Append(toP, a(ok)))
  BY <1>5 DEF Reply
<1>8. CASE /\ copy' = Applied(m)
           /\ toP' = IF m.ack THEN Append(toP, a(TRUE)) ELSE toP
           /\ UNCHANGED used
  <2>1. Applies(copy, m, copy')
    BY <1>2, <1>8, AppliedFacts
  <2> HIDE DEF m, a
  <2> QED
    BY <1>1, <1>2, <1>3, <1>6, <1>7, <1>8, <2>1 DEF m
<1>9. CASE /\ m.ev = "item"
           /\ used' = [used EXCEPT !.nacks = @ + 1]
           /\ toP' = Append(toP, a(FALSE))
           /\ UNCHANGED copy
  <2>1. used' \in [nacks : Nat, drops : Nat]
    BY <1>3, <1>9
  <2> HIDE DEF m, a
  <2> QED
    BY <1>1, <1>2, <1>3, <1>6, <1>7, <1>9, <2>1 DEF m
<1>10. \/ /\ copy' = Applied(m)
          /\ toP' = IF m.ack THEN Append(toP, a(TRUE)) ELSE toP
          /\ UNCHANGED used
       \/ /\ m.ev = "item"
          /\ used' = [used EXCEPT !.nacks = @ + 1]
          /\ toP' = Append(toP, a(FALSE))
          /\ UNCHANGED copy
  BY DEF Receive
<1> QED
  BY <1>8, <1>9, <1>10

LEMMA ResumeFacts ==
  ASSUME TypeOK, Resume
  PROVE  tap' \in TapRec /\ SameAll(tap, tap')
<1>1. tap \in TapRec /\ tap' = [tap EXCEPT !.suspended = FALSE]
  BY TapFacts DEF Resume
<1> QED
  BY <1>1 DEF TapRec, SameAll, SameLog, SameQueues, SameMessages, SameHigh, SameFlags

LEMMA DropFacts ==
  ASSUME TypeOK, Drop
  PROVE  /\ tap.connected /\ tap' \in TapRec /\ ~tap'.connected
         /\ toC' = <<>> /\ toP' = <<>>
         /\ used' \in [nacks : Nat, drops : Nat]
         /\ tap'.exists = tap.exists /\ tap'.log = tap.log /\ tap'.seqno = tap.seqno
         /\ tap'.seqnoReceived = tap.seqnoReceived
         /\ tap'.isLastAckSucceed = tap.isLastAckSucceed
         /\ tap'.isSeqNumRotated = tap.isSeqNumRotated /\ tap'.lastSeqNum = tap.lastSeqNum
         /\ SameQueues(tap, tap') /\ SameMessages(tap, tap') /\ SameHigh(tap, tap')
         /\ SameFlags(tap, tap')
<1>1. tap \in TapRec /\ tap' = [tap EXCEPT !.connected = FALSE] /\ tap.connected
  BY TapFacts DEF Drop
<1>2. /\ toC' = <<>> /\ toP' = <<>> /\ used' = [used EXCEPT !.drops = @ + 1]
      /\ used \in [nacks : Nat, drops : Nat]
  BY DEF Drop, TypeOK
<1>3. used' \in [nacks : Nat, drops : Nat]
  BY <1>2
<1>4. tap' \in TapRec /\ ~tap'.connected
  BY <1>1 DEF TapRec
<1> QED
  BY <1>1, <1>2, <1>3, <1>4 DEF TapRec, SameQueues, SameMessages, SameHigh, SameFlags

-----------------------------------------------------------------------------
(***************************************************************************)
(* What a connection does.                                                 *)
(***************************************************************************)
\* The announcements of a connection.
Joins(t, u) ==
  /\ u \in TapRec
  /\ SameLog(t, u) /\ SameQueues(t, u) /\ SameMessages(t, u) /\ SameFlags(t, u)
  /\ u.opaqueMsgCounter = t.opaqueMsgCounter
  /\ "initial_stream" \in ToSet(u.high) <=> "initial_stream" \in ToSet(t.high)

LEMMA JoinFacts ==
  ASSUME NEW t \in TapRec
  PROVE  Joins(t, Filtered(Flagged(t)))
<1> DEFINE plain == {"auto_nack", "checkpoint_sync"}
           two == <<"auto_nack", "checkpoint_sync">>
           h == t.high \o two
           f == Flagged(t)
           a == Only(h, plain)
           b == Only(h, Opaques \ plain)
           p == <<"set_pending">>
           ap == a \o p
           g == ap \o b
           l == <<"set_active">>
           u == [f EXCEPT !.high = g, !.low = l]
<1>1. t.high \in Seq(HighEvents)
  BY DEF TapRec
<1>2. two \in Seq(HighEvents) /\ p \in Seq(HighEvents) /\ l \in Seq({"set_active"})
  BY DEF HighEvents, Opaques
<1>3. "initial_stream" \notin ToSet(two) /\ "initial_stream" \notin ToSet(p)
  BY DEF ToSet
<1> HIDE DEF two, p, l
<1>4. h \in Seq(HighEvents) /\ ToSet(h) = ToSet(t.high) \cup ToSet(two)
  BY <1>1, <1>2, ConcatFacts
<1>5. "initial_stream" \in ToSet(h) <=> "initial_stream" \in ToSet(t.high)
  BY <1>3, <1>4
<1>6. f = [t EXCEPT !.high = h]
  BY DEF Flagged, two
<1> HIDE DEF h, f
<1>7. f \in TapRec
  BY <1>4, <1>6 DEF TapRec
<1>8. /\ SameLog(t, f) /\ SameQueues(t, f) /\ SameMessages(t, f) /\ SameFlags(t, f)
      /\ f.opaqueMsgCounter = t.opaqueMsgCounter /\ f.high = h
  BY <1>6 DEF TapRec, SameLog, SameQueues, SameMessages, SameFlags
<1>9. Joins(t, f)
  BY <1>5, <1>7, <1>8 DEF Joins
<1>10. CASE mode # "takeover"
  BY <1>9, <1>10 DEF Filtered, f
<1>11. CASE mode = "takeover"
  <2>1. Filtered(f) = u
    BY <1>7, <1>8, <1>11 DEF Filtered, p, l, TapRec
  <2>2. a \in Seq(HighEvents) /\ b \in Seq(HighEvents)
        /\ (\A x : x \in ToSet(a) <=> x \in ToSet(h) /\ x \in plain)
        /\ (\A x : x \in ToSet(b) <=> x \in ToSet(h) /\ x \in Opaques \ plain)
    BY <1>4, OnlyFacts
  <2> HIDE DEF a, b
  <2>3. ap \in Seq(HighEvents) /\ ToSet(ap) = ToSet(a) \cup ToSet(p)
    BY <1>2, <2>2, ConcatFacts
  <2> HIDE DEF ap
  <2>4. g \in Seq(HighEvents) /\ ToSet(g) = ToSet(ap) \cup ToSet(b)
    BY <2>2, <2>3, ConcatFacts
  <2>5. "initial_stream" \in ToSet(g) <=> "initial_stream" \in ToSet(t.high)
    <3>1. "initial_stream" \in Opaques \ plain /\ "initial_stream" \notin plain
      BY DEF Opaques
    <3> QED
      BY <1>3, <1>5, <2>2, <2>3, <2>4, <3>1
  <2> HIDE DEF g
  <2>6. u \in TapRec
    BY <1>2, <1>7, <2>4 DEF TapRec
  <2>7. /\ SameLog(f, u) /\ SameQueues(f, u) /\ SameMessages(f, u) /\ SameFlags(f, u)
        /\ u.opaqueMsgCounter = f.opaqueMsgCounter /\ u.high = g
    BY <1>7 DEF TapRec, SameLog, SameQueues, SameMessages, SameFlags
  <2> HIDE DEF u
  <2>8. Joins(t, u)
    BY <1>8, <2>5, <2>6, <2>7 DEF Joins, SameLog, SameQueues, SameMessages, SameFlags
  <2> QED
    BY <2>1, <2>8 DEF f
<1> QED
  BY <1>10, <1>11

\* The vbucket is registered: all that there is is to be sent, or nothing changes.
Registers(t, u) ==
  /\ u \in TapRec
  /\ SameLog(t, u) /\ SameQueues(t, u) /\ SameMessages(t, u)
  /\ u.opaqueMsgCounter = t.opaqueMsgCounter
  /\ u.pendingBackfill = t.pendingBackfill /\ u.diskBackfill = t.diskBackfill
  /\ ToBackfill(t) => /\ u.doRunBackfill /\ ~u.backfillCompleted /\ u.backfillVBucket
                      /\ "initial_stream" \in ToSet(u.high)
  /\ ~ToBackfill(t) => u = t

LEMMA RegisterFacts ==
  ASSUME NEW t \in TapRec
  PROVE  Registers(t, Registered(t))
<1> DEFINE h == Append(t.high, "initial_stream")
           u == [t EXCEPT !.high = h, !.doRunBackfill = TRUE,
                          !.backfillCompleted = FALSE, !.backfillVBucket = TRUE]
<1>1. CASE ~ToBackfill(t)
  BY <1>1 DEF Registered, Registers, SameLog, SameQueues, SameMessages
<1>2. CASE ToBackfill(t)
  <2>1. Registered(t) = u
    BY <1>2 DEF Registered, TapRec
  <2>2. t.high \in Seq(HighEvents) /\ "initial_stream" \in HighEvents
    BY EventFacts DEF TapRec
  <2>3. h \in Seq(HighEvents) /\ "initial_stream" \in ToSet(h)
    BY <2>2, AppendFacts
  <2> HIDE DEF h
  <2>4. u \in TapRec
    BY <2>3 DEF TapRec
  <2>5. /\ SameLog(t, u) /\ SameQueues(t, u) /\ SameMessages(t, u)
        /\ u.opaqueMsgCounter = t.opaqueMsgCounter
        /\ u.pendingBackfill = t.pendingBackfill /\ u.diskBackfill = t.diskBackfill
        /\ u.doRunBackfill /\ ~u.backfillCompleted /\ u.backfillVBucket /\ u.high = h
    BY DEF TapRec, SameLog, SameQueues, SameMessages
  <2> HIDE DEF u
  <2> QED
    BY <1>2, <2>1, <2>3, <2>4, <2>5 DEF Registers
<1> QED
  BY <1>1, <1>2

\* Where the cursor is after it: where it was, nowhere, or at the resume point.
LEMMA CursorFacts ==
  ASSUME TypeOK, EntriesInv, NEW t, NEW k \in {0, src.cursor}
  PROVE  LET d == RegisteredCursor(t, k)
         IN  /\ d \in Nat /\ d <= Len(src.entries)
             /\ d # 0 => src.entries[d].chk >= src.first
             /\ t.backfillVBucket => d = k
             /\ ToBackfill(t) => d = 0 /\ ResumePoint \notin src.first..OpenId
             /\ ~t.backfillVBucket /\ ~ToBackfill(t) =>
                  /\ ResumePoint \in src.first..OpenId
                  /\ \/ k # 0 /\ d = k /\ src.entries[k].chk = ResumePoint
                     \/ d = Beginning(ResumePoint)
<1> DEFINE d == RegisteredCursor(t, k)
<1>1. /\ src.first \in 2..OpenId /\ src.cursor \in 0..Len(src.entries)
      /\ src.cursor # 0 => src.entries[src.cursor].chk \in src.first..OpenId
      /\ \A i : ChkAt(i) = src.entries[i].chk
      /\ Len(src.entries) \in Nat /\ OpenId \in Nat
  BY SourceFacts
<1>2. k \in Nat /\ k <= Len(src.entries) /\ (k # 0 => src.entries[k].chk >= src.first)
  BY <1>1
<1>3. CASE t.backfillVBucket
  BY <1>2, <1>3 DEF RegisteredCursor, ToBackfill
<1>4. CASE ~t.backfillVBucket /\ ToBackfill(t)
  BY <1>1, <1>4 DEF RegisteredCursor, ToBackfill, InMemory
<1>5. CASE ~t.backfillVBucket /\ ~ToBackfill(t)
  <2>1. ResumePoint \in src.first..OpenId
    BY <1>5 DEF ToBackfill, InMemory
  <2>2. d = IF k # 0 /\ src.entries[k].chk = ResumePoint THEN k ELSE Beginning(ResumePoint)
    BY <1>1, <1>5 DEF RegisteredCursor
  <2>3. ResumePoint \in 2..OpenId
    BY <1>1, <2>1
  <2>4. /\ Beginning(ResumePoint) \in 1..Len(src.entries)
        /\ src.entries[Beginning(ResumePoint)].chk = ResumePoint
    BY <2>3, BeginningFacts
  <2>5. /\ Beginning(ResumePoint) \in Nat /\ Beginning(ResumePoint) <= Len(src.entries)
        /\ src.entries[Beginning(ResumePoint)].chk >= src.first
    BY <1>1, <2>1, <2>4
  <2> HIDE DEF d
  <2> QED
    BY <1>2, <1>5, <2>1, <2>2, <2>5 DEF d
<1> QED
  BY <1>3, <1>4, <1>5

\* A producer that did not exist.
NewTap == [NoTap EXCEPT !.exists = TRUE, !.connected = TRUE]

LEMMA NewTapFacts ==
  /\ NoTap \in TapRec /\ NewTap \in TapRec
  /\ NewTap.exists /\ NewTap.connected /\ NewTap.log = <<>>
  /\ NewTap.seqno = 1 /\ NewTap.seqnoReceived = 0 /\ ~NewTap.isSeqNumRotated
  /\ NewTap.queue = <<>> /\ NewTap.fetched = <<>> /\ NewTap.jobs = <<>>
  /\ NewTap.high = <<>> /\ NewTap.checkpointMsgs = <<>>
  /\ NewTap.opaqueMsgCounter = 0 /\ NewTap.checkpointMsgCounter = 0
  /\ ~NewTap.doRunBackfill /\ NewTap.backfillCompleted /\ ~NewTap.backfillVBucket
  /\ NewTap.pendingBackfill = 0 /\ NewTap.diskBackfill = 0
<1>1. NoTap \in TapRec
  BY DEF NoTap, TapRec, InitialSeqno
<1>2. NewTap \in TapRec
  BY <1>1 DEF NewTap, TapRec
<1>3. /\ NewTap.exists /\ NewTap.connected /\ NewTap.log = <<>>
      /\ NewTap.seqno = 1 /\ NewTap.seqnoReceived = 0 /\ ~NewTap.isSeqNumRotated
      /\ NewTap.queue = <<>> /\ NewTap.fetched = <<>> /\ NewTap.jobs = <<>>
      /\ NewTap.high = <<>> /\ NewTap.checkpointMsgs = <<>>
      /\ NewTap.opaqueMsgCounter = 0 /\ NewTap.checkpointMsgCounter = 0
      /\ ~NewTap.doRunBackfill /\ NewTap.backfillCompleted /\ ~NewTap.backfillVBucket
      /\ NewTap.pendingBackfill = 0 /\ NewTap.diskBackfill = 0
  BY DEF NewTap, NoTap, InitialSeqno
<1> QED
  BY <1>1, <1>2, <1>3

LEMMA ConnectFreshFacts ==
  ASSUME TypeOK, EntriesInv, ConnectFresh
  PROVE  \E t \in TapRec :
           /\ Joins(NewTap, t) /\ Registers(t, tap')
           /\ MovedTo(src, src', RegisteredCursor(t, 0))
           /\ copy.state # "active" /\ ~tap.connected
           /\ tasks' \in Seq(TaskRec) /\ DOMAIN tasks' = DOMAIN tasks
           /\ \A i \in DOMAIN tasks :
                /\ ~tasks'[i].own
                /\ tasks'[i].visited = tasks[i].visited /\ tasks'[i].completed = tasks[i].completed
                /\ tasks'[i].disk = tasks[i].disk
<1> DEFINE t == Filtered(Flagged(NewTap))
<1>1. Joins(NewTap, t) /\ t \in TapRec
  BY NewTapFacts, JoinFacts DEF Joins
<1>2. tap' = Registered(t) /\ src' = [src EXCEPT !.cursor = RegisteredCursor(t, 0)]
  BY DEF ConnectFresh, NewTap
<1>3. copy.state # "active" /\ ~tap.connected
  BY DEF ConnectFresh, MayConnect
<1>4. tasks' = [i \in DOMAIN tasks |-> [tasks[i] EXCEPT !.own = FALSE]]
  BY DEF ConnectFresh
<1> HIDE DEF t
<1>5. Registers(t, tap')
  BY <1>1, <1>2, RegisterFacts
<1>6. RegisteredCursor(t, 0) \in Nat
  BY CursorFacts
<1>7. MovedTo(src, src', RegisteredCursor(t, 0))
  BY <1>2, <1>6, MovedFacts DEF TypeOK, SrcRec
<1>8. tasks \in Seq(TaskRec) /\ DOMAIN tasks = 1..Len(tasks) /\ Len(tasks) \in Nat
  BY ToSetFacts DEF TypeOK
<1>9. \A i \in DOMAIN tasks :
        /\ tasks'[i] \in TaskRec /\ ~tasks'[i].own
        /\ tasks'[i].visited = tasks[i].visited /\ tasks'[i].completed = tasks[i].completed
        /\ tasks'[i].disk = tasks[i].disk
  <2> TAKE i \in DOMAIN tasks
  <2>1. tasks'[i] = [tasks[i] EXCEPT !.own = FALSE] /\ tasks[i] \in TaskRec
    BY <1>4, <1>8, TaskFacts
  <2> QED
    BY <2>1 DEF TaskRec
<1>10. tasks' \in Seq(TaskRec) /\ DOMAIN tasks' = DOMAIN tasks
  <2>1. DOMAIN tasks' = 1..Len(tasks)
    BY <1>4, <1>8
  <2>2. tasks' = [i \in 1..Len(tasks) |-> tasks'[i]]
    BY <1>4, <1>8
  <2>3. tasks' \in [1..Len(tasks) -> TaskRec]
    BY <1>8, <1>9, <2>2
  <2> QED
    BY <1>8, <2>1, <2>3
<1> QED
  BY <1>1, <1>3, <1>5, <1>7, <1>9, <1>10

LEMMA ConnectGrabFacts ==
  ASSUME TypeOK, EntriesInv, ConnectGrab
  PROVE  \E x \in TapRec, t \in TapRec, u \in TapRec :
           /\ x = [tap EXCEPT !.connected = TRUE, !.reconnected = TRUE]
           /\ Joins(x, t) /\ Registers(t, u) /\ tap' = RolledBack(u)
           /\ x.connected /\ x.exists = tap.exists /\ tap.exists
           /\ x.log = tap.log /\ x.seqno = tap.seqno
           /\ x.isSeqNumRotated = tap.isSeqNumRotated
           /\ SameQueues(tap, x) /\ SameMessages(tap, x) /\ SameHigh(tap, x) /\ SameFlags(tap, x)
           /\ MovedTo(src, src', RegisteredCursor(t, src.cursor))
           /\ copy.state # "active" /\ ~tap.connected
           /\ lapse' = lapse \cup
                (IF ToBackfill(t) /\ \E msg \in ToSet(t.checkpointMsgs \o t.log) : msg.ev = "start"
                 THEN {"replayed"} ELSE {})
<1> DEFINE x == [tap EXCEPT !.connected = TRUE, !.reconnected = TRUE]
           t == Filtered(Flagged(x))
           u == Registered(t)
<1>1. tap \in TapRec
  BY TapFacts
<1>2. /\ tap' = RolledBack(u) /\ src' = [src EXCEPT !.cursor = RegisteredCursor(t, @)]
      /\ lapse' = lapse \cup
           (IF ToBackfill(t) /\ \E msg \in ToSet(t.checkpointMsgs \o t.log) : msg.ev = "start"
            THEN {"replayed"} ELSE {})
  BY DEF ConnectGrab
<1>3. copy.state # "active" /\ ~tap.connected /\ tap.exists
  BY DEF ConnectGrab, MayConnect
<1>4. x \in TapRec
  BY <1>1 DEF TapRec
<1>5. /\ x.connected /\ x.exists = tap.exists /\ x.log = tap.log /\ x.seqno = tap.seqno
      /\ x.isSeqNumRotated = tap.isSeqNumRotated
      /\ SameQueues(tap, x) /\ SameMessages(tap, x) /\ SameHigh(tap, x) /\ SameFlags(tap, x)
  BY <1>1 DEF TapRec, SameQueues, SameMessages, SameHigh, SameFlags
<1>6. x = [tap EXCEPT !.connected = TRUE, !.reconnected = TRUE]
  OBVIOUS
<1>7. src \in SrcRec
  BY DEF TypeOK, SrcRec
<1>8. src' = [src EXCEPT !.cursor = RegisteredCursor(t, src.cursor)]
  BY <1>2, <1>7 DEF SrcRec
<1> HIDE DEF x
<1>9. Joins(x, t) /\ t \in TapRec
  BY <1>4, JoinFacts DEF Joins
<1> HIDE DEF t
<1>10. Registers(t, u) /\ u \in TapRec
  BY <1>9, RegisterFacts DEF Registers
<1> HIDE DEF u
<1>11. RegisteredCursor(t, src.cursor) \in Nat
  BY CursorFacts
<1>12. MovedTo(src, src', RegisteredCursor(t, src.cursor))
  BY <1>7, <1>8, <1>11, MovedFacts
<1> QED
  BY <1>2, <1>3, <1>4, <1>5, <1>6, <1>9, <1>10, <1>12

-----------------------------------------------------------------------------
(***************************************************************************)
(* How the entries of the source grow.                                     *)
(***************************************************************************)
Partial(E) ==
  /\ E \in Seq(EntryRec) /\ Len(E) >= 2 /\ E[1].chk = 2
  /\ \A i \in 1..(Len(E) - 1) : Follows(E[i], E[i + 1])
  /\ Sorted(E) /\ Begun(E)

LEMMA PartialFacts ==
  ASSUME NEW E
  PROVE  Good(E) <=> Partial(E) /\ E[Len(E)].ev \in {"start", "item"}
BY DEF Good, Chained, Partial

LEMMA GrowFacts ==
  ASSUME NEW E, Partial(E), NEW ev \in {"dummy", "start", "item", "end"}, NEW id \in Nat,
         NEW k \in Nat, Follows(E[Len(E)], Entry(ev, id, k)), ev = "dummy" => k = 0
  PROVE  LET F == Append(E, Entry(ev, id, k))
         IN  /\ Partial(F) /\ Len(F) = Len(E) + 1
             /\ \A i \in 1..Len(E) : F[i] = E[i]
             /\ F[Len(E) + 1] = Entry(ev, id, k)
<1> DEFINE e == Entry(ev, id, k)
           n == Len(E)
           F == Append(E, e)
<1>1. E \in Seq(EntryRec) /\ n \in Nat /\ n >= 2
  BY DEF Partial
<1>2. e \in EntryRec /\ e.ev = ev /\ e.chk = id /\ e.n = k
  BY EntryValues
<1>3. F \in Seq(EntryRec) /\ Len(F) = n + 1 /\ (\A i \in 1..n : F[i] = E[i]) /\ F[n + 1] = e
  BY <1>1, <1>2, AppendFacts
<1>4. \A i \in 1..n : E[i].chk \in Nat /\ E[i].chk <= E[n].chk
  <2> TAKE i \in 1..n
  <2>1. E[i] \in EntryRec
    BY <1>1
  <2> QED
    BY <1>1, <2>1 DEF Partial, Sorted, EntryRec
<1>5. /\ E[n].chk <= id /\ id <= E[n].chk + 1
      /\ ev = "dummy" <=> id = E[n].chk + 1
  <2>1. E[n].chk \in Nat
    BY <1>1, <1>4
  <2>2. Follows(E[n], e)
    OBVIOUS
  <2> HIDE DEF e
  <2> QED
    BY <1>2, <2>1, <2>2 DEF Follows
<1> HIDE DEF e, F
<1>6. F[1].chk = 2
  BY <1>1, <1>3 DEF Partial
<1>7. \A i \in 1..(Len(F) - 1) : Follows(F[i], F[i + 1])
  <2> TAKE i \in 1..(Len(F) - 1)
  <2>1. CASE i < n
    <3>1. i \in 1..(n - 1) /\ F[i] = E[i] /\ F[i + 1] = E[i + 1]
      BY <1>1, <1>3, <2>1
    <3> QED
      BY <3>1 DEF Partial
  <2>2. CASE i = n
    BY <1>1, <1>3, <2>2 DEF e
  <2> QED
    BY <1>1, <1>3, <2>1, <2>2
<1>8. Sorted(F)
  <2>1. \A i, j \in 1..n : i <= j => F[i].chk <= F[j].chk
    BY <1>3 DEF Partial, Sorted
  <2>2. \A i \in 1..n : F[i].chk <= F[n + 1].chk
    <3> TAKE i \in 1..n
    <3>1. E[i].chk \in Nat /\ E[i].chk <= E[n].chk /\ E[n].chk \in Nat
      BY <1>1, <1>4
    <3> QED
      BY <1>2, <1>3, <1>5, <3>1
  <2>3. F[n + 1].chk <= F[n + 1].chk
    BY <1>2, <1>3
  <2>4. \A i, j \in 1..n : i < j /\ F[j].ev = "dummy" => F[i].chk < F[j].chk
    BY <1>3 DEF Partial, Sorted
  <2>5. F[n + 1].ev = "dummy" => \A i \in 1..n : F[i].chk < F[n + 1].chk
    <3> HAVE F[n + 1].ev = "dummy"
    <3> TAKE i \in 1..n
    <3>1. E[i].chk \in Nat /\ E[i].chk <= E[n].chk /\ E[n].chk \in Nat
      BY <1>1, <1>4
    <3> QED
      BY <1>2, <1>3, <1>5, <3>1
  <2>6. \A j \in 1..(n + 1) : j \in 1..n \/ j = n + 1
    BY <1>1
  <2>7. \A i, j \in 1..(n + 1) : i <= j => F[i].chk <= F[j].chk
    BY <1>1, <2>1, <2>2, <2>3, <2>6
  <2>8. \A i, j \in 1..(n + 1) : i < j /\ F[j].ev = "dummy" => F[i].chk < F[j].chk
    BY <1>1, <2>4, <2>5, <2>6
  <2> QED
    BY <1>3, <2>7, <2>8 DEF Sorted
<1>9. Begun(F)
  <2> SUFFICES ASSUME NEW b \in 2..F[Len(F)].chk
               PROVE  \E i \in 1..Len(F) : F[i] = Entry("dummy", b, 0)
    BY DEF Begun
  <2>1. b \in 2..id
    BY <1>2, <1>3
  <2>2. CASE b <= E[n].chk
    <3>1. b \in 2..E[n].chk
      BY <1>1, <1>4, <2>1, <2>2
    <3>2. PICK i \in 1..n : E[i] = Entry("dummy", b, 0)
      BY <3>1 DEF Partial, Begun
    <3> QED
      BY <1>1, <1>3, <3>2
  <2>3. CASE ~(b <= E[n].chk)
    <3>1. b = id /\ ev = "dummy"
      BY <1>1, <1>4, <1>5, <2>1, <2>3
    <3>2. F[n + 1] = Entry("dummy", b, 0)
      BY <1>3, <3>1 DEF e
    <3> QED
      BY <1>1, <1>3, <3>2
  <2> QED
    BY <2>2, <2>3
<1>10. Partial(F)
  BY <1>1, <1>3, <1>6, <1>7, <1>8, <1>9 DEF Partial
<1> QED
  BY <1>3, <1>10 DEF e, F

\* F has the entries of E and more.
Grows(E, F) ==
  /\ Good(F) /\ Len(F) \in Nat /\ Len(E) < Len(F)
  /\ \A i \in 1..Len(E) : F[i] = E[i]
  /\ Newest(E) <= Newest(F)

LEMMA GrownItems ==
  ASSUME NEW E, NEW F, Good(E), Grows(E, F), NEW i \in 0..Len(E)
  PROVE  Items(F, i) = Items(E, i)
<1>1. i \in 0..Len(F)
  BY EntryFacts DEF Grows
<1>2. \A j \in 1..i : F[j] = E[j]
  BY EntryFacts DEF Grows
<1>3. /\ \A x : x \in Items(F, i) <=> \E j \in 1..i : F[j].ev = "item" /\ F[j].n = x
      /\ \A x : x \in Items(E, i) <=> \E j \in 1..i : E[j].ev = "item" /\ E[j].n = x
  BY <1>1, ItemsFacts DEF Grows
<1>4. \A x : x \in Items(F, i) <=> x \in Items(E, i)
  BY <1>2, <1>3
<1> QED
  BY <1>4

LEMMA WriteQueuedFacts ==
  ASSUME TypeOK, EntriesInv, WriteQueued
  PROVE  /\ src' \in SrcRec /\ src'.state = src.state /\ src'.first = src.first
         /\ src'.cursor = src.cursor
         /\ Grows(src.entries, src'.entries)
         /\ Len(src'.entries) = Len(src.entries) + 1
         /\ src'.entries[Len(src.entries) + 1].ev = "item"
         /\ src'.entries[Len(src.entries) + 1].chk = Newest(src.entries)
         /\ Newest(src'.entries) = Newest(src.entries)
<1> DEFINE E == src.entries
           n == Len(E)
           k == Cardinality(Written) + 1
           F == Append(E, Entry("item", OpenId, k))
<1>1. /\ Good(E) /\ OpenId = Newest(E) /\ OpenId \in Nat /\ n \in Nat /\ n >= 2
      /\ Written = Items(E, n)
  BY SourceFacts
<1>2. n \in 0..n
  BY <1>1
<1>3. IsFiniteSet(Written)
  BY <1>1, <1>2, ItemsFacts
<1>4. k \in Nat
  BY <1>3, FS_CardinalityType
<1>5. Partial(E) /\ E[n].ev \in {"start", "item"} /\ E[n].chk = OpenId
  BY <1>1, PartialFacts DEF Newest
<1> HIDE DEF k
<1>6. Entry("item", OpenId, k).ev = "item" /\ Entry("item", OpenId, k).chk = OpenId
  BY EntryValues
<1>7. Follows(E[n], Entry("item", OpenId, k))
  BY <1>5, <1>6 DEF Follows
<1>8. /\ Partial(F) /\ Len(F) = n + 1 /\ (\A i \in 1..n : F[i] = E[i])
      /\ F[n + 1] = Entry("item", OpenId, k)
  BY <1>1, <1>4, <1>5, <1>7, GrowFacts
<1>9. src' = [src EXCEPT !.entries = F]
  BY DEF WriteQueued, k, TypeOK
<1> HIDE DEF F
<1>10. Good(F) /\ Newest(F) = Newest(E)
  BY <1>1, <1>6, <1>8, PartialFacts DEF Newest
<1>11. src \in SrcRec
  BY DEF TypeOK, SrcRec
<1>12. /\ src' \in SrcRec /\ src'.state = src.state /\ src'.first = src.first
       /\ src'.cursor = src.cursor /\ src'.entries = F
  BY <1>9, <1>10, <1>11 DEF SrcRec, Good
<1>13. Grows(E, F)
  BY <1>1, <1>8, <1>10 DEF Grows
<1> QED
  BY <1>1, <1>6, <1>8, <1>10, <1>12, <1>13

LEMMA CloseCheckpointFacts ==
  ASSUME TypeOK, EntriesInv, CloseCheckpoint
  PROVE  /\ src' \in SrcRec /\ src'.state = src.state /\ src.state = "active"
         /\ src'.first = src.first /\ src'.cursor = src.cursor
         /\ Grows(src.entries, src'.entries)
         /\ Len(src'.entries) = Len(src.entries) + 3
         /\ \A i \in (Len(src.entries) + 1)..(Len(src.entries) + 3) : src'.entries[i].ev # "item"
<1> DEFINE E == src.entries
           n == Len(E)
           id == OpenId
           A == Append(E, Entry("end", id, 0))
           B == Append(A, Entry("dummy", id + 1, 0))
           F == Append(B, Entry("start", id + 1, 0))
<1>1. /\ Good(E) /\ id = Newest(E) /\ id \in Nat /\ n \in Nat /\ n >= 2
  BY SourceFacts
<1>2. Partial(E) /\ E[n].ev \in {"start", "item"} /\ E[n].chk = id
  BY <1>1, PartialFacts DEF Newest
<1> HIDE DEF id
<1>3. /\ Entry("end", id, 0).ev = "end" /\ Entry("end", id, 0).chk = id
      /\ Entry("dummy", id + 1, 0).ev = "dummy" /\ Entry("dummy", id + 1, 0).chk = id + 1
      /\ Entry("start", id + 1, 0).ev = "start" /\ Entry("start", id + 1, 0).chk = id + 1
  BY EntryValues
<1>4. Follows(E[n], Entry("end", id, 0))
  BY <1>2, <1>3 DEF Follows
<1>5. /\ Partial(A) /\ Len(A) = n + 1 /\ (\A i \in 1..n : A[i] = E[i])
      /\ A[n + 1] = Entry("end", id, 0)
  BY <1>1, <1>2, <1>4, GrowFacts
<1> HIDE DEF A
<1>6. Follows(A[Len(A)], Entry("dummy", id + 1, 0))
  BY <1>3, <1>5 DEF Follows
<1>7. /\ Partial(B) /\ Len(B) = Len(A) + 1 /\ (\A i \in 1..Len(A) : B[i] = A[i])
      /\ B[Len(A) + 1] = Entry("dummy", id + 1, 0)
  BY <1>1, <1>5, <1>6, GrowFacts
<1>8. /\ Partial(B) /\ Len(B) = n + 2 /\ (\A i \in 1..n : B[i] = E[i])
      /\ B[n + 1] = Entry("end", id, 0) /\ B[n + 2] = Entry("dummy", id + 1, 0)
  <2> HIDE DEF B
  <2>1. Len(A) \in Nat /\ n + 1 + 1 = n + 2
    BY <1>1, <1>5
  <2>2. \A i \in 1..n : i \in 1..Len(A)
    BY <1>1, <1>5
  <2>3. n + 1 \in 1..Len(A)
    BY <1>1, <1>5
  <2> QED
    BY <1>5, <1>7, <2>1, <2>2, <2>3
<1> HIDE DEF B
<1>9. Follows(B[Len(B)], Entry("start", id + 1, 0))
  BY <1>3, <1>8 DEF Follows
<1>10. /\ Partial(F) /\ Len(F) = Len(B) + 1 /\ (\A i \in 1..Len(B) : F[i] = B[i])
       /\ F[Len(B) + 1] = Entry("start", id + 1, 0)
  BY <1>1, <1>8, <1>9, GrowFacts
<1>11. /\ Len(F) = n + 3 /\ (\A i \in 1..n : F[i] = E[i])
       /\ F[n + 1] = Entry("end", id, 0) /\ F[n + 2] = Entry("dummy", id + 1, 0)
       /\ F[n + 3] = Entry("start", id + 1, 0)
  <2> HIDE DEF F
  <2>1. Len(B) \in Nat /\ n + 2 + 1 = n + 3
    BY <1>1, <1>8
  <2>2. \A i \in 1..(n + 2) : i \in 1..Len(B)
    BY <1>1, <1>8
  <2>3. \A i \in 1..n : i \in 1..(n + 2)
    BY <1>1
  <2>4. n + 1 \in 1..(n + 2) /\ n + 2 \in 1..(n + 2)
    BY <1>1
  <2> QED
    BY <1>8, <1>10, <2>1, <2>2, <2>3, <2>4
<1>12. src' = [src EXCEPT !.entries = F]
  <2>1. src' = [src EXCEPT !.entries = Append(@, Entry("end", id, 0)) \o Opened(id + 1)]
    BY DEF CloseCheckpoint, id
  <2>2. A \in Seq(EntryRec)
    BY <1>5 DEF Partial
  <2>3. \A a, b : A \o <<a, b>> = Append(Append(A, a), b)
    BY <2>2
  <2>4. A \o Opened(id + 1) = F
    BY <2>3 DEF Opened, F, B
  <2> QED
    BY <2>1, <2>4 DEF A, TypeOK
<1> HIDE DEF F
<1>13. Good(F) /\ Newest(E) <= Newest(F)
  BY <1>1, <1>3, <1>10, <1>11, PartialFacts DEF Newest
<1>14. src \in SrcRec
  BY DEF TypeOK, SrcRec
<1>15. /\ src' \in SrcRec /\ src'.state = src.state /\ src'.first = src.first
       /\ src'.cursor = src.cursor /\ src'.entries = F
  BY <1>12, <1>13, <1>14 DEF SrcRec, Good
<1>16. Grows(E, F)
  BY <1>1, <1>11, <1>13 DEF Grows
<1>17. \A i \in (n + 1)..(n + 3) : F[i].ev # "item"
  <2>1. \A i \in (n + 1)..(n + 3) : i = n + 1 \/ i = n + 2 \/ i = n + 3
    BY <1>1
  <2> QED
    BY <1>3, <1>11, <2>1
<1>18. src.state = "active"
  BY DEF CloseCheckpoint
<1> QED
  BY <1>11, <1>15, <1>16, <1>17, <1>18

LEMMA FreeCheckpointFacts ==
  ASSUME TypeOK, EntriesInv, FreeCheckpoint
  PROVE  /\ src' \in SrcRec /\ src'.state = src.state /\ src'.entries = src.entries
         /\ src'.cursor = src.cursor /\ src'.first = src.first + 1
         /\ src.first < OpenId /\ (src.cursor # 0 => src.entries[src.cursor].chk > src.first)
<1>1. src \in SrcRec /\ src' = [src EXCEPT !.first = @ + 1]
  BY DEF TypeOK, SrcRec, FreeCheckpoint
<1>2. src.first < OpenId /\ (src.cursor # 0 => src.entries[src.cursor].chk > src.first)
  BY SourceFacts DEF FreeCheckpoint
<1> QED
  BY <1>1, <1>2 DEF SrcRec

-----------------------------------------------------------------------------
(***************************************************************************)
(* The types and the shape of the source's entries.                        *)
(***************************************************************************)
WellFormed == TypeOK /\ EntriesInv

LEMMA RolledBackTypes ==
  ASSUME NEW t \in TapRec
  PROVE  RolledBack(t) \in TapRec
<1> DEFINE n == Len(t.log)
<1>1. n \in Nat /\ t.log \in Seq(LogRec) /\ t.seqno - 1 \in Int /\ <<>> \in Seq(LogRec)
  BY DEF TapRec
<1>2. PICK f : /\ f = [i \in 0..n |-> IF i = 0 THEN t ELSE RollStep(f[i - 1], t.log[i])]
               /\ RolledBack(t) = [f[n] EXCEPT !.log = <<>>, !.seqnoReceived = t.seqno - 1]
  BY RollbackIterates
<1>3. f[0] = t /\ \A i \in 1..n : f[i] = RollStep(f[i - 1], t.log[i])
  BY <1>1, <1>2
<1> DEFINE T == {i \in 0..n : f[i] \notin TapRec}
<1>4. ASSUME NEW i \in T, \A j \in T : i <= j
      PROVE  FALSE
  <2>1. i \in 1..n /\ i - 1 \in 0..n /\ ~(i <= i - 1) /\ f[i] \notin TapRec
    BY <1>1, <1>3
  <2>2. f[i - 1] \in TapRec
    BY <1>4, <2>1
  <2>3. t.log[i] \in LogRec
    BY <1>1, <2>1
  <2>4. RollStep(f[i - 1], t.log[i]) \in TapRec
    BY <2>2, <2>3, RequeueFacts DEF Requeues, RollStep
  <2> QED
    BY <1>3, <2>1, <2>4
<1>5. T = {}
  <2>1. T \subseteq Nat
    OBVIOUS
  <2> HIDE DEF T
  <2> QED
    BY <1>4, <2>1, NatLeast
<1>6. f[n] \in TapRec
  BY <1>1, <1>5
<1> HIDE DEF n
<1>7. [f[n] EXCEPT !.log = <<>>, !.seqnoReceived = t.seqno - 1] \in TapRec
  BY <1>1, <1>6 DEF TapRec
<1> QED
  BY <1>2, <1>7

\* A step that keeps the entries.
LEMMA MovedWellFormed ==
  ASSUME WellFormed, MovedTo(src, src', src'.cursor),
         src'.cursor = 0 \/ (/\ src'.cursor \in 1..Len(src.entries)
                             /\ src.entries[src'.cursor].chk >= src.first)
  PROVE  EntriesInv' /\ src' \in SrcRec
BY DEF WellFormed, EntriesInv, MovedTo, CursorOK

LEMMA SameWellFormed ==
  ASSUME WellFormed, src' = src
  PROVE  EntriesInv' /\ src' \in SrcRec
BY DEF WellFormed, EntriesInv, TypeOK, SrcRec

\* What an action has to show of the types.
LEMMA TypeStep ==
  ASSUME TypeOK, mode' = mode, src' \in SrcRec, writer' \in BOOLEAN,
         tap' \in TapRec, tasks' \in Seq(TaskRec),
         toC' \in Seq(SentRec), toP' \in Seq(AnswerRec), copy' \in CopyRec,
         used' \in [nacks : Nat, drops : Nat], lapse' \subseteq {"late", "stale", "replayed"}
  PROVE  TypeOK'
BY DEF TypeOK, SrcRec, CopyRec

LEMMA Types ==
  ASSUME TypeOK
  PROVE  /\ src \in SrcRec /\ writer \in BOOLEAN /\ tap \in TapRec /\ tasks \in Seq(TaskRec)
         /\ toC \in Seq(SentRec) /\ toP \in Seq(AnswerRec) /\ copy \in CopyRec
         /\ used \in [nacks : Nat, drops : Nat] /\ lapse \subseteq {"late", "stale", "replayed"}
         /\ src.cursor \in Nat
BY DEF TypeOK, SrcRec, CopyRec

LEMMA WalkedTypes ==
  ASSUME TypeOK, NEW x, NEW ev, NEW n, Walked(x, ev, n)
  PROVE  tap' \in TapRec /\ toC' \in Seq(SentRec)
<1>1. PICK m : Sends(x, ev, n, tap', m) /\ toC' = Append(toC, m)
  BY DEF Walked
<1>2. tap' \in TapRec /\ m \in SentRec /\ toC \in Seq(SentRec)
  BY <1>1, Types DEF Sends
<1> QED
  BY <1>1, <1>2, AppendFacts

LEMMA SentOrFetchedTypes ==
  ASSUME TypeOK, NEW x, NEW n, SentOrFetched(x, n)
  PROVE  tap' \in TapRec /\ toC' \in Seq(SentRec)
<1>1. CASE Walked(x, "item", n)
  BY <1>1, WalkedTypes
<1>2. CASE tap' \in TapRec /\ toC' = toC
  BY <1>2, Types
<1> QED
  BY <1>1, <1>2 DEF SentOrFetched

LEMMA WalkWellFormed ==
  ASSUME WellFormed, Walk
  PROVE  WellFormed'
<1>1. /\ TypeOK /\ EntriesInv
      /\ src \in SrcRec /\ writer \in BOOLEAN /\ tap \in TapRec /\ tasks \in Seq(TaskRec)
      /\ toC \in Seq(SentRec) /\ toP \in Seq(AnswerRec) /\ copy \in CopyRec
      /\ used \in [nacks : Nat, drops : Nat] /\ lapse \subseteq {"late", "stale", "replayed"}
  BY Types DEF WellFormed
<1>2. SUFFICES /\ mode' = mode /\ writer' = writer /\ toP' = toP /\ copy' = copy
               /\ used' = used /\ lapse' = lapse
               /\ tasks' \in Seq(TaskRec) /\ tap' \in TapRec /\ toC' \in Seq(SentRec)
               /\ EntriesInv' /\ src' \in SrcRec
  BY <1>1, TypeStep DEF WellFormed
<1>3. CASE SendHighPriority
  <2>1. /\ mode' = mode /\ writer' = writer /\ toP' = toP /\ copy' = copy
        /\ used' = used /\ lapse' = lapse /\ tasks' = tasks
    BY <1>3 DEF SendHighPriority
  <2>2. PICK ev \in HighEvents, x \in TapRec : src' = src /\ Walked(x, ev, 0)
    BY <1>1, <1>3, SendHighPriorityFacts
  <2> QED
    BY <1>1, <2>1, <2>2, WalkedTypes, SameWellFormed
<1>4. CASE RunBackfill
  <2>1. /\ mode' = mode /\ writer' = writer /\ toP' = toP /\ copy' = copy
        /\ used' = used /\ lapse' = lapse /\ src' = src /\ toC' = toC
    BY <1>4 DEF RunBackfill
  <2>2. tap' \in TapRec /\ tasks' \in Seq(TaskRec)
    BY <1>1, <1>4, RunBackfillFacts
  <2> QED
    BY <1>1, <2>1, <2>2, SameWellFormed
<1>5. CASE SendCheckpointMessage
  <2>1. /\ mode' = mode /\ writer' = writer /\ toP' = toP /\ copy' = copy
        /\ used' = used /\ lapse' = lapse /\ tasks' = tasks
    BY <1>5 DEF SendCheckpointMessage
  <2>2. PICK msg \in MessageRec, x \in TapRec : src' = src /\ Walked(x, msg.ev, msg.n)
    BY <1>1, <1>5, SendCheckpointMessageFacts
  <2> QED
    BY <1>1, <2>1, <2>2, WalkedTypes, SameWellFormed
<1>6. CASE SendFetched
  <2>1. /\ mode' = mode /\ writer' = writer /\ toP' = toP /\ copy' = copy
        /\ used' = used /\ lapse' = lapse /\ tasks' = tasks
    BY <1>6 DEF SendFetched
  <2>2. PICK x \in TapRec : src' = src /\ Walked(x, "item", Head(tap.fetched))
    BY <1>1, <1>6, SendFetchedFacts
  <2> QED
    BY <1>1, <2>1, <2>2, WalkedTypes, SameWellFormed
<1>7. CASE SendQueued
  <2>1. /\ mode' = mode /\ writer' = writer /\ toP' = toP /\ copy' = copy
        /\ used' = used /\ lapse' = lapse /\ tasks' = tasks
    BY <1>7 DEF SendQueued
  <2>2. PICK x \in TapRec : src' = src /\ SentOrFetched(x, Head(tap.queue))
    BY <1>1, <1>7, SendQueuedFacts
  <2> QED
    BY <1>1, <2>1, <2>2, SentOrFetchedTypes, SameWellFormed
<1>8. CASE ReadCheckpoint
  <2>1. /\ mode' = mode /\ writer' = writer /\ toP' = toP /\ copy' = copy
        /\ used' = used /\ lapse' = lapse /\ tasks' = tasks
    BY <1>8 DEF ReadCheckpoint
  <2> DEFINE t == CheckBackfill(tap)
             e == src.entries[NextPos]
  <2>2. HasNext(src) /\ (ReadsItem(t, e) \/ ReadsMessage(t, e) \/ Waits(t, e))
    BY <1>1, <1>8, ReadCheckpointFacts
  <2>3. /\ NextPos \in 1..Len(src.entries) /\ src.cursor \in 1..Len(src.entries)
        /\ src.entries[src.cursor].chk <= src.entries[NextPos].chk
    BY <1>1, <2>2, NextFacts
  <2>4. src.entries[NextPos].chk >= src.first
    <3>1. /\ src.cursor # 0 => src.entries[src.cursor].chk \in src.first..OpenId
          /\ Len(src.entries) \in Nat /\ Good(src.entries) /\ src.first \in 2..OpenId
          /\ OpenId \in Nat
      BY <1>1, SourceFacts
    <3>2. src.cursor # 0 /\ src.entries[NextPos].chk \in Nat
      BY <2>3, <3>1, EntryFacts
    <3> HIDE DEF NextPos
    <3> QED
      BY <2>3, <3>1, <3>2
  <2>5. MovedTo(src, src', NextPos) => EntriesInv' /\ src' \in SrcRec
    <3> HAVE MovedTo(src, src', NextPos)
    <3>1. src'.cursor = NextPos
      BY DEF MovedTo
    <3> QED
      BY <2>3, <2>4, <3>1, MovedWellFormed
  <2> HIDE DEF t, e
  <2>6. EntriesInv' /\ src' \in SrcRec
    BY <2>2, <2>5, SameWellFormed DEF ReadsItem, ReadsMessage, Waits
  <2>7. tap' \in TapRec /\ toC' \in Seq(SentRec)
    BY <1>1, <2>2, SentOrFetchedTypes DEF ReadsItem, ReadsMessage, Waits
  <2> QED
    BY <1>1, <2>1, <2>6, <2>7
<1>9. CASE CompleteTakeover
  <2>1. /\ mode' = mode /\ writer' = writer /\ toP' = toP /\ copy' = copy
        /\ used' = used /\ lapse' = lapse /\ tasks' = tasks
    BY <1>9 DEF CompleteTakeover
  <2> DEFINE t == CheckBackfill(tap)
  <2>2. /\ src' \in SrcRec /\ src'.entries = src.entries /\ src'.first = src.first
        /\ src'.cursor = src.cursor
        /\ Activates(t) \/ AsksAgain(t)
    BY <1>1, <1>9, CompleteTakeoverFacts
  <2>3. EntriesInv'
    BY <1>1, <2>2 DEF EntriesInv, CursorOK
  <2> HIDE DEF t
  <2>4. tap' \in TapRec /\ toC' \in Seq(SentRec)
    BY <1>1, <2>2, WalkedTypes DEF Activates, AsksAgain
  <2> QED
    BY <1>1, <2>1, <2>2, <2>3, <2>4
<1> QED
  BY <1>3, <1>4, <1>5, <1>6, <1>7, <1>8, <1>9 DEF Walk

LEMMA TaskWellFormed ==
  ASSUME WellFormed, NEW i \in DOMAIN tasks, TaskStep(i)
  PROVE  WellFormed'
<1>1. /\ TypeOK /\ EntriesInv
      /\ src \in SrcRec /\ writer \in BOOLEAN /\ tap \in TapRec /\ tasks \in Seq(TaskRec)
      /\ toC \in Seq(SentRec) /\ toP \in Seq(AnswerRec) /\ copy \in CopyRec
      /\ used \in [nacks : Nat, drops : Nat] /\ lapse \subseteq {"late", "stale", "replayed"}
  BY Types DEF WellFormed
<1>2. SUFFICES /\ mode' = mode /\ writer' = writer /\ toP' = toP /\ copy' = copy
               /\ used' = used /\ lapse' \subseteq {"late", "stale", "replayed"}
               /\ tasks' \in Seq(TaskRec) /\ tap' \in TapRec /\ toC' = toC
               /\ EntriesInv' /\ src' \in SrcRec
  BY <1>1, TypeStep DEF WellFormed
<1>3. CASE Visit(i)
  <2>1. /\ mode' = mode /\ writer' = writer /\ toP' = toP /\ copy' = copy
        /\ used' = used /\ toC' = toC /\ lapse' \subseteq {"late", "stale", "replayed"}
    BY <1>1, <1>3 DEF Visit
  <2>2. MovedTo(src, src', Beginning(OpenId)) /\ tap' \in TapRec /\ tasks' \in Seq(TaskRec)
    BY <1>1, <1>3, VisitFacts
  <2>3. OpenId \in 2..OpenId /\ src.first \in 2..OpenId /\ OpenId \in Nat
    BY <1>1, SourceFacts
  <2>4. /\ Beginning(OpenId) \in 1..Len(src.entries)
        /\ src.entries[Beginning(OpenId)].chk = OpenId
    BY <1>1, <2>3, BeginningFacts
  <2>5. src.entries[Beginning(OpenId)].chk >= src.first
    BY <2>3, <2>4
  <2>6. src'.cursor = Beginning(OpenId)
    BY <2>2 DEF MovedTo
  <2> QED
    BY <2>1, <2>2, <2>4, <2>5, <2>6, MovedWellFormed
<1>4. CASE Complete(i)
  <2>1. /\ mode' = mode /\ writer' = writer /\ toP' = toP /\ copy' = copy /\ src' = src
        /\ used' = used /\ toC' = toC /\ lapse' \subseteq {"late", "stale", "replayed"}
    BY <1>1, <1>4 DEF Complete
  <2>2. tap' \in TapRec /\ tasks' \in Seq(TaskRec)
    BY <1>1, <1>4, CompleteFacts DEF Loads
  <2> QED
    BY <2>1, <2>2, SameWellFormed
<1>5. CASE LoadFromDisk(i)
  <2>1. /\ mode' = mode /\ writer' = writer /\ toP' = toP /\ copy' = copy /\ src' = src
        /\ used' = used /\ toC' = toC /\ lapse' \subseteq {"late", "stale", "replayed"}
    BY <1>1, <1>5 DEF LoadFromDisk
  <2>2. tap' \in TapRec /\ tasks' \in Seq(TaskRec)
    BY <1>1, <1>5, LoadFromDiskFacts DEF Loads
  <2> QED
    BY <2>1, <2>2, SameWellFormed
<1> QED
  BY <1>3, <1>4, <1>5 DEF TaskStep

LEMMA OtherWellFormed ==
  ASSUME WellFormed, BgFetchDone \/ Answer \/ Resume \/ Receive \/ Drop \/ WriteBegins
  PROVE  WellFormed'
<1>1. /\ TypeOK /\ EntriesInv
      /\ src \in SrcRec /\ writer \in BOOLEAN /\ tap \in TapRec /\ tasks \in Seq(TaskRec)
      /\ toC \in Seq(SentRec) /\ toP \in Seq(AnswerRec) /\ copy \in CopyRec
      /\ used \in [nacks : Nat, drops : Nat] /\ lapse \subseteq {"late", "stale", "replayed"}
  BY Types DEF WellFormed
<1>2. SUFFICES /\ mode' = mode /\ writer' \in BOOLEAN /\ toP' \in Seq(AnswerRec) /\ copy' \in CopyRec
               /\ used' \in [nacks : Nat, drops : Nat] /\ lapse' = lapse
               /\ tasks' = tasks /\ tap' \in TapRec /\ toC' \in Seq(SentRec) /\ src' = src
  BY <1>1, TypeStep, SameWellFormed DEF WellFormed
<1>3. CASE BgFetchDone
  <2>1. tap' \in TapRec
    BY <1>1, <1>3, BgFetchDoneFacts
  <2> QED
    BY <1>1, <1>3, <2>1 DEF BgFetchDone
<1>4. CASE ReceiveAck
  <2>1. PICK x \in TapRec : tap' = DisconnectIfIdle(CheckBackfill(x), src)
    BY <1>1, <1>4, ReceiveAckFacts
  <2>2. tap' \in TapRec
    BY <2>1, CheckBackfillFacts, DisconnectFacts
  <2>3. toP' \in Seq(AnswerRec)
    BY <1>1, <1>4, ReceiveAckFacts, AnswerFacts
  <2> QED
    BY <1>1, <1>4, <2>2, <2>3 DEF ReceiveAck
<1>5. CASE ReceiveNack
  <2>1. tap' \in TapRec
    BY <1>1, <1>5, ReceiveNackFacts
  <2>2. toP' \in Seq(AnswerRec)
    BY <1>1, <1>5, ReceiveNackFacts, AnswerFacts
  <2> QED
    BY <1>1, <1>5, <2>1, <2>2 DEF ReceiveNack
<1>6. CASE Resume
  <2>1. tap' \in TapRec
    BY <1>1, <1>6, ResumeFacts
  <2> QED
    BY <1>1, <1>6, <2>1 DEF Resume
<1>7. CASE Receive
  <2>1. /\ toC' \in Seq(SentRec) /\ toP' \in Seq(AnswerRec)
        /\ used' \in [nacks : Nat, drops : Nat]
    BY <1>1, <1>7, ReceiveFacts
  <2>2. copy' \in CopyRec
    BY <1>1, <1>7, ReceiveFacts DEF Applies
  <2> QED
    BY <1>1, <1>7, <2>1, <2>2 DEF Receive
<1>8. CASE Drop
  <2>1. tap' \in TapRec /\ toC' = <<>> /\ toP' = <<>> /\ used' \in [nacks : Nat, drops : Nat]
    BY <1>1, <1>8, DropFacts
  <2>2. toC' \in Seq(SentRec) /\ toP' \in Seq(AnswerRec)
    BY <2>1
  <2> QED
    BY <1>1, <1>8, <2>1, <2>2 DEF Drop
<1>9. CASE WriteBegins
  BY <1>1, <1>9 DEF WriteBegins
<1> QED
  BY <1>3, <1>4, <1>5, <1>6, <1>7, <1>8, <1>9 DEF Answer

LEMMA ConnectWellFormed ==
  ASSUME WellFormed, Connect
  PROVE  WellFormed'
<1>1. /\ TypeOK /\ EntriesInv
      /\ src \in SrcRec /\ writer \in BOOLEAN /\ tap \in TapRec /\ tasks \in Seq(TaskRec)
      /\ toC \in Seq(SentRec) /\ toP \in Seq(AnswerRec) /\ copy \in CopyRec
      /\ used \in [nacks : Nat, drops : Nat] /\ lapse \subseteq {"late", "stale", "replayed"}
  BY Types DEF WellFormed
<1>2. SUFFICES /\ mode' = mode /\ writer' = writer /\ toP' = toP /\ copy' = copy
               /\ used' = used /\ lapse' \subseteq {"late", "stale", "replayed"}
               /\ tasks' \in Seq(TaskRec) /\ tap' \in TapRec /\ toC' = toC
               /\ EntriesInv' /\ src' \in SrcRec
  BY <1>1, TypeStep DEF WellFormed
<1>3. ASSUME NEW t, NEW k \in {0, src.cursor}, MovedTo(src, src', RegisteredCursor(t, k))
      PROVE  EntriesInv' /\ src' \in SrcRec
  <2> DEFINE d == RegisteredCursor(t, k)
  <2>1. /\ d \in Nat /\ d <= Len(src.entries)
        /\ d # 0 => src.entries[d].chk >= src.first
    BY <1>1, <1>3, CursorFacts
  <2>2. src'.cursor = d /\ MovedTo(src, src', src'.cursor)
    BY <1>3 DEF MovedTo
  <2> HIDE DEF d
  <2>3. Len(src.entries) \in Nat
    BY <1>1, SourceFacts
  <2>4. d # 0 => d \in 1..Len(src.entries) /\ src.entries[d].chk >= src.first
    <3> HAVE d # 0
    <3>1. d \in 1..Len(src.entries)
      BY <2>1, <2>3
    <3> QED
      BY <2>1, <3>1
  <2> QED
    BY <2>2, <2>4, MovedWellFormed
<1>4. CASE ConnectFresh
  <2>1. PICK t \in TapRec : /\ Registers(t, tap')
                            /\ MovedTo(src, src', RegisteredCursor(t, 0))
                            /\ tasks' \in Seq(TaskRec)
    BY <1>1, <1>4, ConnectFreshFacts
  <2>2. tap' \in TapRec
    BY <2>1 DEF Registers
  <2>3. /\ mode' = mode /\ writer' = writer /\ toP' = toP /\ copy' = copy
        /\ used' = used /\ toC' = toC /\ lapse' = lapse
    BY <1>4 DEF ConnectFresh
  <2> QED
    BY <1>1, <1>3, <2>1, <2>2, <2>3
<1>5. CASE ConnectGrab
  <2>1. PICK x \in TapRec, t \in TapRec, u \in TapRec :
          /\ Joins(x, t) /\ Registers(t, u) /\ tap' = RolledBack(u)
          /\ x.log = tap.log
          /\ MovedTo(src, src', RegisteredCursor(t, src.cursor))
    BY <1>1, <1>5, ConnectGrabFacts
  <2>2. tap' \in TapRec
    BY <2>1, RolledBackTypes
  <2>3. /\ mode' = mode /\ writer' = writer /\ toP' = toP /\ copy' = copy
        /\ used' = used /\ toC' = toC /\ tasks' = tasks
        /\ lapse' \subseteq {"late", "stale", "replayed"}
    BY <1>1, <1>5 DEF ConnectGrab
  <2> QED
    BY <1>1, <1>3, <2>1, <2>2, <2>3
<1> QED
  BY <1>4, <1>5 DEF Connect

LEMMA SourceWellFormed ==
  ASSUME WellFormed, WriteQueued \/ CloseCheckpoint \/ FreeCheckpoint
  PROVE  WellFormed'
<1>1. /\ TypeOK /\ EntriesInv
      /\ src \in SrcRec /\ writer \in BOOLEAN /\ tap \in TapRec /\ tasks \in Seq(TaskRec)
      /\ toC \in Seq(SentRec) /\ toP \in Seq(AnswerRec) /\ copy \in CopyRec
      /\ used \in [nacks : Nat, drops : Nat] /\ lapse \subseteq {"late", "stale", "replayed"}
  BY Types DEF WellFormed
<1>2. SUFFICES /\ mode' = mode /\ writer' \in BOOLEAN /\ toP' = toP /\ copy' = copy
               /\ used' = used /\ lapse' \subseteq {"late", "stale", "replayed"}
               /\ tasks' = tasks /\ tap' = tap /\ toC' = toC
               /\ EntriesInv' /\ src' \in SrcRec
  BY <1>1, TypeStep DEF WellFormed
<1>3. /\ Good(src.entries) /\ src.first \in 2..Newest(src.entries) /\ Newest(src.entries) \in Nat
      /\ Len(src.entries) \in Nat /\ src.cursor \in 0..Len(src.entries)
      /\ src.cursor # 0 => /\ src.entries[src.cursor].chk \in Nat
                           /\ src.entries[src.cursor].chk >= src.first
  <2>1. /\ Good(src.entries) /\ src.first \in 2..OpenId /\ OpenId = Newest(src.entries)
        /\ Newest(src.entries) \in Nat
        /\ Len(src.entries) \in Nat /\ src.cursor \in 0..Len(src.entries)
        /\ src.cursor # 0 => src.entries[src.cursor].chk \in src.first..OpenId
    BY <1>1, SourceFacts
  <2> QED
    BY <2>1
<1>4. ASSUME src' \in SrcRec, src'.first = src.first, src'.cursor = src.cursor,
             Grows(src.entries, src'.entries)
      PROVE  EntriesInv'
  <2>1. /\ Good(src'.entries) /\ Len(src'.entries) \in Nat /\ Newest(src'.entries) \in Nat
        /\ Len(src.entries) < Len(src'.entries) /\ Newest(src.entries) <= Newest(src'.entries)
        /\ \A i \in 1..Len(src.entries) : src'.entries[i] = src.entries[i]
    BY <1>4, EntryFacts DEF Grows
  <2>2. src'.first \in 2..Newest(src'.entries)
    BY <1>3, <1>4, <2>1
  <2>3. src'.cursor # 0 => /\ src'.cursor \in 1..Len(src'.entries)
                           /\ src'.entries[src'.cursor].chk >= src'.first
    BY <1>3, <1>4, <2>1
  <2> QED
    BY <2>1, <2>2, <2>3 DEF EntriesInv, CursorOK, Good, Newest
<1>5. CASE WriteQueued
  <2>1. /\ mode' = mode /\ writer' \in BOOLEAN /\ toP' = toP /\ copy' = copy
        /\ used' = used /\ lapse' \subseteq {"late", "stale", "replayed"}
        /\ tasks' = tasks /\ tap' = tap /\ toC' = toC
    BY <1>1, <1>5 DEF WriteQueued
  <2>2. /\ src' \in SrcRec /\ src'.first = src.first /\ src'.cursor = src.cursor
        /\ Grows(src.entries, src'.entries)
    BY <1>1, <1>5, WriteQueuedFacts
  <2> QED
    BY <1>4, <2>1, <2>2
<1>6. CASE CloseCheckpoint
  <2>1. /\ mode' = mode /\ writer' = writer /\ toP' = toP /\ copy' = copy
        /\ used' = used /\ lapse' = lapse
        /\ tasks' = tasks /\ tap' = tap /\ toC' = toC
    BY <1>6 DEF CloseCheckpoint
  <2>2. /\ src' \in SrcRec /\ src'.first = src.first /\ src'.cursor = src.cursor
        /\ Grows(src.entries, src'.entries)
    BY <1>1, <1>6, CloseCheckpointFacts
  <2> QED
    BY <1>1, <1>4, <2>1, <2>2
<1>7. CASE FreeCheckpoint
  <2>1. /\ mode' = mode /\ writer' = writer /\ toP' = toP /\ copy' = copy
        /\ used' = used /\ lapse' = lapse
        /\ tasks' = tasks /\ tap' = tap /\ toC' = toC
    BY <1>7 DEF FreeCheckpoint
  <2>2. /\ src' \in SrcRec /\ src'.state = src.state /\ src'.entries = src.entries
        /\ src'.cursor = src.cursor /\ src'.first = src.first + 1
        /\ src.first < OpenId /\ (src.cursor # 0 => src.entries[src.cursor].chk > src.first)
    BY <1>1, <1>7, FreeCheckpointFacts
  <2>3. OpenId = Newest(src.entries)
    BY <1>1, SourceFacts
  <2>4. src'.first \in 2..Newest(src.entries)
    BY <1>3, <2>2, <2>3
  <2>5. src.cursor # 0 => src.entries[src.cursor].chk >= src'.first
    BY <1>3, <2>2
  <2>6. EntriesInv'
    BY <1>1, <2>2, <2>4, <2>5 DEF EntriesInv, CursorOK, Newest
  <2> QED
    BY <1>1, <2>1, <2>2, <2>6
<1> QED
  BY <1>5, <1>6, <1>7

LEMMA InitWellFormed == Init => WellFormed
<1> SUFFICES ASSUME Init PROVE WellFormed
  OBVIOUS
<1> DEFINE E == src.entries
           d == Entry("dummy", 2, 0)
           f == Entry("start", 2, 0)
<1>1. src = [state |-> "active", entries |-> Opened(2), first |-> 2, cursor |-> 0]
  BY DEF Init
<1>2. /\ d.ev = "dummy" /\ d.chk = 2 /\ d \in EntryRec
      /\ f.ev = "start" /\ f.chk = 2 /\ f \in EntryRec
  BY EntryValues
<1>3. E = <<d, f>>
  BY <1>1 DEF Opened
<1> HIDE DEF d, f
<1>4. E \in Seq(EntryRec) /\ Len(E) = 2 /\ E[1] = d /\ E[2] = f
  BY <1>2, <1>3
<1> HIDE DEF E
<1>5. Follows(E[1], E[2])
  BY <1>2, <1>4 DEF Follows
<1>6. Chained(E)
  BY <1>2, <1>4, <1>5 DEF Chained
<1>7. Sorted(E)
  BY <1>2, <1>4 DEF Sorted
<1>8. Begun(E)
  <2> SUFFICES ASSUME NEW id \in 2..E[Len(E)].chk
               PROVE  \E i \in 1..Len(E) : E[i] = Entry("dummy", id, 0)
    BY DEF Begun
  <2>1. id = 2
    BY <1>2, <1>4
  <2> QED
    BY <1>4, <2>1 DEF d
<1>9. src.first = 2 /\ src.cursor = 0 /\ src.entries = E
  BY <1>1 DEF E
<1>10. CursorOK(src)
  <2>1. src.entries[Len(src.entries)].chk = 2
    BY <1>2, <1>4, <1>9
  <2> QED
    BY <1>9, <2>1 DEF CursorOK
<1>11. EntriesInv
  BY <1>6, <1>7, <1>8, <1>9, <1>10 DEF EntriesInv
<1>12. src \in SrcRec
  BY <1>1, <1>4, <1>9 DEF SrcRec
<1>13. mode \in {"replica", "takeover"} /\ writer \in BOOLEAN /\ tap \in TapRec
       /\ tasks \in Seq(TaskRec) /\ toC \in Seq(SentRec) /\ toP \in Seq(AnswerRec)
       /\ copy \in CopyRec /\ used \in [nacks : Nat, drops : Nat]
       /\ lapse \subseteq {"late", "stale", "replayed"}
  <2>1. mode \in {"replica", "takeover"}
    BY ModesAssumption DEF Init
  <2>2. writer \in BOOLEAN /\ tap \in TapRec /\ lapse \subseteq {"late", "stale", "replayed"}
    BY NewTapFacts DEF Init
  <2>3. tasks \in Seq(TaskRec) /\ toC \in Seq(SentRec) /\ toP \in Seq(AnswerRec)
    BY DEF Init
  <2>4. copy \in CopyRec
    BY DEF Init, CopyRec
  <2>5. used \in [nacks : Nat, drops : Nat]
    BY DEF Init
  <2> QED
    BY <2>1, <2>2, <2>3, <2>4, <2>5
<1> QED
  BY <1>11, <1>12, <1>13 DEF WellFormed, TypeOK, SrcRec, CopyRec

LEMMA StutterWellFormed ==
  ASSUME WellFormed, UNCHANGED vars
  PROVE  WellFormed'
BY DEF WellFormed, TypeOK, EntriesInv, CursorOK, vars

\* Every variable keeps its type, and the checkpoints of the source stay in order, each
\* with its dummy, start, items and end, with the cursor in one that is in memory.
THEOREM SpecWellFormed == Spec => []WellFormed
<1>1. Init => WellFormed
  BY InitWellFormed
<1>2. WellFormed /\ [Next]_vars => WellFormed'
  <2> SUFFICES ASSUME WellFormed, [Next]_vars
               PROVE  WellFormed'
    OBVIOUS
  <2>1. CASE Walk
    BY <2>1, WalkWellFormed
  <2>2. CASE \E i \in DOMAIN tasks : TaskStep(i)
    BY <2>2, TaskWellFormed
  <2>3. CASE BgFetchDone \/ Answer \/ Resume \/ Receive \/ Drop \/ WriteBegins
    BY <2>3, OtherWellFormed
  <2>4. CASE Connect
    BY <2>4, ConnectWellFormed
  <2>5. CASE WriteQueued \/ CloseCheckpoint \/ FreeCheckpoint
    BY <2>5, SourceWellFormed
  <2>6. CASE UNCHANGED vars
    BY <2>6, StutterWellFormed
  <2> QED
    BY <2>1, <2>2, <2>3, <2>4, <2>5, <2>6 DEF Next
<1> QED
  BY <1>1, <1>2, PTL DEF Spec

-----------------------------------------------------------------------------
(***************************************************************************)
(* The invariant and the steps of walkTapQueue.                            *)
(***************************************************************************)
\* The message was taken from where the producer had it.
Taken(t, ev, n, u) ==
  /\ SameFlags(t, u)
  /\ u.opaqueMsgCounter = t.opaqueMsgCounter + IF ev \in Opaques THEN 1 ELSE 0
  /\ u.checkpointMsgCounter = t.checkpointMsgCounter + IF ev \in CheckpointEvents THEN 1 ELSE 0
  /\ Len(u.checkpointMsgs) + u.checkpointMsgCounter =
       Len(t.checkpointMsgs) + t.checkpointMsgCounter
  /\ \A x : x \in ToSet(t.checkpointMsgs) <=>
       x \in ToSet(u.checkpointMsgs) \/ (ev \in CheckpointEvents /\ x = Message(ev, n))
  /\ \A x : Queued(t, x) => Queued(u, x) \/ (ev = "item" /\ x = n)
  /\ \A x \in {"initial_stream", "set_pending"} :
       /\ x \in ToSet(u.high) \/ x = ev => x \in ToSet(t.high)
       /\ x \in ToSet(t.high) => x \in ToSet(u.high) \/ x = ev

\* The copy may be told to become active.
MayActivate(s, t, cp) ==
  /\ s.state = "dead" /\ ~Announced(t) /\ "set_pending" \notin ToSet(t.high)
  /\ Items(s.entries, Len(s.entries)) \subseteq cp.has

LEMMA PostSound ==
  ASSUME NEW s, NEW t \in TapRec, NEW ts, NEW c \in Seq(SentRec), NEW p \in Seq(AnswerRec),
         NEW cp, NEW l, Sound(s, t, ts, c, p, cp, l), t.connected,
         NEW ev, NEW n, NEW u, NEW m, Posts(t, ev, n, u, m), Taken(t, ev, n, u),
         ev = "set_active" => MayActivate(s, t, cp)
  PROVE  Sound(s, u, ts, Append(c, m), p, cp, l)
<1> DEFINE d == Append(c, m)
           r == [seqno |-> m.seqno, ev |-> ev, n |-> n]
<1>1. /\ BackfillOK(t, ts, s.cursor) /\ StreamOK(t, c, p) /\ CountersOK(t)
      /\ CoveredOK(s, t, ts, c, p, cp) /\ PhasesOK(s, t, c, cp) /\ CopyOK(s.entries, cp)
      /\ ConfirmedOK(s, t, cp) /\ EndingOK(s, t, c, cp, l) /\ PendingOK(t, c, cp)
  BY DEF Sound
<1>2. /\ u.exists = t.exists /\ u.connected = t.connected /\ m \in SentRec /\ m.ev = ev
      /\ t.seqno <= m.seqno
  BY DEF Posts
<1>3. SameFlags(t, u) /\ u.doRunBackfill = t.doRunBackfill
      /\ u.backfillVBucket = t.backfillVBucket
  BY DEF Taken, SameFlags
<1>4. /\ r \in LogRec /\ r.ev = ev /\ r.n = n
      /\ ToSet(u.log) = ToSet(t.log) \cup {r}
  BY PostedLog
<1> HIDE DEF r
<1>5. d \in Seq(SentRec) /\ ToSet(d) = ToSet(c) \cup {m}
  BY <1>2, AppendFacts
<1> HIDE DEF d
<1>6. /\ Delivered(u, d) => Delivered(t, c)
      /\ (\E x \in ToSet(c) : x.ev = "initial_stream")
           => \E x \in ToSet(d) : x.ev = "initial_stream"
      /\ ev = "initial_stream" => \E x \in ToSet(d) : x.ev = "initial_stream"
      /\ InLog(u.log, "initial_stream") => InLog(t.log, "initial_stream") \/ ev = "initial_stream"
      /\ Ending(d, cp) => Ending(c, cp) \/ ev = "set_active"
  BY <1>1, PostPhase DEF d
<1>7. BackfillOK(u, ts, s.cursor)
  BY <1>1, <1>2, <1>3, BackfillFrame
<1>8. StreamOK(u, d, p)
  BY <1>1, PostStream DEF d
<1>9. Announced(u) => Announced(t)
  BY <1>6 DEF Announced, Taken
<1>10. CountersOK(u)
  <2>1. /\ Cardinality(Numbers(u.log, Opaques)) =
             Cardinality(Numbers(t.log, Opaques)) + IF ev \in Opaques THEN 1 ELSE 0
        /\ Cardinality(Numbers(u.log, CheckpointEvents)) =
             Cardinality(Numbers(t.log, CheckpointEvents)) + IF ev \in CheckpointEvents THEN 1 ELSE 0
    BY <1>1, PostNumbers
  <2>2. /\ u.opaqueMsgCounter = t.opaqueMsgCounter + IF ev \in Opaques THEN 1 ELSE 0
        /\ u.checkpointMsgCounter =
             t.checkpointMsgCounter + IF ev \in CheckpointEvents THEN 1 ELSE 0
        /\ Len(u.checkpointMsgs) + u.checkpointMsgCounter =
             Len(t.checkpointMsgs) + t.checkpointMsgCounter
    BY DEF Taken
  <2>3. /\ t.opaqueMsgCounter = Cardinality(Numbers(t.log, Opaques))
        /\ t.checkpointMsgCounter = Cardinality(Numbers(t.log, CheckpointEvents))
        /\ Len(t.checkpointMsgs) + t.checkpointMsgCounter <= 1
        /\ Announced(t) => t.doRunBackfill
    BY <1>1 DEF CountersOK
  <2> QED
    BY <1>3, <1>9, <2>1, <2>2, <2>3 DEF CountersOK
<1>11. CoveredOK(s, u, ts, d, p, cp)
  <2>1. ASSUME NEW x \in Kept(t, ts, c, p, cp.has)
        PROVE  x \in Kept(u, ts, d, p, cp.has)
    <3>1. x \in InFlight(t, c, p) => x \in InFlight(u, d, p)
      BY PostInFlight DEF d
    <3>2. ev = "item" => n \in InFlight(u, d, p)
      BY PostInFlight DEF d
    <3>3. Queued(t, x) => Queued(u, x) \/ x \in InFlight(u, d, p)
      BY <3>2 DEF Taken
    <3>4. x \in cp.has \/ Queued(t, x) \/ x \in InFlight(t, c, p) \/ Comes(ts, x)
      BY KeptFacts DEF Queued
    <3>5. x \in cp.has \/ Queued(u, x) \/ x \in InFlight(u, d, p) \/ Comes(ts, x)
      BY <3>1, <3>3, <3>4
    <3> QED
      BY <3>5, KeptFacts DEF Queued
  <2> QED
    BY <1>1, <1>2, <2>1, CoveredFrame
<1>12. PhasesOK(s, u, d, cp)
  <2>1. ASSUME NEW x
        PROVE  x \in Outstanding(u) <=> x \in Outstanding(t)
    <3>1. x \in Outstanding(u) <=>
            \/ x \in ToSet(u.checkpointMsgs)
            \/ \E e \in ToSet(u.log) : e.ev \in CheckpointEvents /\ x = Message(e.ev, e.n)
      BY OutstandingFacts
    <3>2. x \in Outstanding(t) <=>
            \/ x \in ToSet(t.checkpointMsgs)
            \/ \E e \in ToSet(t.log) : e.ev \in CheckpointEvents /\ x = Message(e.ev, e.n)
      BY OutstandingFacts
    <3>3. (\E e \in ToSet(u.log) : e.ev \in CheckpointEvents /\ x = Message(e.ev, e.n)) <=>
            \/ \E e \in ToSet(t.log) : e.ev \in CheckpointEvents /\ x = Message(e.ev, e.n)
            \/ ev \in CheckpointEvents /\ x = Message(ev, n)
      BY <1>4
    <3>4. x \in ToSet(t.checkpointMsgs) <=>
            x \in ToSet(u.checkpointMsgs) \/ (ev \in CheckpointEvents /\ x = Message(ev, n))
      BY DEF Taken
    <3> QED
      BY <3>1, <3>2, <3>3, <3>4
  <2>2. Outstanding(u) = Outstanding(t)
    BY <2>1
  <2>3. StreamPending(t, c) => StreamPending(u, d)
    <3>1. "initial_stream" \in ToSet(t.high) => "initial_stream" \in ToSet(u.high)
                                                \/ ev = "initial_stream"
      BY DEF Taken
    <3> QED
      BY <1>2, <1>6, <3>1 DEF StreamPending
  <2> QED
    BY <1>1, <1>2, <1>3, <1>6, <2>2, <2>3, PhaseFrame
<1>13. ConfirmedOK(s, u, cp)
  BY <1>1, <1>2, <1>3 DEF ConfirmedOK
<1>14. Ending(d, cp) => Ending(c, cp) \/ ev = "set_active"
  BY <1>6
<1>15. EndingOK(s, u, d, cp, l)
  BY <1>1, <1>9, <1>14 DEF EndingOK, MayActivate
<1>16. PendingOK(u, d, cp)
  <2>1. "set_pending" \in ToSet(u.high) \/ ev = "set_pending" => "set_pending" \in ToSet(t.high)
    BY DEF Taken
  <2>2. ev = "set_pending" => ~Ending(c, cp)
    BY <1>1, <2>1 DEF PendingOK
  <2>3. cp.state = "active" => Ending(c, cp)
    BY DEF Ending
  <2>4. \A k \in ToSet(c) : k.ev = "set_active" => Ending(c, cp)
    BY DEF Ending
  <2>5. Ending(d, cp) => "set_pending" \notin ToSet(u.high)
    BY <1>1, <1>14, <2>1 DEF PendingOK, MayActivate
  <2>6. \A k \in ToSet(d) : k.ev = "set_pending" => cp.state # "active"
    BY <1>1, <1>2, <1>5, <2>2, <2>3 DEF PendingOK
  <2>7. \A k \in ToSet(c) : k.seqno < m.seqno
    <3> TAKE k \in ToSet(c)
    <3>1. PICK e \in ToSet(t.log) : e.seqno = k.seqno
      BY <1>1, SentIsLogged
    <3>2. e.seqno < t.seqno
      BY <1>1 DEF StreamOK, LogOK
    <3>3. k.seqno \in Nat /\ m.seqno \in Nat /\ t.seqno \in Nat
      <4>1. k \in SentRec
        BY ToSetFacts
      <4> QED
        BY <1>2, <4>1 DEF SentRec, TapRec
    <3> QED
      BY <1>2, <3>1, <3>2, <3>3
  <2>8. \A k, j \in ToSet(d) : k.ev = "set_pending" /\ j.ev = "set_active" => k.seqno < j.seqno
    BY <1>1, <1>2, <1>5, <2>2, <2>4, <2>7 DEF PendingOK
  <2> QED
    BY <2>5, <2>6, <2>8 DEF PendingOK
<1>17. Sound(s, u, ts, d, p, cp, l)
  BY <1>1, <1>7, <1>8, <1>10, <1>11, <1>12, <1>13, <1>15, <1>16 DEF Sound
<1> QED
  BY <1>17 DEF d

\* What every lemma on a step starts from.
Before == WellFormed /\ Strong /\ NotRotated
Afterwards == Sound(src', tap', tasks', toC', toP', copy', lapse')

LEMMA BeforeFacts ==
  ASSUME Before
  PROVE  /\ TypeOK /\ EntriesInv /\ WellFormed
         /\ Sound(src, tap, tasks, toC, toP, copy, lapse)
         /\ tap \in TapRec /\ toC \in Seq(SentRec) /\ toP \in Seq(AnswerRec)
         /\ tasks \in Seq(TaskRec) /\ copy \in CopyRec /\ src \in SrcRec
         /\ tap.seqno < Highest - 1 /\ tap.seqno < Highest /\ tap.seqno \in Nat
<1>1. TypeOK /\ EntriesInv /\ WellFormed /\ Sound(src, tap, tasks, toC, toP, copy, lapse)
  BY DEF Before, WellFormed, Strong
<1>2. tap \in TapRec /\ toC \in Seq(SentRec) /\ toP \in Seq(AnswerRec)
      /\ tasks \in Seq(TaskRec) /\ copy \in CopyRec /\ src \in SrcRec
  BY <1>1, Types
<1>3. tap.seqno \in Nat /\ tap.seqno < Highest - 1 /\ Highest \in Nat
  BY <1>2, SeqModulusFacts DEF TapRec, Before, NotRotated
<1>4. tap.seqno < Highest
  BY <1>3
<1> QED
  BY <1>1, <1>2, <1>3, <1>4

LEMMA SendHighPrioritySound ==
  ASSUME Before, SendHighPriority
  PROVE  Afterwards
<1>1. /\ TypeOK /\ EntriesInv /\ WellFormed
      /\ Sound(src, tap, tasks, toC, toP, copy, lapse)
      /\ tap \in TapRec /\ toC \in Seq(SentRec) /\ toP \in Seq(AnswerRec)
      /\ tap.seqno < Highest - 1 /\ tap.seqno < Highest
  BY BeforeFacts
<1>2. tasks' = tasks /\ toP' = toP /\ copy' = copy /\ lapse' = lapse
  BY DEF SendHighPriority
<1>3. PICK ev \in HighEvents, x \in TapRec :
           /\ tap.connected /\ src' = src /\ Walked(x, ev, 0)
           /\ ev \in ToSet(tap.high)
           /\ ToSet(tap.high) \subseteq ToSet(x.high) \cup {ev}
           /\ ToSet(x.high) \subseteq ToSet(tap.high)
           /\ x.opaqueMsgCounter = tap.opaqueMsgCounter + (IF ev \in Opaques THEN 1 ELSE 0)
           /\ SameQueues(tap, x) /\ SameMessages(tap, x) /\ SameFlags(tap, x)
           /\ tap.seqno < Highest => Ahead(tap, x)
  BY <1>1, SendHighPriorityFacts
<1>4. PICK m : Sends(x, ev, 0, tap', m) /\ toC' = Append(toC, m)
  BY <1>3 DEF Walked
<1>5. Posts(tap, ev, 0, tap', m)
  <2>1. ev \in Events /\ 0 \in Nat
    BY EventFacts
  <2> QED
    BY <1>1, <1>3, <1>4, <2>1, PostsFacts
<1>6. Taken(tap, ev, 0, tap')
  <2>1. SameQueues(x, tap') /\ SameMessages(x, tap') /\ SameHigh(x, tap') /\ SameFlags(x, tap')
    BY <1>4 DEF Sends
  <2>2. ev \notin CheckpointEvents /\ ev # "item" /\ ev # "set_active"
    BY EventFacts
  <2>3. SameFlags(tap, tap')
    BY <1>3, <2>1 DEF SameFlags
  <2>4. tap'.checkpointMsgs = tap.checkpointMsgs
        /\ tap'.checkpointMsgCounter = tap.checkpointMsgCounter
        /\ tap.checkpointMsgCounter + 0 = tap.checkpointMsgCounter
    BY <1>1, <1>3, <2>1 DEF SameMessages, TapRec
  <2>5. tap'.high = x.high
        /\ tap'.opaqueMsgCounter = tap.opaqueMsgCounter + (IF ev \in Opaques THEN 1 ELSE 0)
    BY <1>3, <2>1 DEF SameHigh
  <2>6. \A y : Queued(tap, y) => Queued(tap', y)
    BY <1>3, <2>1 DEF Queued, SameQueues
  <2>7. \A y \in {"initial_stream", "set_pending"} :
          /\ y \in ToSet(tap'.high) \/ y = ev => y \in ToSet(tap.high)
          /\ y \in ToSet(tap.high) => y \in ToSet(tap'.high) \/ y = ev
    BY <1>3, <2>5
  <2> QED
    BY <2>2, <2>3, <2>4, <2>5, <2>6, <2>7 DEF Taken
<1>7. Sound(src, tap', tasks, Append(toC, m), toP, copy, lapse)
  BY <1>1, <1>3, <1>5, <1>6, EventFacts, PostSound
<1> QED
  BY <1>2, <1>3, <1>4, <1>7 DEF Afterwards

LEMMA SendCheckpointMessageSound ==
  ASSUME Before, SendCheckpointMessage
  PROVE  Afterwards
<1>1. /\ TypeOK /\ EntriesInv /\ WellFormed
      /\ Sound(src, tap, tasks, toC, toP, copy, lapse)
      /\ tap \in TapRec /\ toC \in Seq(SentRec) /\ toP \in Seq(AnswerRec)
      /\ tap.seqno < Highest - 1 /\ tap.seqno < Highest
  BY BeforeFacts
<1>2. tasks' = tasks /\ toP' = toP /\ copy' = copy /\ lapse' = lapse
  BY DEF SendCheckpointMessage
<1>3. PICK msg \in MessageRec, x \in TapRec :
           /\ tap.connected /\ src' = src /\ Walked(x, msg.ev, msg.n)
           /\ msg = Head(tap.checkpointMsgs) /\ tap.checkpointMsgs # <<>>
           /\ x.checkpointMsgs = Tail(tap.checkpointMsgs)
           /\ x.checkpointMsgCounter = tap.checkpointMsgCounter + 1
           /\ SameLog(tap, x) /\ SameQueues(tap, x) /\ SameHigh(tap, x) /\ SameFlags(tap, x)
  BY <1>1, SendCheckpointMessageFacts
<1>4. PICK m : Sends(x, msg.ev, msg.n, tap', m) /\ toC' = Append(toC, m)
  BY <1>3 DEF Walked
<1>5. msg.ev \in CheckpointEvents /\ msg.n \in Nat /\ msg = Message(msg.ev, msg.n)
  BY DEF MessageRec, Message
<1>6. Ahead(tap, x)
  BY <1>3 DEF SameLog, Ahead
<1>7. Posts(tap, msg.ev, msg.n, tap', m)
  <2>1. msg.ev \in Events
    BY <1>5, EventFacts
  <2> QED
    BY <1>1, <1>4, <1>5, <1>6, <2>1, PostsFacts
<1>8. Taken(tap, msg.ev, msg.n, tap')
  <2>1. SameQueues(x, tap') /\ SameMessages(x, tap') /\ SameHigh(x, tap') /\ SameFlags(x, tap')
    BY <1>4 DEF Sends
  <2>2. /\ msg.ev \notin Opaques /\ msg.ev # "item" /\ msg.ev # "set_active"
        /\ msg.ev # "initial_stream" /\ msg.ev # "set_pending"
    BY <1>5, EventFacts DEF HighEvents
  <2>3. SameFlags(tap, tap')
    BY <1>3, <2>1 DEF SameFlags
  <2>4. tap'.high = tap.high /\ tap'.opaqueMsgCounter = tap.opaqueMsgCounter
        /\ tap.opaqueMsgCounter + 0 = tap.opaqueMsgCounter
    BY <1>1, <1>3, <2>1 DEF SameHigh, TapRec
  <2>5. tap'.checkpointMsgs = Tail(tap.checkpointMsgs)
        /\ tap'.checkpointMsgCounter = tap.checkpointMsgCounter + 1
    BY <1>3, <2>1 DEF SameMessages
  <2>6. /\ Len(Tail(tap.checkpointMsgs)) = Len(tap.checkpointMsgs) - 1
        /\ ToSet(tap.checkpointMsgs) = {msg} \cup ToSet(Tail(tap.checkpointMsgs))
        /\ Len(tap.checkpointMsgs) \in Nat /\ tap.checkpointMsgCounter \in Int
    BY <1>1, <1>3, HeadFacts DEF TapRec
  <2>7. Len(tap'.checkpointMsgs) + tap'.checkpointMsgCounter =
          Len(tap.checkpointMsgs) + tap.checkpointMsgCounter
    BY <2>5, <2>6
  <2>8. \A y : y \in ToSet(tap.checkpointMsgs) <=>
          y \in ToSet(tap'.checkpointMsgs) \/ y = Message(msg.ev, msg.n)
    BY <1>5, <2>5, <2>6
  <2>9. \A y : Queued(tap, y) => Queued(tap', y)
    BY <1>3, <2>1 DEF Queued, SameQueues
  <2> QED
    BY <1>5, <2>2, <2>3, <2>4, <2>5, <2>7, <2>8, <2>9 DEF Taken
<1>9. Sound(src, tap', tasks, Append(toC, m), toP, copy, lapse)
  BY <1>1, <1>3, <1>5, <1>7, <1>8, EventFacts, PostSound
<1> QED
  BY <1>2, <1>3, <1>4, <1>9 DEF Afterwards

\* An item is taken from a queue of the producer y: what y had that the step has not is n.
ItemTaken(y, u, n) ==
  /\ SameMessages(y, u) /\ SameHigh(y, u) /\ SameFlags(y, u)
  /\ \A x : Queued(y, x) => Queued(u, x) \/ x = n

LEMMA ItemTakenFacts ==
  ASSUME NEW y \in TapRec, NEW u, NEW n, ItemTaken(y, u, n)
  PROVE  Taken(y, "item", n, u)
<1>1. /\ "item" \notin Opaques /\ "item" \notin CheckpointEvents
  BY EventFacts
<1>2. y.opaqueMsgCounter + 0 = y.opaqueMsgCounter
      /\ y.checkpointMsgCounter + 0 = y.checkpointMsgCounter
  BY DEF TapRec
<1>3. /\ u.high = y.high /\ u.opaqueMsgCounter = y.opaqueMsgCounter
      /\ u.checkpointMsgs = y.checkpointMsgs /\ u.checkpointMsgCounter = y.checkpointMsgCounter
      /\ SameFlags(y, u)
  BY DEF ItemTaken, SameMessages, SameHigh
<1>4. \A x : Queued(y, x) => Queued(u, x) \/ x = n
  BY DEF ItemTaken
<1> QED
  BY <1>1, <1>2, <1>3, <1>4 DEF Taken

\* x is y without an item that was in one of its queues; it is sent, or its value fetched.
LEMMA SentOrFetchedSound ==
  ASSUME NEW s, NEW y \in TapRec, NEW x \in TapRec, NEW n \in Nat,
         toC \in Seq(SentRec), toP \in Seq(AnswerRec), NEW cp, NEW l, NEW ts,
         Sound(s, y, ts, toC, toP, cp, l), y.connected, y.seqno < Highest - 1,
         SameLog(y, x), SameMessages(y, x), SameHigh(y, x), SameFlags(y, x),
         \A z : Queued(y, z) => Queued(x, z) \/ z = n,
         SentOrFetched(x, n)
  PROVE  Sound(s, tap', ts, toC', toP, cp, l)
<1>1. CASE Walked(x, "item", n)
  <2>1. PICK m : Sends(x, "item", n, tap', m) /\ toC' = Append(toC, m)
    BY <1>1 DEF Walked
  <2>2. Ahead(y, x) /\ "item" \in Events
    BY EventFacts DEF SameLog, Ahead
  <2>3. Posts(y, "item", n, tap', m)
    BY <2>1, <2>2, PostsFacts
  <2>4. SameQueues(x, tap') /\ SameMessages(x, tap') /\ SameHigh(x, tap') /\ SameFlags(x, tap')
    BY <2>1 DEF Sends
  <2>5. SameMessages(y, tap') /\ SameHigh(y, tap') /\ SameFlags(y, tap')
    BY <2>4 DEF SameMessages, SameHigh, SameFlags
  <2>6. \A z : Queued(x, z) => Queued(tap', z)
    BY <2>4 DEF Queued, SameQueues
  <2>7. ItemTaken(y, tap', n)
    BY <2>5, <2>6 DEF ItemTaken
  <2>8. Taken(y, "item", n, tap')
    BY <2>7, ItemTakenFacts
  <2> QED
    BY <2>1, <2>3, <2>8, PostSound
<1>2. CASE /\ tap' \in TapRec /\ tap'.jobs = Append(x.jobs, n)
           /\ tap'.queue = x.queue /\ tap'.fetched = x.fetched
           /\ SameLog(x, tap') /\ SameMessages(x, tap') /\ SameHigh(x, tap')
           /\ SameFlags(x, tap') /\ toC' = toC
  <2>1. x.jobs \in Seq(Nat)
    BY DEF TapRec
  <2>2. ToSet(tap'.jobs) = ToSet(x.jobs) \cup {n}
    BY <1>2, <2>1, AppendFacts
  <2>3. \A z : Queued(y, z) => Queued(tap', z)
    BY <1>2, <2>2 DEF Queued
  <2>4. SameLog(y, tap') /\ SameMessages(y, tap') /\ SameHigh(y, tap') /\ SameFlags(y, tap')
    BY <1>2 DEF SameLog, SameMessages, SameHigh, SameFlags
  <2> QED
    BY <1>2, <2>3, <2>4, QuietSound
<1> QED
  BY <1>1, <1>2 DEF SentOrFetched

LEMMA SendFetchedSound ==
  ASSUME Before, SendFetched
  PROVE  Afterwards
<1>1. /\ TypeOK /\ EntriesInv /\ WellFormed
      /\ Sound(src, tap, tasks, toC, toP, copy, lapse)
      /\ tap \in TapRec /\ toC \in Seq(SentRec) /\ toP \in Seq(AnswerRec)
      /\ tap.seqno < Highest - 1 /\ tap.seqno < Highest
  BY BeforeFacts
<1>2. tasks' = tasks /\ toP' = toP /\ copy' = copy /\ lapse' = lapse
  BY DEF SendFetched
<1>3. PICK x \in TapRec :
           /\ tap.connected /\ src' = src /\ Walked(x, "item", Head(tap.fetched))
           /\ tap.fetched # <<>> /\ Head(tap.fetched) \in Nat
           /\ x.fetched = Tail(tap.fetched) /\ x.queue = tap.queue /\ x.jobs = tap.jobs
           /\ SameLog(tap, x) /\ SameMessages(tap, x) /\ SameHigh(tap, x) /\ SameFlags(tap, x)
  BY <1>1, SendFetchedFacts
<1>4. ToSet(tap.fetched) = {Head(tap.fetched)} \cup ToSet(Tail(tap.fetched))
  BY <1>1, <1>3, HeadFacts DEF TapRec
<1>5. \A z : Queued(tap, z) => Queued(x, z) \/ z = Head(tap.fetched)
  BY <1>3, <1>4 DEF Queued
<1>6. SentOrFetched(x, Head(tap.fetched))
  BY <1>3 DEF SentOrFetched
<1>7. Sound(src, tap', tasks, toC', toP, copy, lapse)
  BY <1>1, <1>3, <1>5, <1>6, SentOrFetchedSound
<1> QED
  BY <1>2, <1>3, <1>7 DEF Afterwards

LEMMA SendQueuedSound ==
  ASSUME Before, SendQueued
  PROVE  Afterwards
<1>1. /\ TypeOK /\ EntriesInv /\ WellFormed
      /\ Sound(src, tap, tasks, toC, toP, copy, lapse)
      /\ tap \in TapRec /\ toC \in Seq(SentRec) /\ toP \in Seq(AnswerRec)
      /\ tap.seqno < Highest - 1 /\ tap.seqno < Highest
  BY BeforeFacts
<1>2. tasks' = tasks /\ toP' = toP /\ copy' = copy /\ lapse' = lapse
  BY DEF SendQueued
<1>3. PICK x \in TapRec :
           /\ tap.connected /\ src' = src /\ SentOrFetched(x, Head(tap.queue))
           /\ tap.queue # <<>> /\ Head(tap.queue) \in Nat
           /\ x.queue = Tail(tap.queue) /\ x.fetched = tap.fetched /\ x.jobs = tap.jobs
           /\ SameLog(tap, x) /\ SameMessages(tap, x) /\ SameHigh(tap, x) /\ SameFlags(tap, x)
  BY <1>1, SendQueuedFacts
<1>4. ToSet(tap.queue) = {Head(tap.queue)} \cup ToSet(Tail(tap.queue))
  BY <1>1, <1>3, HeadFacts DEF TapRec
<1>5. \A z : Queued(tap, z) => Queued(x, z) \/ z = Head(tap.queue)
  BY <1>3, <1>4 DEF Queued
<1>6. Sound(src, tap', tasks, toC', toP, copy, lapse)
  BY <1>1, <1>3, <1>5, SentOrFetchedSound
<1> QED
  BY <1>2, <1>3, <1>6 DEF Afterwards

-----------------------------------------------------------------------------
\* The source as it is read on: nothing changes but the cursor and that it may be dead.
LEMMA DeadSound ==
  ASSUME NEW s, NEW t, NEW ts, NEW c, NEW p, NEW cp, NEW l, Sound(s, t, ts, c, p, cp, l),
         NEW v, v.entries = s.entries, v.cursor = s.cursor, v.state \in {s.state, "dead"}
  PROVE  Sound(v, t, ts, c, p, cp, l)
BY DEF Sound, CoveredOK, PhasesOK, ConfirmedOK, EndingOK

\* As QuietSound, with numbers spent for nothing.
LEMMA AheadSound ==
  ASSUME NEW s, NEW t \in TapRec, NEW ts, NEW c, NEW p, NEW cp, NEW l,
         Sound(s, t, ts, c, p, cp, l),
         NEW u \in TapRec, Ahead(t, u), SameQueues(t, u), SameFlags(t, u), SameMessages(t, u),
         SameHigh(t, u)
  PROVE  Sound(s, u, ts, c, p, cp, l)
<1>1. u.exists = t.exists /\ u.log = t.log /\ u.connected = t.connected
      /\ u.backfillVBucket = t.backfillVBucket /\ u.high = t.high
      /\ u.opaqueMsgCounter = t.opaqueMsgCounter /\ u.doRunBackfill = t.doRunBackfill
  BY DEF Ahead, SameFlags, SameHigh
<1>2. BackfillOK(u, ts, s.cursor)
  BY <1>1, BackfillFrame DEF Sound
<1>3. StreamOK(u, c, p)
  <2>1. LogOK(t) /\ SentOK(t, c) /\ AnsweredOK(t, c, p) /\ Awaited(t, c, p) /\ AckedOK(t)
        /\ (t.connected => t.exists)
    BY DEF Sound, StreamOK
  <2>2. t.seqno \in Nat /\ u.seqno \in Nat /\ t.seqno <= u.seqno
        /\ t.seqnoReceived \in Int /\ t.log \in Seq(LogRec)
    <3>1. t.seqno \in Nat /\ t.seqnoReceived \in Int /\ t.log \in Seq(LogRec)
      BY DEF TapRec
    <3>2. u.seqno = t.seqno \/ u.seqno = t.seqno + 1
      BY DEF Ahead
    <3> QED
      BY <3>1, <3>2
  <2>3. \A e \in ToSet(t.log) : e.seqno \in Nat
    <3>1. \A e \in ToSet(t.log) : e \in LogRec
      BY <2>2, ToSetFacts
    <3> QED
      BY <3>1 DEF LogRec
  <2>4. LogOK(u)
    BY <1>1, <2>1, <2>2, <2>3 DEF LogOK
  <2>5. SentOK(u, c) /\ AnsweredOK(u, c, p) /\ Awaited(u, c, p)
    BY <1>1, <2>1 DEF SentOK, AnsweredOK, Awaited
  <2>6. SeqnoAcked(u) = SeqnoAcked(t)
    BY DEF Ahead, SeqnoAcked
  <2>7. AckedOK(u)
    <3>1. u.seqnoReceived = t.seqnoReceived /\ u.lastSeqNum = t.lastSeqNum
          /\ u.isSeqNumRotated = t.isSeqNumRotated
      BY DEF Ahead
    <3> QED
      BY <1>1, <2>1, <2>2, <2>6, <3>1 DEF AckedOK
  <2> QED
    BY <1>1, <2>1, <2>4, <2>5, <2>7 DEF StreamOK
<1>4. CountersOK(u)
  BY <1>1, CountersFrame DEF Sound
<1>5. CoveredOK(s, u, ts, c, p, cp)
  <2>1. \A x : Queued(t, x) => Queued(u, x)
    BY DEF Queued, SameQueues
  <2>2. \A x : x \in Kept(t, ts, c, p, cp.has) => x \in Kept(u, ts, c, p, cp.has)
    BY <1>1, <2>1, KeptStep
  <2> QED
    BY <1>1, <2>2, CoveredFrame DEF Sound
<1>6. Outstanding(u) = Outstanding(t)
  BY <1>1, SameOutstanding
<1>7. Delivered(u, c) = Delivered(t, c) /\ StreamPending(u, c) = StreamPending(t, c)
      /\ Announced(u) = Announced(t)
  BY <1>1 DEF Delivered, StreamPending, Announced
<1>8. PhasesOK(s, u, c, cp)
  BY <1>1, <1>6, <1>7, PhaseFrame DEF Sound
<1>9. ConfirmedOK(s, u, cp)
  BY <1>1 DEF Sound, ConfirmedOK
<1>10. EndingOK(s, u, c, cp, l)
  BY <1>7 DEF Sound, EndingOK
<1>11. PendingOK(u, c, cp)
  BY <1>1, PendingFrame DEF Sound
<1> QED
  BY <1>2, <1>3, <1>4, <1>5, <1>8, <1>9, <1>10, <1>11 DEF Sound

LEMMA RunBackfillSound ==
  ASSUME Before, RunBackfill
  PROVE  Afterwards
<1>1. /\ TypeOK /\ Sound(src, tap, tasks, toC, toP, copy, lapse)
      /\ tap \in TapRec /\ tasks \in Seq(TaskRec)
  BY BeforeFacts
<1>2. src' = src /\ toC' = toC /\ toP' = toP /\ copy' = copy /\ lapse' = lapse
  BY DEF RunBackfill
<1>3. /\ tap' \in TapRec /\ tasks' = Append(tasks, NewTask)
      /\ NewTask \in TaskRec
      /\ tap.high = <<>> /\ tap.opaqueMsgCounter = 0 /\ tap.doRunBackfill
      /\ SameLog(tap, tap') /\ SameQueues(tap, tap') /\ SameMessages(tap, tap')
      /\ SameHigh(tap, tap')
      /\ ~tap'.doRunBackfill /\ tap'.pendingBackfill = tap.pendingBackfill + 1
      /\ tap'.diskBackfill = tap.diskBackfill
      /\ tap'.backfillVBucket = tap.backfillVBucket
      /\ tap'.backfillCompleted = tap.backfillCompleted
  BY <1>1, RunBackfillFacts
<1>4. /\ BackfillOK(tap, tasks, src.cursor) /\ StreamOK(tap, toC, toP) /\ CountersOK(tap)
      /\ PhasesOK(src, tap, toC, copy) /\ CopyOK(src.entries, copy)
      /\ EndingOK(src, tap, toC, copy, lapse) /\ PendingOK(tap, toC, copy)
  BY <1>1 DEF Sound
<1>5. /\ src.cursor = 0 /\ tap.backfillVBucket /\ TasksOK(tasks)
      /\ \A i \in DOMAIN tasks : ~tasks[i].own
      /\ tap.pendingBackfill = (IF Pending(tasks) THEN 1 ELSE 0)
      /\ tap.diskBackfill = (IF OnDisk(tasks) THEN 1 ELSE 0)
      /\ tap.backfillVBucket = ~tap.backfillCompleted
  BY <1>3, <1>4 DEF BackfillOK
<1>6. /\ tap'.exists = tap.exists /\ tap'.log = tap.log /\ tap'.connected = tap.connected
      /\ tap'.high = tap.high /\ tap'.opaqueMsgCounter = tap.opaqueMsgCounter
  BY <1>3 DEF SameLog, SameHigh
<1>7. ~Announced(tap')
  <2>1. Cardinality(Numbers(tap.log, Opaques)) = 0
    BY <1>3, <1>4 DEF CountersOK
  <2>2. tap.log \in Seq(LogRec)
    BY <1>1 DEF TapRec
  <2>3. \A e \in ToSet(tap.log) : e.ev \notin Opaques
    BY <2>1, <2>2, NumbersFacts
  <2> QED
    BY <1>3, <1>6, <2>3, EmptySet, EventFacts DEF Announced, InLog
<1>8. BackfillOK(tap', tasks', src.cursor)
  <2> DEFINE n == Len(tasks)
             tu == Append(tasks, NewTask)
  <2>1. /\ n \in Nat /\ DOMAIN tasks = 1..n /\ DOMAIN tu = 1..(n + 1)
        /\ (\A i \in 1..n : tu[i] = tasks[i]) /\ tu[n + 1] = NewTask
    BY <1>1, <1>3, ToSetFacts, AppendFacts
  <2>2. /\ NewTask.own /\ ~NewTask.visited /\ ~NewTask.completed /\ ~NewTask.disk
    BY DEF NewTask
  <2> HIDE DEF tu
  <2>3. \A i \in DOMAIN tu : i \in DOMAIN tasks \/ i = n + 1
    BY <2>1
  <2>4. n + 1 \in DOMAIN tu
    BY <2>1
  <2>5. \A i \in DOMAIN tu : tu[i].own => i = n + 1
    BY <1>5, <2>1, <2>3
  <2>6. TasksOK(tu)
    <3>1. \A i, j \in DOMAIN tu : tu[i].own /\ tu[j].own => i = j
      BY <2>5
    <3>2. \A i \in DOMAIN tu : /\ tu[i].completed \/ tu[i].disk => tu[i].visited
                               /\ ~Finished(tu[i])
      BY <1>5, <2>1, <2>2, <2>3 DEF TasksOK, Finished
    <3> QED
      BY <3>1, <3>2 DEF TasksOK
  <2>7. Pending(tu) /\ Unvisited(tu)
    BY <2>1, <2>2, <2>4 DEF Pending, Unvisited
  <2>8. ~OnDisk(tu) /\ ~Pending(tasks) /\ ~OnDisk(tasks)
    BY <1>5, <2>1, <2>2, <2>5 DEF OnDisk, Pending
  <2>9. tap'.pendingBackfill = 1 /\ tap'.diskBackfill = 0
    BY <1>3, <1>5, <2>8
  <2>10. tasks' = tu
    BY <1>3 DEF tu
  <2>11. BackfillOK(tap', tu, src.cursor)
    BY <1>3, <1>5, <1>6, <2>6, <2>7, <2>8, <2>9 DEF BackfillOK
  <2> QED
    BY <2>10, <2>11
<1>9. StreamOK(tap', toC, toP)
  BY <1>3, <1>4, StreamFrame
<1>10. CountersOK(tap')
  BY <1>3, <1>4, <1>6, <1>7 DEF CountersOK, SameMessages
<1>11. /\ CoveredOK(src, tap', tasks', toC, toP, copy) /\ ConfirmedOK(src, tap', copy)
  BY <1>5 DEF CoveredOK, ConfirmedOK
<1>12. PhasesOK(src, tap', toC, copy)
  <2>1. Outstanding(tap') = Outstanding(tap)
    BY <1>3, <1>6, SameOutstanding
  <2>2. Delivered(tap', toC) = Delivered(tap, toC) /\ StreamPending(tap', toC) = StreamPending(tap, toC)
    BY <1>6 DEF Delivered, StreamPending
  <2> QED
    BY <1>3, <1>4, <1>6, <2>1, <2>2, PhaseFrame
<1>13. EndingOK(src, tap', toC, copy, lapse)
  BY <1>4, <1>7 DEF EndingOK
<1>14. PendingOK(tap', toC, copy)
  BY <1>4, <1>6, PendingFrame
<1> QED
  BY <1>2, <1>4, <1>8, <1>9, <1>10, <1>11, <1>12, <1>13, <1>14 DEF Sound, Afterwards

LEMMA BgFetchDoneSound ==
  ASSUME Before, BgFetchDone
  PROVE  Afterwards
<1>1. /\ TypeOK /\ Sound(src, tap, tasks, toC, toP, copy, lapse) /\ tap \in TapRec
  BY BeforeFacts
<1>2. /\ src' = src /\ toC' = toC /\ toP' = toP /\ copy' = copy /\ lapse' = lapse
      /\ tasks' = tasks
  BY DEF BgFetchDone
<1>3. /\ tap' \in TapRec /\ tap.jobs # <<>>
      /\ tap'.jobs = Tail(tap.jobs) /\ tap'.fetched = Append(tap.fetched, Head(tap.jobs))
      /\ tap'.queue = tap.queue
      /\ SameLog(tap, tap') /\ SameMessages(tap, tap') /\ SameHigh(tap, tap')
      /\ SameFlags(tap, tap')
  BY <1>1, BgFetchDoneFacts
<1>4. tap.jobs \in Seq(Nat) /\ tap.fetched \in Seq(Nat)
  BY <1>1 DEF TapRec
<1>5. Head(tap.jobs) \in Nat /\ ToSet(tap.jobs) = {Head(tap.jobs)} \cup ToSet(Tail(tap.jobs))
  BY <1>3, <1>4, HeadFacts
<1>6. ToSet(tap'.fetched) = ToSet(tap.fetched) \cup {Head(tap.jobs)}
  BY <1>3, <1>4, <1>5, AppendFacts
<1>7. \A x : Queued(tap, x) => Queued(tap', x)
  BY <1>3, <1>5, <1>6 DEF Queued
<1>8. Sound(src, tap', tasks, toC, toP, copy, lapse)
  BY <1>1, <1>3, <1>7, QuietSound
<1> QED
  BY <1>2, <1>8 DEF Afterwards

LEMMA ResumeSound ==
  ASSUME Before, Resume
  PROVE  Afterwards
<1>1. /\ TypeOK /\ Sound(src, tap, tasks, toC, toP, copy, lapse)
  BY BeforeFacts
<1>2. /\ src' = src /\ toC' = toC /\ toP' = toP /\ copy' = copy /\ lapse' = lapse
      /\ tasks' = tasks
  BY DEF Resume
<1>3. SameAll(tap, tap')
  BY <1>1, ResumeFacts
<1>4. \A x : Queued(tap, x) => Queued(tap', x)
  BY <1>3 DEF SameAll, Queued, SameQueues
<1>5. Sound(src, tap', tasks, toC, toP, copy, lapse)
  BY <1>1, <1>3, <1>4, QuietSound DEF SameAll
<1> QED
  BY <1>2, <1>5 DEF Afterwards

\* A producer that is connected and has no backfill has no task, and a cursor.
LEMMA NoBackfill ==
  ASSUME NEW t \in TapRec, NEW ts, NEW k, BackfillOK(t, ts, k), t.backfillCompleted
  PROVE  /\ ~t.backfillVBucket /\ ~t.doRunBackfill
         /\ \A i \in DOMAIN ts : ~ts[i].own
         /\ ~Unvisited(ts) /\ (t.exists => k # 0)
BY DEF BackfillOK, Unvisited, TapRec

LEMMA CompleteTakeoverSound ==
  ASSUME Before, CompleteTakeover
  PROVE  Afterwards
<1> DEFINE t == CheckBackfill(tap)
           E == src.entries
<1>1. /\ TypeOK /\ EntriesInv /\ WellFormed
      /\ Sound(src, tap, tasks, toC, toP, copy, lapse)
      /\ tap \in TapRec /\ toC \in Seq(SentRec) /\ toP \in Seq(AnswerRec)
      /\ tap.seqno < Highest - 1 /\ tap.seqno < Highest
  BY BeforeFacts
<1>2. tasks' = tasks /\ toP' = toP /\ copy' = copy /\ lapse' = lapse /\ tap.high = <<>>
  BY DEF CompleteTakeover, WalksOn
<1>3. /\ tap.connected /\ t \in TapRec /\ t.backfillCompleted
      /\ EmptyQueue(t, src)
      /\ src' \in SrcRec /\ src'.entries = src.entries /\ src'.first = src.first
      /\ src'.cursor = src.cursor /\ src'.state \in {src.state, "dead"}
      /\ Activates(t) \/ AsksAgain(t)
  BY <1>1, CompleteTakeoverFacts
<1>4. Sound(src, t, tasks, toC, toP, copy, lapse)
  BY <1>1, CheckBackfillSound
<1>5. SameLog(tap, t) /\ (t.high = tap.high \/ t.high = Append(tap.high, "close_backfill"))
  BY <1>1, CheckBackfillFacts
<1> HIDE DEF t
<1>6. t.connected /\ t.exists /\ t.seqno < Highest - 1 /\ t.seqno < Highest
  <2>1. t.connected /\ t.seqno = tap.seqno
    BY <1>3, <1>5 DEF SameLog
  <2> QED
    BY <1>1, <1>4, <2>1 DEF Sound, StreamOK
<1>7. Sound(src', t, tasks, toC, toP, copy, lapse)
  BY <1>3, <1>4, DeadSound
<1>8. CASE Activates(t)
  <2>1. t.log = <<>> /\ src'.state = "dead"
    BY <1>8 DEF Activates
  <2>2. PICK x \in TapRec :
          /\ Walked(x, "set_active", 0)
          /\ t.seqno < Highest => Ahead(t, x)
          /\ SameQueues(t, x) /\ SameMessages(t, x) /\ SameHigh(t, x) /\ SameFlags(t, x)
    BY <1>8 DEF Activates
  <2>3. PICK m : Sends(x, "set_active", 0, tap', m) /\ toC' = Append(toC, m)
    BY <2>2 DEF Walked
  <2>4. Posts(t, "set_active", 0, tap', m)
    BY <1>3, <1>6, <2>2, <2>3, EventFacts, PostsFacts
  <2>5. Taken(t, "set_active", 0, tap')
    <3>1. SameQueues(x, tap') /\ SameMessages(x, tap') /\ SameHigh(x, tap') /\ SameFlags(x, tap')
      BY <2>3 DEF Sends
    <3>2. "set_active" \notin Opaques /\ "set_active" \notin CheckpointEvents
      BY EventFacts
    <3>3. SameFlags(t, tap')
      BY <2>2, <3>1 DEF SameFlags
    <3>4. /\ tap'.checkpointMsgs = t.checkpointMsgs
          /\ tap'.checkpointMsgCounter = t.checkpointMsgCounter
          /\ t.checkpointMsgCounter + 0 = t.checkpointMsgCounter
          /\ tap'.high = t.high /\ tap'.opaqueMsgCounter = t.opaqueMsgCounter
          /\ t.opaqueMsgCounter + 0 = t.opaqueMsgCounter
      <4>1. t.checkpointMsgCounter \in Int /\ t.opaqueMsgCounter \in Int
        BY <1>3 DEF TapRec
      <4>2. SameMessages(t, x) /\ SameHigh(t, x)
        BY <2>2
      <4>3. /\ tap'.checkpointMsgs = t.checkpointMsgs
            /\ tap'.checkpointMsgCounter = t.checkpointMsgCounter
            /\ tap'.high = t.high /\ tap'.opaqueMsgCounter = t.opaqueMsgCounter
        BY <3>1, <4>2 DEF SameMessages, SameHigh
      <4> QED
        BY <4>1, <4>3
    <3>5. \A y : Queued(t, y) => Queued(tap', y)
      BY <2>2, <3>1 DEF Queued, SameQueues
    <3> QED
      BY <3>2, <3>3, <3>4, <3>5 DEF Taken
  <2>6. MayActivate(src', t, copy)
    <3>1. BackfillOK(t, tasks, src.cursor) /\ CountersOK(t) /\ CoveredOK(src, t, tasks, toC, toP, copy)
      BY <1>4 DEF Sound
    <3>2. ~t.doRunBackfill /\ (\A i \in DOMAIN tasks : ~tasks[i].own) /\ src.cursor # 0
      BY <1>3, <1>6, <3>1, NoBackfill
    <3>3. ~Announced(t)
      BY <3>1, <3>2 DEF CountersOK
    <3>4. BackfillQueueEmpty(t) /\ ~HasNext(src)
      BY <1>3 DEF EmptyQueue
    <3>5. Kept(t, tasks, toC, toP, copy.has) \subseteq copy.has
      BY <2>1, <3>2, <3>4, KeptIsCopied
    <3>6. src.cursor = Len(E)
      <4>1. src.cursor \in 0..Len(E) /\ Len(E) \in Nat
        BY <1>1, SourceFacts
      <4> QED
        BY <3>2, <3>4, <4>1 DEF HasNext
    <3>7. Items(E, Len(E)) \subseteq copy.has
      BY <1>6, <3>1, <3>2, <3>5, <3>6 DEF CoveredOK
    <3>8. "set_pending" \notin ToSet(t.high)
      <4>1. ToSet(tap.high) = {}
        BY <1>2, EmptySet
      <4>2. tap.high \in Seq(HighEvents) /\ "close_backfill" \in HighEvents
        BY <1>1 DEF TapRec, HighEvents, Opaques
      <4>3. ToSet(Append(tap.high, "close_backfill")) = ToSet(tap.high) \cup {"close_backfill"}
        BY <4>2, AppendFacts
      <4>4. "set_pending" \notin ToSet(Append(tap.high, "close_backfill"))
        BY <4>1, <4>3
      <4> HIDE <4>3
      <4> QED
        BY <1>5, <4>1, <4>4
    <3> QED
      BY <1>3, <2>1, <3>3, <3>7, <3>8 DEF MayActivate
  <2>7. Sound(src', tap', tasks, Append(toC, m), toP, copy, lapse)
    BY <1>1, <1>3, <1>6, <1>7, <2>4, <2>5, <2>6, PostSound
  <2> QED
    BY <1>2, <2>3, <2>7 DEF Afterwards
<1>9. CASE AsksAgain(t)
  <2>1. /\ toC' = toC /\ tap' \in TapRec /\ Ahead(t, tap')
        /\ SameQueues(t, tap') /\ SameMessages(t, tap') /\ SameHigh(t, tap') /\ SameFlags(t, tap')
    BY <1>6, <1>9 DEF AsksAgain
  <2>2. Sound(src', tap', tasks, toC, toP, copy, lapse)
    BY <1>3, <1>7, <2>1, AheadSound
  <2> QED
    BY <1>2, <2>1, <2>2 DEF Afterwards
<1> QED
  BY <1>3, <1>8, <1>9

-----------------------------------------------------------------------------
(***************************************************************************)
(* The cursor reads on.                                                    *)
(***************************************************************************)
\* What holds when it does: t is the producer after checkBackfillCompletion.
Reads(t) ==
  /\ Sound(src, t, tasks, toC, toP, copy, lapse) /\ t \in TapRec
  /\ t.connected /\ t.exists /\ ~t.backfillVBucket /\ ~t.doRunBackfill
  /\ \A i \in DOMAIN tasks : ~tasks[i].own
  /\ t.queue = <<>> /\ t.fetched = <<>> /\ t.checkpointMsgs = <<>> /\ t.checkpointMsgCounter = 0
  /\ (\A e \in ToSet(t.log) : e.ev \notin CheckpointEvents)
  /\ Outstanding(t) = {} /\ t.seqno < Highest - 1

LEMMA NoCheckpointLogged ==
  ASSUME NEW t \in TapRec, CountersOK(t), t.checkpointMsgCounter = 0
  PROVE  \A e \in ToSet(t.log) : e.ev \notin CheckpointEvents
<1>1. Cardinality(Numbers(t.log, CheckpointEvents)) = 0
  BY DEF CountersOK
<1>2. t.log \in Seq(LogRec)
  BY DEF TapRec
<1> QED
  BY <1>1, <1>2, NumbersFacts

LEMMA ReadsFacts ==
  ASSUME Before, ReadCheckpoint
  PROVE  Reads(CheckBackfill(tap))
<1> DEFINE t == CheckBackfill(tap)
<1>1. /\ TypeOK /\ EntriesInv
      /\ Sound(src, tap, tasks, toC, toP, copy, lapse)
      /\ tap \in TapRec /\ tap.seqno < Highest - 1
  BY BeforeFacts
<1>2. /\ tap.connected /\ t \in TapRec /\ t.backfillCompleted
      /\ tap.queue = <<>> /\ tap.fetched = <<>> /\ tap.checkpointMsgs = <<>>
      /\ tap.checkpointMsgCounter = 0
  BY <1>1, ReadCheckpointFacts
<1>3. Sound(src, t, tasks, toC, toP, copy, lapse)
  BY <1>1, CheckBackfillSound
<1>4. SameLog(tap, t) /\ SameQueues(tap, t) /\ SameMessages(tap, t)
  BY <1>1, CheckBackfillFacts
<1> HIDE DEF t
<1>5. /\ t.connected /\ t.queue = <<>> /\ t.fetched = <<>> /\ t.checkpointMsgs = <<>>
      /\ t.checkpointMsgCounter = 0 /\ t.seqno < Highest - 1
  BY <1>1, <1>2, <1>4 DEF SameLog, SameQueues, SameMessages
<1>6. t.exists /\ BackfillOK(t, tasks, src.cursor) /\ CountersOK(t)
  BY <1>3, <1>5 DEF Sound, StreamOK
<1>7. ~t.backfillVBucket /\ ~t.doRunBackfill /\ \A i \in DOMAIN tasks : ~tasks[i].own
  BY <1>2, <1>6, NoBackfill
<1>8. \A e \in ToSet(t.log) : e.ev \notin CheckpointEvents
  BY <1>2, <1>5, <1>6, NoCheckpointLogged
<1>9. Outstanding(t) = {}
  <2>1. ASSUME NEW x \in Outstanding(t)
        PROVE  FALSE
    BY <1>5, <1>8, OutstandingFacts, EmptySet
  <2> QED
    BY <2>1
<1>10. Reads(t)
  BY <1>2, <1>3, <1>5, <1>6, <1>7, <1>8, <1>9 DEF Reads
<1> QED
  BY <1>10 DEF t

\* The phase of the copy when the cursor moves on.
LEMMA PhaseStep ==
  ASSUME NEW e \in EntryRec, NEW f \in EntryRec, Step(e, f), NEW delivered, NEW cp \in CopyRec,
         PhaseOK(e, {}, delivered, cp)
  PROVE  /\ f.ev = "item" => PhaseOK(f, {}, FALSE, cp)
         /\ f.ev \in CheckpointEvents => PhaseOK(f, {Message(f.ev, f.chk)}, FALSE, cp)
<1>1. /\ e.ev \in {"dummy", "start", "item", "end"} /\ e.chk \in Nat
      /\ f.ev \in {"dummy", "start", "item", "end"} /\ f.chk \in Nat
      /\ cp.open \in Nat /\ cp.closed \in BOOLEAN
  BY DEF EntryRec, CopyRec
<1>2. {} # {Message("end", e.chk - 1)} /\ {} # {Message("start", e.chk)} /\ {} # {Message("end", e.chk)}
  OBVIOUS
<1>3. \/ e.ev = "dummy" /\ Fresh(e.chk, cp)
      \/ e.ev \in {"start", "item"} /\ cp.open = e.chk /\ ~cp.closed
      \/ e.ev = "end" /\ cp.open = e.chk /\ cp.closed
  BY <1>2 DEF PhaseOK
<1>4. CASE e.ev = "dummy" /\ f.ev = "start" /\ f.chk = e.chk
  BY <1>3, <1>4 DEF PhaseOK
<1>5. CASE e.ev \in {"start", "item"} /\ f.ev \in {"item", "end"} /\ f.chk = e.chk
  <2>1. e.ev # "dummy" /\ e.ev # "end"
    BY <1>5
  <2>2. cp.open = f.chk /\ ~cp.closed
    BY <1>3, <1>5, <2>1
  <2>3. CASE f.ev = "item"
    BY <2>2, <2>3 DEF PhaseOK, CheckpointEvents
  <2>4. CASE f.ev = "end"
    BY <2>2, <2>4 DEF PhaseOK
  <2> QED
    BY <1>5, <2>3, <2>4
<1>6. CASE e.ev = "end" /\ f.ev = "start" /\ f.chk = e.chk + 1
  <2>1. cp.open = f.chk - 1 /\ cp.closed
    BY <1>1, <1>3, <1>6
  <2> QED
    BY <1>6, <2>1 DEF PhaseOK, Fresh
<1> QED
  BY <1>4, <1>5, <1>6 DEF Step

LEMMA ReadsMovedSound ==
  ASSUME WellFormed, HasNext(src), NEW t, Reads(t), MovedTo(src, src', NextPos), NEW u \in TapRec,
         SameLog(t, u), SameHigh(t, u), SameFlags(t, u), CountersOK(u),
         \A x : Queued(t, x) => Queued(u, x),
         \A x : x \in Items(src.entries, NextPos)
                  => x \in Items(src.entries, src.cursor) \/ Queued(u, x),
         copy.state # "active" => PhaseOK(src.entries[NextPos], Outstanding(u), Delivered(u, toC), copy),
         src.entries[NextPos].ev # "item" => Items(src.entries, NextPos) \subseteq copy.has
  PROVE  Sound(src', u, tasks, toC, toP, copy, lapse)
<1> DEFINE E == src.entries
           d == NextPos
<1>1. /\ src'.cursor = d /\ src'.entries = E /\ src'.state = src.state
  BY DEF MovedTo
<1>2. src.cursor \in 1..Len(E) /\ d \in 1..Len(E)
  BY NextFacts DEF WellFormed
<1>3. src.cursor # 0 /\ d # 0
  BY <1>2
<1> HIDE DEF d
<1>4. /\ BackfillOK(t, tasks, src.cursor) /\ StreamOK(t, toC, toP) /\ CountersOK(t)
      /\ CoveredOK(src, t, tasks, toC, toP, copy) /\ CopyOK(E, copy)
      /\ EndingOK(src, t, toC, copy, lapse) /\ PendingOK(t, toC, copy)
  BY DEF Reads, Sound
<1>5. /\ u.exists = t.exists /\ u.log = t.log /\ u.connected = t.connected /\ u.high = t.high
      /\ u.backfillVBucket = t.backfillVBucket /\ u.doRunBackfill = t.doRunBackfill
  BY DEF SameLog, SameHigh, SameFlags
<1>6. BackfillOK(u, tasks, d)
  <2>1. BackfillOK(t, tasks, d)
    BY <1>3, <1>4 DEF Reads, BackfillOK, Unvisited
  <2> QED
    BY <1>5, <2>1, BackfillFrame
<1>7. StreamOK(u, toC, toP)
  BY <1>4, StreamFrame
<1>8. CoveredOK(src', u, tasks, toC, toP, copy)
  <2>1. ASSUME NEW x \in Items(E, d)
        PROVE  x \in Kept(u, tasks, toC, toP, copy.has)
    <3>1. CASE Queued(u, x)
      BY <3>1, KeptFacts DEF Queued
    <3>2. CASE x \in Items(E, src.cursor)
      <4>1. x \in Kept(t, tasks, toC, toP, copy.has)
        BY <1>3, <1>4, <3>2 DEF CoveredOK, Reads
      <4> QED
        BY <1>5, <4>1, KeptStep
    <3> QED
      BY <3>1, <3>2 DEF d
  <2> QED
    BY <1>1, <2>1 DEF CoveredOK
<1>9. PhasesOK(src', u, toC, copy)
  BY <1>1, <1>5 DEF PhasesOK, Reads, d
<1>10. ConfirmedOK(src', u, copy)
  BY <1>1 DEF ConfirmedOK, d
<1>11. EndingOK(src', u, toC, copy, lapse)
  BY <1>1, <1>4, <1>5 DEF EndingOK, Announced
<1>12. PendingOK(u, toC, copy)
  BY <1>4, <1>5, PendingFrame
<1> QED
  BY <1>1, <1>4, <1>6, <1>7, <1>8, <1>9, <1>10, <1>11, <1>12 DEF Sound

LEMMA ReadCheckpointSound ==
  ASSUME Before, ReadCheckpoint
  PROVE  Afterwards
<1> DEFINE t == CheckBackfill(tap)
           E == src.entries
           c == src.cursor
           d == NextPos
           e == E[d]
<1>1. /\ TypeOK /\ EntriesInv /\ WellFormed
      /\ toC \in Seq(SentRec) /\ toP \in Seq(AnswerRec) /\ copy \in CopyRec
  BY BeforeFacts
<1>2. tasks' = tasks /\ toP' = toP /\ copy' = copy /\ lapse' = lapse
  BY DEF ReadCheckpoint
<1>3. /\ HasNext(src) /\ t \in TapRec
      /\ ReadsItem(t, e) \/ ReadsMessage(t, e) \/ Waits(t, e)
  BY <1>1, ReadCheckpointFacts
<1>4. Reads(t)
  BY ReadsFacts
<1> HIDE DEF t
<1>5. /\ c \in 1..Len(E) /\ d \in 1..Len(E)
      /\ Step(E[c], e)
      /\ \A x : x \in Items(E, d) <=> (x \in Items(E, c) \/ (e.ev = "item" /\ x = e.n))
  BY <1>1, <1>3, NextFacts
<1>6. E[c] \in EntryRec /\ e \in EntryRec
  BY <1>1, <1>5, SourceFacts, EntryFacts
<1>7. /\ CoveredOK(src, t, tasks, toC, toP, copy) /\ PhasesOK(src, t, toC, copy)
      /\ ConfirmedOK(src, t, copy) /\ CountersOK(t) /\ StreamOK(t, toC, toP)
      /\ Sound(src, t, tasks, toC, toP, copy, lapse)
  BY <1>4 DEF Reads, Sound
<1>8. c # 0
  BY <1>5
<1>9. copy.state # "active" => PhaseOK(E[c], {}, Delivered(t, toC), copy)
  BY <1>4, <1>7, <1>8 DEF PhasesOK, Reads
<1>10. copy.state # "active" =>
         /\ e.ev = "item" => PhaseOK(e, {}, FALSE, copy)
         /\ e.ev \in CheckpointEvents => PhaseOK(e, {Message(e.ev, e.chk)}, FALSE, copy)
  BY <1>1, <1>5, <1>6, <1>9, PhaseStep
<1>11. \A u : u.log = t.log => ~Delivered(u, toC)
  BY <1>4 DEF Delivered, Reads
<1> HIDE DEF e, d, c
<1>12. CASE ReadsItem(t, e)
  <2>1. e.ev = "item" /\ MovedTo(src, src', NextPos)
    BY <1>12 DEF ReadsItem, d
  <2>2. PICK x \in TapRec : SameAll(t, x) /\ SentOrFetched(x, e.n)
    BY <1>12 DEF ReadsItem
  <2> DEFINE q == Append(t.queue, e.n)
             y == [t EXCEPT !.queue = q]
  <2>3. e.n \in Nat /\ t.queue \in Seq(Nat)
    BY <1>3, <1>6 DEF EntryRec, TapRec
  <2>4. q \in Seq(Nat) /\ ToSet(q) = ToSet(t.queue) \cup {e.n}
    BY <2>3, AppendFacts
  <2> HIDE DEF q
  <2>5. y \in TapRec
    BY <1>3, <2>4 DEF TapRec
  <2>6. /\ y.queue = q /\ y.fetched = t.fetched /\ y.jobs = t.jobs
        /\ SameLog(t, y) /\ SameMessages(t, y) /\ SameHigh(t, y) /\ SameFlags(t, y)
    BY <1>3 DEF TapRec, SameLog, SameMessages, SameHigh, SameFlags
  <2> HIDE DEF y
  <2>7. y.log = t.log /\ y.opaqueMsgCounter = t.opaqueMsgCounter
        /\ y.doRunBackfill = t.doRunBackfill /\ y.high = t.high
        /\ y.connected = t.connected /\ y.seqno = t.seqno
    BY <2>6 DEF SameLog, SameHigh, SameFlags
  <2>8. CountersOK(y)
    BY <1>7, <2>6, <2>7, CountersFrame
  <2>9. Outstanding(y) = {}
    BY <1>4, <2>6, <2>7, SameOutstanding DEF Reads
  <2>10. /\ \A z : Queued(t, z) => Queued(y, z)
         /\ Queued(y, e.n)
         /\ \A z : Queued(y, z) => Queued(t, z) \/ z = e.n
    BY <2>4, <2>6 DEF Queued
  <2>11. \A z : z \in Items(E, d) => z \in Items(E, c) \/ Queued(y, z)
    BY <1>5, <2>10
  <2>12. copy.state # "active" => PhaseOK(e, Outstanding(y), Delivered(y, toC), copy)
    BY <1>10, <1>11, <2>1, <2>7, <2>9 DEF PhaseOK
  <2>13. Sound(src', y, tasks, toC, toP, copy, lapse)
    BY <1>1, <1>3, <1>4, <2>1, <2>5, <2>6, <2>8, <2>10, <2>11, <2>12, ReadsMovedSound DEF c, d, e
  <2>14. /\ SameLog(y, x) /\ SameMessages(y, x) /\ SameHigh(y, x) /\ SameFlags(y, x)
    BY <2>2, <2>6 DEF SameAll, SameLog, SameMessages, SameHigh, SameFlags
  <2>15. \A z : Queued(y, z) => Queued(x, z) \/ z = e.n
    BY <2>2, <2>10 DEF SameAll, SameQueues, Queued
  <2>16. y.connected /\ y.seqno < Highest - 1
    BY <1>4, <2>7 DEF Reads
  <2>17. Sound(src', tap', tasks, toC', toP, copy, lapse)
    BY <1>1, <2>2, <2>3, <2>5, <2>13, <2>14, <2>15, <2>16, SentOrFetchedSound
  <2> QED
    BY <1>2, <2>17 DEF Afterwards
<1>13. CASE ReadsMessage(t, e)
  <2>1. /\ e.ev \in CheckpointEvents /\ MovedTo(src, src', NextPos) /\ toC' = toC
        /\ e.ev = "end" => MayEndCheckpoint(t)
        /\ tap' \in TapRec /\ tap'.checkpointMsgs = Append(t.checkpointMsgs, Message(e.ev, e.chk))
        /\ Message(e.ev, e.chk) \in MessageRec
        /\ tap'.checkpointMsgCounter = t.checkpointMsgCounter
        /\ SameLog(t, tap') /\ SameQueues(t, tap') /\ SameHigh(t, tap') /\ SameFlags(t, tap')
    BY <1>13 DEF ReadsMessage, d
  <2>2. /\ tap'.log = t.log /\ tap'.high = t.high /\ tap'.opaqueMsgCounter = t.opaqueMsgCounter
        /\ tap'.doRunBackfill = t.doRunBackfill
    BY <2>1 DEF SameLog, SameHigh, SameFlags
  <2>3. /\ t.checkpointMsgs \in Seq(MessageRec) /\ t.checkpointMsgs = <<>>
        /\ t.checkpointMsgCounter = 0
    BY <1>3, <1>4 DEF TapRec, Reads
  <2>4. Len(tap'.checkpointMsgs) = 0 + 1 /\ ToSet(tap'.checkpointMsgs) = {Message(e.ev, e.chk)}
    <3>1. /\ Len(tap'.checkpointMsgs) = Len(t.checkpointMsgs) + 1
          /\ ToSet(tap'.checkpointMsgs) = ToSet(t.checkpointMsgs) \cup {Message(e.ev, e.chk)}
      <4>1. t.checkpointMsgs \in Seq(MessageRec)
        BY <2>3
      <4>2. Message(e.ev, e.chk) \in MessageRec
        BY <2>1
      <4> DEFINE old == t.checkpointMsgs
                 msg == Message(e.ev, e.chk)
      <4> HIDE DEF old, msg
      <4>3. Len(Append(old, msg)) = Len(old) + 1 /\ ToSet(Append(old, msg)) = ToSet(old) \cup {msg}
        BY <4>1, <4>2, AppendFacts DEF old, msg
      <4> QED
        BY <2>1, <4>3 DEF old, msg
    <3> QED
      BY <2>3, <3>1, EmptySet
  <2>5. CountersOK(tap')
    <3>1. Announced(tap') <=> Announced(t)
      BY <2>2 DEF Announced
    <3>2. Len(tap'.checkpointMsgs) + tap'.checkpointMsgCounter <= 1
      BY <2>1, <2>3, <2>4
    <3> QED
      BY <1>7, <2>1, <2>2, <3>1, <3>2 DEF CountersOK
  <2>6. \A x : Queued(t, x) => Queued(tap', x)
    BY <2>1 DEF Queued, SameQueues
  <2>7. e.ev # "item"
    BY <2>1, EventFacts
  <2>8. \A x : x \in Items(E, d) <=> x \in Items(E, c)
    BY <1>5, <2>7
  <2>9. Outstanding(tap') = {Message(e.ev, e.chk)}
    <3>1. \A x : x \in Outstanding(tap') <=> x = Message(e.ev, e.chk)
      <4> TAKE x
      <4>1. x \in Outstanding(tap') <=>
              \/ x \in ToSet(tap'.checkpointMsgs)
              \/ \E f \in ToSet(t.log) : f.ev \in CheckpointEvents /\ x = Message(f.ev, f.n)
        BY <2>2, OutstandingFacts
      <4> QED
        BY <1>4, <2>4, <4>1 DEF Reads
    <3> QED
      BY <3>1
  <2>10. copy.state # "active" => PhaseOK(e, Outstanding(tap'), Delivered(tap', toC), copy)
    BY <1>10, <1>11, <2>1, <2>2, <2>9 DEF PhaseOK
  <2>11. Items(E, c) \subseteq copy.has
    <3>1. CASE e.ev = "end"
      <4>1. t.lastSeqNum <= SeqnoAcked(t) /\ t.jobs = <<>> /\ t.fetched = <<>>
        BY <2>1, <3>1 DEF MayEndCheckpoint
      <4>2. ASSUME NEW f \in ToSet(t.log), f.ev = "item"
            PROVE  FALSE
        <5>1. SeqnoAcked(t) < f.seqno /\ f.seqno <= t.lastSeqNum
          BY <1>7, <4>2 DEF StreamOK, AckedOK
        <5>2. f.seqno \in Nat
          <6>1. f \in LogRec
            BY <1>3, ToSetFacts DEF TapRec
          <6> QED
            BY <6>1 DEF LogRec
        <5>3. t.lastSeqNum \in Nat /\ SeqnoAcked(t) \in Int
          BY <1>3 DEF TapRec, SeqnoAcked
        <5> QED
          BY <4>1, <5>1, <5>2, <5>3
      <4>3. \A x : x \notin InFlight(t, toC, toP)
        BY <4>2 DEF InFlight
      <4>4. \A x : ~Queued(t, x)
        BY <1>4, <4>1, EmptySet DEF Queued, Reads
      <4>5. \A x : ~Comes(tasks, x)
        BY <1>4, NothingComes DEF Reads
      <4>6. \A x : x \in Kept(t, tasks, toC, toP, copy.has) => x \in copy.has
        BY <4>3, <4>4, <4>5, KeptFacts DEF Queued
      <4> QED
        BY <1>4, <1>7, <1>8, <4>6 DEF CoveredOK, Reads, c
    <3>2. CASE e.ev = "start"
      <4>1. E[c].ev # "item"
        BY <1>5, <3>2 DEF Step
      <4> QED
        BY <1>4, <1>7, <1>8, <4>1 DEF ConfirmedOK, Reads, c
    <3> QED
      BY <2>1, <3>1, <3>2 DEF CheckpointEvents
  <2>12. Sound(src', tap', tasks, toC, toP, copy, lapse)
    <3>1. Items(E, d) \subseteq copy.has
      BY <2>8, <2>11
    <3> QED
      BY <1>1, <1>3, <1>4, <2>1, <2>5, <2>6, <2>8, <2>10, <3>1, ReadsMovedSound DEF c, d, e
  <2> QED
    BY <1>2, <2>1, <2>12 DEF Afterwards
<1>14. CASE Waits(t, e)
  <2>1. src' = src /\ toC' = toC /\ SameAll(t, tap')
    BY <1>14 DEF Waits
  <2>2. \A x : Queued(t, x) => Queued(tap', x)
    BY <2>1 DEF SameAll, Queued, SameQueues
  <2>3. Sound(src, tap', tasks, toC, toP, copy, lapse)
    BY <1>7, <2>1, <2>2, QuietSound DEF SameAll
  <2> QED
    BY <1>2, <2>1, <2>3 DEF Afterwards
<1> QED
  BY <1>3, <1>12, <1>13, <1>14

-----------------------------------------------------------------------------
(***************************************************************************)
(* The invariant and backfill tasks.                                       *)
(***************************************************************************)
LEMMA StreamAnnounced ==
  ASSUME NEW t \in TapRec, NEW c \in Seq(SentRec), NEW p, StreamOK(t, c, p), StreamPending(t, c)
  PROVE  Announced(t)
<1>1. CASE "initial_stream" \in ToSet(t.high) \/ InLog(t.log, "initial_stream")
  BY <1>1 DEF Announced
<1>2. CASE \E m \in ToSet(c) : m.ev = "initial_stream"
  <2>1. PICK m \in ToSet(c) : m.ev = "initial_stream"
    BY <1>2
  <2>2. \E e \in ToSet(t.log) : e.ev = "initial_stream"
    BY <2>1, SentIsLogged
  <2> QED
    BY <2>2 DEF Announced, InLog
<1> QED
  BY <1>1, <1>2 DEF StreamPending

\* The tasks and what they bring change, and nothing else does.
LEMMA TasksSound ==
  ASSUME NEW s, NEW t, NEW ts, NEW c, NEW p, NEW cp, NEW l, Sound(s, t, ts, c, p, cp, l),
         NEW u, NEW tu, SameLog(t, u), SameMessages(t, u), SameHigh(t, u),
         u.doRunBackfill = t.doRunBackfill, u.backfillVBucket = t.backfillVBucket,
         BackfillOK(u, tu, s.cursor), CoveredOK(s, u, tu, c, p, cp)
  PROVE  Sound(s, u, tu, c, p, cp, l)
<1>1. u.exists = t.exists /\ u.log = t.log /\ u.connected = t.connected
      /\ u.high = t.high /\ u.opaqueMsgCounter = t.opaqueMsgCounter
  BY DEF SameLog, SameHigh
<1>2. StreamOK(u, c, p)
  BY StreamFrame DEF Sound
<1>3. CountersOK(u)
  BY <1>1, CountersFrame DEF Sound
<1>4. Outstanding(u) = Outstanding(t)
  BY <1>1, SameOutstanding
<1>5. Delivered(u, c) = Delivered(t, c) /\ StreamPending(u, c) = StreamPending(t, c)
      /\ Announced(u) = Announced(t)
  BY <1>1 DEF Delivered, StreamPending, Announced
<1>6. PhasesOK(s, u, c, cp)
  BY <1>1, <1>4, <1>5, PhaseFrame DEF Sound
<1>7. ConfirmedOK(s, u, cp)
  BY <1>1 DEF Sound, ConfirmedOK
<1>8. EndingOK(s, u, c, cp, l)
  BY <1>5 DEF Sound, EndingOK
<1>9. PendingOK(u, c, cp)
  BY <1>1, PendingFrame DEF Sound
<1> QED
  BY <1>2, <1>3, <1>6, <1>7, <1>8, <1>9 DEF Sound

\* A task has brought what it had in memory or on disk.
LEMMA BroughtSound ==
  ASSUME Before, NEW i \in DOMAIN tasks, NEW task, Loads(tap'), src' = src, toC' = toC,
         toP' = toP, copy' = copy, Updates(tasks, i, task, tasks'),
         tasks[i].visited, task.own = tasks[i].own, task.visited,
         \A x : Comes(tasks, x) => Queued(tap', x) \/ Comes(tasks', x)
  PROVE  /\ CoveredOK(src, tap', tasks', toC, toP, copy)
         /\ TasksOK(tasks')
         /\ /\ lapse' = lapse
            /\ tap'.pendingBackfill = IF Pending(tasks') THEN 1 ELSE 0
            /\ tap'.diskBackfill = IF OnDisk(tasks') THEN 1 ELSE 0
            => Afterwards
<1>1. /\ TypeOK /\ EntriesInv /\ Sound(src, tap, tasks, toC, toP, copy, lapse)
      /\ tap \in TapRec /\ tasks \in Seq(TaskRec)
  BY BeforeFacts
<1>2. /\ SameLog(tap, tap') /\ SameMessages(tap, tap') /\ SameHigh(tap, tap')
      /\ tap'.doRunBackfill = tap.doRunBackfill
      /\ tap'.backfillCompleted = tap.backfillCompleted
      /\ tap'.backfillVBucket = tap.backfillVBucket
      /\ \A x : Queued(tap, x) => Queued(tap', x)
  BY DEF Loads
<1>3. /\ tap'.exists = tap.exists /\ tap'.log = tap.log /\ tap'.connected = tap.connected
  BY <1>2 DEF SameLog
<1>4. /\ BackfillOK(tap, tasks, src.cursor) /\ CoveredOK(src, tap, tasks, toC, toP, copy)
  BY <1>1 DEF Sound
<1>5. TasksOK(tasks)
  BY <1>4 DEF BackfillOK
<1>6. /\ TasksOK(tasks')
      /\ Unvisited(tasks') <=> \E k \in DOMAIN tasks \ {i} : tasks[k].own /\ ~tasks[k].visited
      /\ \A j \in DOMAIN tasks' : tasks'[j].own => \E k \in DOMAIN tasks : tasks[k].own
  BY <1>5, UpdatesFacts
<1>7. \A x : x \in Kept(tap, tasks, toC, toP, copy.has) => x \in Kept(tap', tasks', toC, toP, copy.has)
  BY <1>2, <1>3, KeptStep
<1>8. CoveredOK(src, tap', tasks', toC, toP, copy)
  BY <1>3, <1>4, <1>7, CoveredFrame
<1>9. Unvisited(tasks') <=> Unvisited(tasks)
  BY <1>6 DEF Unvisited
<1>10. ASSUME lapse' = lapse,
              tap'.pendingBackfill = IF Pending(tasks') THEN 1 ELSE 0,
              tap'.diskBackfill = IF OnDisk(tasks') THEN 1 ELSE 0
       PROVE  Afterwards
  <2>1. BackfillOK(tap', tasks', src.cursor)
    BY <1>2, <1>3, <1>4, <1>6, <1>9, <1>10 DEF BackfillOK
  <2>2. Sound(src, tap', tasks', toC, toP, copy, lapse)
    BY <1>1, <1>2, <1>8, <2>1, TasksSound
  <2> QED
    BY <1>10, <2>2 DEF Afterwards
<1> QED
  BY <1>6, <1>8, <1>10

\* A task of an older producer that changes what is counted is a lapse.
LEMMA CompleteSound ==
  ASSUME Before, NEW i \in DOMAIN tasks, Complete(i)
  PROVE  /\ CoveredOK(src', tap', tasks', toC', toP', copy')
         /\ "stale" \in lapse' \/ Afterwards
<1>1. /\ TypeOK /\ Sound(src, tap, tasks, toC, toP, copy, lapse)
      /\ tap \in TapRec /\ tasks \in Seq(TaskRec)
  BY BeforeFacts
<1>2. /\ src' = src /\ toC' = toC /\ toP' = toP /\ copy' = copy
      /\ lapse' = lapse \cup IF ~tasks[i].own /\ tap.pendingBackfill > 0 THEN {"stale"} ELSE {}
  BY DEF Complete
<1>3. PICK task \in TaskRec :
           /\ Loads(tap') /\ tap'.diskBackfill = tap.diskBackfill
           /\ tap'.pendingBackfill = (IF tap.pendingBackfill > 0 THEN tap.pendingBackfill - 1 ELSE 0)
           /\ tasks[i].own => \A x \in ToSet(tasks[i].mem) : Queued(tap', x)
           /\ tasks' \in Seq(TaskRec) /\ Updates(tasks, i, task, tasks')
           /\ tasks[i].visited /\ ~tasks[i].completed
           /\ task.own = tasks[i].own /\ task.visited /\ task.completed
           /\ task.disk = tasks[i].disk /\ task.cold = tasks[i].cold
  BY <1>1, CompleteFacts
<1>4. BackfillOK(tap, tasks, src.cursor)
  BY <1>1 DEF Sound
<1>5. /\ TasksOK(tasks)
      /\ tap.pendingBackfill = IF Pending(tasks) THEN 1 ELSE 0
      /\ tap.diskBackfill = IF OnDisk(tasks) THEN 1 ELSE 0
  BY <1>4 DEF BackfillOK
<1>6. /\ Pending(tasks') <=> \E k \in DOMAIN tasks \ {i} : tasks[k].own /\ ~tasks[k].completed
      /\ OnDisk(tasks') <=> \/ task.own /\ task.disk
                            \/ \E k \in DOMAIN tasks \ {i} : tasks[k].own /\ tasks[k].disk
      /\ \A x : Comes(tasks', x) <=>
           \/ task.own /\ task.disk /\ x \in ToSet(task.cold)
           \/ \E k \in DOMAIN tasks \ {i} :
                /\ tasks[k].own
                /\ \/ ~tasks[k].completed /\ x \in ToSet(tasks[k].mem)
                   \/ tasks[k].disk /\ x \in ToSet(tasks[k].cold)
  BY <1>3, <1>5, UpdatesFacts
<1>7. \A x : Comes(tasks, x) => Queued(tap', x) \/ Comes(tasks', x)
  <2>1. ASSUME NEW x, Comes(tasks, x)
        PROVE  Queued(tap', x) \/ Comes(tasks', x)
    <3>1. PICK k \in DOMAIN tasks : /\ tasks[k].own
                                    /\ \/ ~tasks[k].completed /\ x \in ToSet(tasks[k].mem)
                                       \/ tasks[k].disk /\ x \in ToSet(tasks[k].cold)
      BY <2>1 DEF Comes
    <3>2. CASE k = i
      BY <1>3, <1>6, <3>1, <3>2
    <3>3. CASE k # i
      BY <1>6, <3>1, <3>3
    <3> QED
      BY <3>2, <3>3
  <2> QED
    BY <2>1
<1>8. OnDisk(tasks') <=> OnDisk(tasks)
  BY <1>3, <1>6 DEF OnDisk
<1>9. CASE ~tasks[i].own /\ tap.pendingBackfill > 0
  <2>1. "stale" \in lapse'
    BY <1>2, <1>9
  <2> QED
    BY <1>2, <1>3, <1>7, <2>1, BroughtSound
<1>10. CASE ~tasks[i].own /\ ~(tap.pendingBackfill > 0)
  <2>1. ~Pending(tasks)
    BY <1>5, <1>10
  <2>2. ~Pending(tasks')
    BY <1>6, <2>1 DEF Pending
  <2>3. /\ lapse' = lapse
        /\ tap'.pendingBackfill = IF Pending(tasks') THEN 1 ELSE 0
        /\ tap'.diskBackfill = IF OnDisk(tasks') THEN 1 ELSE 0
    BY <1>2, <1>3, <1>5, <1>8, <1>10, <2>2
  <2> QED
    BY <1>2, <1>3, <1>7, <2>3, BroughtSound
<1>11. CASE tasks[i].own
  <2>1. tap.pendingBackfill = 1
    BY <1>3, <1>5, <1>11 DEF Pending
  <2>2. ~Pending(tasks')
    BY <1>5, <1>6, <1>11 DEF TasksOK
  <2>3. /\ lapse' = lapse
        /\ tap'.pendingBackfill = IF Pending(tasks') THEN 1 ELSE 0
        /\ tap'.diskBackfill = IF OnDisk(tasks') THEN 1 ELSE 0
    BY <1>2, <1>3, <1>5, <1>8, <1>11, <2>1, <2>2
  <2> QED
    BY <1>2, <1>3, <1>7, <2>3, BroughtSound
<1> QED
  BY <1>9, <1>10, <1>11

LEMMA LoadFromDiskSound ==
  ASSUME Before, NEW i \in DOMAIN tasks, LoadFromDisk(i)
  PROVE  /\ CoveredOK(src', tap', tasks', toC', toP', copy')
         /\ "stale" \in lapse' \/ Afterwards
<1>1. /\ TypeOK /\ Sound(src, tap, tasks, toC, toP, copy, lapse)
      /\ tap \in TapRec /\ tasks \in Seq(TaskRec)
  BY BeforeFacts
<1>2. /\ src' = src /\ toC' = toC /\ toP' = toP /\ copy' = copy
      /\ lapse' = lapse \cup IF ~tasks[i].own /\ tap.diskBackfill > 0 THEN {"stale"} ELSE {}
  BY DEF LoadFromDisk
<1>3. PICK task \in TaskRec :
           /\ Loads(tap') /\ tap'.pendingBackfill = tap.pendingBackfill
           /\ tap'.diskBackfill = (IF tap.diskBackfill > 0 THEN tap.diskBackfill - 1 ELSE 0)
           /\ tasks[i].own => \A x \in ToSet(tasks[i].cold) : Queued(tap', x)
           /\ tasks' \in Seq(TaskRec) /\ Updates(tasks, i, task, tasks')
           /\ tasks[i].disk
           /\ task.own = tasks[i].own /\ task.visited = tasks[i].visited /\ ~task.disk
           /\ task.completed = tasks[i].completed /\ task.mem = tasks[i].mem
  BY <1>1, LoadFromDiskFacts
<1>4. BackfillOK(tap, tasks, src.cursor)
  BY <1>1 DEF Sound
<1>5. /\ TasksOK(tasks)
      /\ tap.pendingBackfill = IF Pending(tasks) THEN 1 ELSE 0
      /\ tap.diskBackfill = IF OnDisk(tasks) THEN 1 ELSE 0
  BY <1>4 DEF BackfillOK
<1>6. tasks[i].visited /\ task.visited
  BY <1>3, <1>5 DEF TasksOK
<1>7. /\ OnDisk(tasks') <=> \E k \in DOMAIN tasks \ {i} : tasks[k].own /\ tasks[k].disk
      /\ Pending(tasks') <=> \/ task.own /\ ~task.completed
                             \/ \E k \in DOMAIN tasks \ {i} : tasks[k].own /\ ~tasks[k].completed
      /\ \A x : Comes(tasks', x) <=>
           \/ task.own /\ ~task.completed /\ x \in ToSet(task.mem)
           \/ \E k \in DOMAIN tasks \ {i} :
                /\ tasks[k].own
                /\ \/ ~tasks[k].completed /\ x \in ToSet(tasks[k].mem)
                   \/ tasks[k].disk /\ x \in ToSet(tasks[k].cold)
  <2>1. Updates(tasks, i, task, tasks') /\ task.own = tasks[i].own /\ ~task.disk
    BY <1>3
  <2> QED
    BY <1>5, <1>6, <2>1, UpdatesFacts
<1>8. \A x : Comes(tasks, x) => Queued(tap', x) \/ Comes(tasks', x)
  <2>1. ASSUME NEW x, Comes(tasks, x)
        PROVE  Queued(tap', x) \/ Comes(tasks', x)
    <3>1. PICK k \in DOMAIN tasks : /\ tasks[k].own
                                    /\ \/ ~tasks[k].completed /\ x \in ToSet(tasks[k].mem)
                                       \/ tasks[k].disk /\ x \in ToSet(tasks[k].cold)
      BY <2>1 DEF Comes
    <3>2. CASE k = i
      BY <1>3, <1>7, <3>1, <3>2
    <3>3. CASE k # i
      BY <1>7, <3>1, <3>3
    <3> QED
      BY <3>2, <3>3
  <2> QED
    BY <2>1
<1>9. Pending(tasks') <=> Pending(tasks)
  BY <1>3, <1>7 DEF Pending
<1>10. CASE ~tasks[i].own /\ tap.diskBackfill > 0
  <2>1. "stale" \in lapse'
    BY <1>2, <1>10
  <2> QED
    BY <1>2, <1>3, <1>6, <1>8, <2>1, BroughtSound
<1>11. CASE ~tasks[i].own /\ ~(tap.diskBackfill > 0)
  <2>1. ~OnDisk(tasks)
    BY <1>5, <1>11
  <2>2. ~OnDisk(tasks')
    BY <1>7, <2>1 DEF OnDisk
  <2>3. /\ lapse' = lapse
        /\ tap'.pendingBackfill = IF Pending(tasks') THEN 1 ELSE 0
        /\ tap'.diskBackfill = IF OnDisk(tasks') THEN 1 ELSE 0
    BY <1>2, <1>3, <1>5, <1>9, <1>11, <2>2
  <2> QED
    BY <1>2, <1>3, <1>6, <1>8, <2>3, BroughtSound
<1>12. CASE tasks[i].own
  <2>1. tap.diskBackfill = 1
    BY <1>3, <1>5, <1>12 DEF OnDisk
  <2>2. ~OnDisk(tasks')
    BY <1>5, <1>7, <1>12 DEF TasksOK
  <2>3. /\ lapse' = lapse
        /\ tap'.pendingBackfill = IF Pending(tasks') THEN 1 ELSE 0
        /\ tap'.diskBackfill = IF OnDisk(tasks') THEN 1 ELSE 0
    BY <1>2, <1>3, <1>5, <1>9, <1>12, <2>1, <2>2
  <2> QED
    BY <1>2, <1>3, <1>6, <1>8, <2>3, BroughtSound
<1> QED
  BY <1>10, <1>11, <1>12

\* The visit sets the cursor to the open checkpoint, and takes all that there is.
LEMMA VisitSound ==
  ASSUME Before, NEW i \in DOMAIN tasks, Visit(i)
  PROVE  IF tasks[i].own THEN Afterwards
         ELSE /\ "stale" \in lapse'
              /\ Items(src'.entries, src'.cursor) \subseteq ToSet(tasks'[i].mem) \cup ToSet(tasks'[i].cold)
<1> DEFINE E == src.entries
           b == Beginning(OpenId)
<1>1. /\ TypeOK /\ EntriesInv /\ Sound(src, tap, tasks, toC, toP, copy, lapse)
      /\ tap \in TapRec /\ toC \in Seq(SentRec)
  BY BeforeFacts
<1>2. /\ toC' = toC /\ toP' = toP /\ copy' = copy
      /\ lapse' = lapse \cup IF tasks[i].own THEN {} ELSE {"stale"}
      /\ ~tasks[i].visited
  BY DEF Visit
<1>3. /\ MovedTo(src, src', b)
      /\ tap' \in TapRec /\ SameLog(tap, tap') /\ SameQueues(tap, tap')
      /\ SameMessages(tap, tap') /\ SameHigh(tap, tap')
      /\ tap'.doRunBackfill = tap.doRunBackfill
      /\ tap'.backfillCompleted = tap.backfillCompleted
      /\ tap'.backfillVBucket = tap.backfillVBucket
      /\ tap'.pendingBackfill = tap.pendingBackfill
      /\ tap'.diskBackfill = (IF Written # {} THEN tap.diskBackfill + 1 ELSE tap.diskBackfill)
      /\ tasks' \in Seq(TaskRec) /\ DOMAIN tasks' = DOMAIN tasks
      /\ \A j \in DOMAIN tasks : j # i => tasks'[j] = tasks[j]
      /\ tasks'[i].own = tasks[i].own /\ tasks'[i].completed = tasks[i].completed
      /\ tasks'[i].visited /\ (tasks'[i].disk <=> Written # {})
      /\ Written \subseteq ToSet(tasks'[i].mem) \cup ToSet(tasks'[i].cold)
  BY <1>1, VisitFacts
<1>4. /\ Good(E) /\ Written = Items(E, Len(E)) /\ Len(E) \in Nat
      /\ OpenId \in Nat /\ OpenId >= 2
  BY <1>1, SourceFacts
<1>5. /\ b \in 1..Len(E) /\ E[b].ev = "dummy"
  BY <1>1, <1>4, BeginningFacts
<1> HIDE DEF b
<1>6. src'.entries = E /\ src'.cursor = b /\ src'.state = src.state
  BY <1>3 DEF MovedTo
<1>7. Items(E, b) \subseteq Written
  <2>1. Len(E) \in 0..Len(E) /\ b \in 0..Len(E)
    BY <1>4, <1>5
  <2> QED
    BY <1>4, <2>1, ItemsFacts
<1>8. Items(src'.entries, src'.cursor) \subseteq ToSet(tasks'[i].mem) \cup ToSet(tasks'[i].cold)
  BY <1>3, <1>6, <1>7
<1>9. CASE ~tasks[i].own
  BY <1>2, <1>8, <1>9
<1>10. CASE tasks[i].own
  <2>1. /\ BackfillOK(tap, tasks, src.cursor) /\ StreamOK(tap, toC, toP) /\ CountersOK(tap)
        /\ PhasesOK(src, tap, toC, copy) /\ CopyOK(E, copy)
        /\ EndingOK(src, tap, toC, copy, lapse) /\ PendingOK(tap, toC, copy)
    BY <1>1 DEF Sound
  <2>2. /\ tap.backfillVBucket /\ ~tap.doRunBackfill /\ TasksOK(tasks)
        /\ tap.backfillVBucket = ~tap.backfillCompleted
        /\ tap.pendingBackfill = (IF Pending(tasks) THEN 1 ELSE 0)
        /\ tap.diskBackfill = (IF OnDisk(tasks) THEN 1 ELSE 0)
    BY <1>10, <2>1 DEF BackfillOK
  <2>3. /\ \A j \in DOMAIN tasks : tasks[j].own => j = i
        /\ ~tasks[i].completed /\ ~tasks[i].disk
    BY <1>2, <1>10, <2>2 DEF TasksOK
  <2>4. tap.pendingBackfill = 1 /\ tap.diskBackfill = 0
    BY <1>10, <2>2, <2>3 DEF Pending, OnDisk
  <2>5. \A j \in DOMAIN tasks : tasks'[j].own <=> j = i
    BY <1>3, <1>10, <2>3
  <2>6. TasksOK(tasks')
    <3>1. \A j, k \in DOMAIN tasks' : tasks'[j].own /\ tasks'[k].own => j = k
      BY <1>3, <2>5
    <3>2. ASSUME NEW j \in DOMAIN tasks'
          PROVE  /\ tasks'[j].completed \/ tasks'[j].disk => tasks'[j].visited
                 /\ ~Finished(tasks'[j])
      <4>1. CASE j = i
        BY <1>3, <2>3, <4>1 DEF Finished
      <4>2. CASE j # i
        BY <1>3, <2>2, <4>2 DEF TasksOK
      <4> QED
        BY <4>1, <4>2
    <3> QED
      BY <3>1, <3>2 DEF TasksOK
  <2>7. Pending(tasks') /\ ~Unvisited(tasks') /\ (OnDisk(tasks') <=> Written # {})
    BY <1>3, <2>3, <2>5 DEF Pending, Unvisited, OnDisk
  <2>8. tap'.exists = tap.exists /\ tap'.log = tap.log /\ tap'.connected = tap.connected
        /\ tap'.high = tap.high /\ tap'.opaqueMsgCounter = tap.opaqueMsgCounter
    BY <1>3 DEF SameLog, SameHigh
  <2>9. BackfillOK(tap', tasks', b)
    <3>1. tap'.pendingBackfill = 1 /\ tap'.diskBackfill = IF OnDisk(tasks') THEN 1 ELSE 0
      BY <1>3, <2>4, <2>7
    <3>2. b # 0
      BY <1>5
    <3> QED
      BY <1>3, <2>2, <2>6, <2>7, <3>1, <3>2 DEF BackfillOK
  <2>10. StreamOK(tap', toC, toP)
    BY <1>3, <2>1, StreamFrame
  <2>11. CountersOK(tap')
    BY <1>3, <2>1, <2>8, CountersFrame
  <2>12. CoveredOK(src', tap', tasks', toC, toP, copy)
    <3>1. ASSUME NEW x \in Items(E, b)
          PROVE  x \in Kept(tap', tasks', toC, toP, copy.has)
      <4>1. x \in ToSet(tasks'[i].mem) \/ x \in ToSet(tasks'[i].cold)
        BY <1>3, <1>7, <3>1
      <4>2. tasks'[i].own /\ ~tasks'[i].completed /\ tasks'[i].disk /\ i \in DOMAIN tasks'
        BY <1>3, <1>7, <1>10, <2>3, <3>1
      <4>3. Comes(tasks', x)
        BY <4>1, <4>2 DEF Comes
      <4> QED
        BY <4>3, KeptFacts
    <3> QED
      BY <1>6, <3>1 DEF CoveredOK
  <2>13. Outstanding(tap') = Outstanding(tap) /\ Delivered(tap', toC) = Delivered(tap, toC)
         /\ StreamPending(tap', toC) = StreamPending(tap, toC) /\ Announced(tap') = Announced(tap)
    <3>1. Outstanding(tap') = Outstanding(tap)
      BY <1>3, <2>8, SameOutstanding
    <3> QED
      BY <2>8, <3>1 DEF Delivered, StreamPending, Announced
  <2>14. PhasesOK(src', tap', toC, copy)
    <3>1. ~StreamPending(tap, toC)
      BY <1>1, <2>1, <2>2, StreamAnnounced DEF CountersOK
    <3>2. copy.state # "active" => Outstanding(tap) = {} /\ copy.open = 0 /\ ~copy.closed
      BY <2>1, <2>2, <3>1 DEF PhasesOK
    <3>3. copy.state # "active" => PhaseOK(E[b], Outstanding(tap), Delivered(tap, toC), copy)
      BY <1>5, <3>2 DEF PhaseOK, Fresh
    <3> QED
      BY <1>6, <2>13, <3>2, <3>3 DEF PhasesOK
  <2>15. ConfirmedOK(src', tap', copy)
    BY <1>3, <2>2 DEF ConfirmedOK
  <2>16. EndingOK(src', tap', toC, copy, lapse)
    BY <1>6, <2>1, <2>13 DEF EndingOK
  <2>17. PendingOK(tap', toC, copy)
    BY <2>1, <2>8, PendingFrame
  <2>18. lapse' = lapse
    BY <1>2, <1>10
  <2>19. Sound(src', tap', tasks', toC, toP, copy, lapse)
    BY <1>6, <2>1, <2>9, <2>10, <2>11, <2>12, <2>14, <2>15, <2>16, <2>17 DEF Sound
  <2> QED
    BY <1>2, <1>10, <2>18, <2>19 DEF Afterwards
<1> QED
  BY <1>9, <1>10

-----------------------------------------------------------------------------
(***************************************************************************)
(* The invariant and the loss of a connection.                             *)
(***************************************************************************)
LEMMA DropSound ==
  ASSUME Before, Drop
  PROVE  Afterwards
<1>1. /\ TypeOK /\ Sound(src, tap, tasks, toC, toP, copy, lapse)
      /\ tap \in TapRec /\ toC \in Seq(SentRec)
  BY BeforeFacts
<1>2. /\ src' = src /\ tasks' = tasks /\ copy' = copy /\ lapse' = lapse
      /\ toC' = <<>> /\ toP' = <<>>
  BY DEF Drop
<1>3. /\ tap.connected /\ tap' \in TapRec /\ ~tap'.connected
      /\ tap'.exists = tap.exists /\ tap'.log = tap.log /\ tap'.seqno = tap.seqno
      /\ tap'.seqnoReceived = tap.seqnoReceived
      /\ tap'.isLastAckSucceed = tap.isLastAckSucceed
      /\ tap'.isSeqNumRotated = tap.isSeqNumRotated /\ tap'.lastSeqNum = tap.lastSeqNum
      /\ SameQueues(tap, tap') /\ SameMessages(tap, tap') /\ SameHigh(tap, tap')
      /\ SameFlags(tap, tap')
  BY <1>1, DropFacts
<1>4. /\ tap'.high = tap.high /\ tap'.opaqueMsgCounter = tap.opaqueMsgCounter
      /\ tap'.doRunBackfill = tap.doRunBackfill /\ tap'.backfillVBucket = tap.backfillVBucket
  BY <1>3 DEF SameHigh, SameFlags
<1>5. /\ BackfillOK(tap, tasks, src.cursor) /\ StreamOK(tap, toC, toP) /\ CountersOK(tap)
      /\ CoveredOK(src, tap, tasks, toC, toP, copy)
      /\ PhasesOK(src, tap, toC, copy) /\ CopyOK(src.entries, copy) /\ ConfirmedOK(src, tap, copy)
      /\ EndingOK(src, tap, toC, copy, lapse) /\ PendingOK(tap, toC, copy)
  BY <1>1 DEF Sound
<1>6. BackfillOK(tap', tasks, src.cursor)
  BY <1>3, <1>5, BackfillFrame
<1>7. StreamOK(tap', <<>>, <<>>)
  <2>1. LogOK(tap')
    BY <1>3, <1>5 DEF StreamOK, LogOK
  <2>2. SentOK(tap', <<>>) /\ AnsweredOK(tap', <<>>, <<>>)
    BY EmptySet DEF SentOK, AnsweredOK
  <2>3. Awaited(tap', <<>>, <<>>)
    BY <1>3 DEF Awaited
  <2>4. AckedOK(tap')
    BY <1>3, <1>5 DEF StreamOK, AckedOK, SeqnoAcked
  <2> QED
    BY <1>3, <2>1, <2>2, <2>3, <2>4 DEF StreamOK
<1>8. CountersOK(tap')
  BY <1>3, <1>4, <1>5, CountersFrame
<1>9. \A x : x \in Kept(tap, tasks, toC, toP, copy.has)
               => x \in Kept(tap', tasks, <<>>, <<>>, copy.has)
  <2>1. ASSUME NEW x, x \in Kept(tap, tasks, toC, toP, copy.has)
        PROVE  x \in Kept(tap', tasks, <<>>, <<>>, copy.has)
    <3>1. CASE x \in InFlight(tap, toC, toP)
      <4>1. x \in InFlight(tap', <<>>, <<>>)
        BY <1>3, <3>1 DEF InFlight
      <4> QED
        BY <4>1, KeptFacts
    <3>2. CASE x \notin InFlight(tap, toC, toP)
      BY <1>3, <2>1, <3>2, KeptFacts DEF SameQueues
    <3> QED
      BY <3>1, <3>2
  <2> QED
    BY <2>1
<1>10. CoveredOK(src, tap', tasks, <<>>, <<>>, copy)
  BY <1>3, <1>5, <1>9, CoveredFrame
<1>11. PhasesOK(src, tap', <<>>, copy)
  <2>1. Outstanding(tap') = Outstanding(tap)
    BY <1>3, SameOutstanding
  <2>2. ~Delivered(tap', <<>>)
    BY <1>3 DEF Delivered
  <2>3. StreamPending(tap, toC) => StreamPending(tap', <<>>)
    <3>1. StreamPending(tap, toC) => Announced(tap)
      BY <1>1, <1>5, StreamAnnounced
    <3> QED
      BY <1>3, <1>4, <3>1 DEF StreamPending, Announced
  <2> QED
    BY <1>3, <1>4, <1>5, <2>1, <2>2, <2>3, PhaseFrame
<1>12. ConfirmedOK(src, tap', copy)
  BY <1>3, <1>4, <1>5 DEF ConfirmedOK
<1>13. EndingOK(src, tap', <<>>, copy, lapse)
  BY <1>3, <1>4, <1>5, EmptySet DEF EndingOK, Ending, Announced
<1>14. PendingOK(tap', <<>>, copy)
  BY <1>4, <1>5, EmptySet, PendingFrame
<1> QED
  BY <1>2, <1>5, <1>6, <1>7, <1>8, <1>10, <1>11, <1>12, <1>13, <1>14 DEF Sound, Afterwards

-----------------------------------------------------------------------------
(***************************************************************************)
(* The invariant and the answers.                                          *)
(***************************************************************************)
\* When a checkpoint message that is delivered is acknowledged.
LEMMA PhaseAcked ==
  ASSUME NEW e, NEW out, NEW cp, PhaseOK(e, out, TRUE, cp), NEW d
  PROVE  PhaseOK(e, {}, d, cp)
BY DEF PhaseOK

\* What was sent before the first message that is answered are items.
LEMMA BeforeAnswered ==
  ASSUME NEW t \in TapRec, NEW c \in Seq(SentRec), NEW p \in Seq(AnswerRec), p # <<>>,
         StreamOK(t, c, p), t.connected,
         NEW e \in ToSet(t.log), e.seqno < Head(p).seqno
  PROVE  e.ev = "item"
<1> SUFFICES ASSUME e.ev # "item"
             PROVE  FALSE
  OBVIOUS
<1>1. /\ \E m \in ToSet(c) : m.seqno = e.seqno
      \/ \E a \in ToSet(p) : a.seqno = e.seqno
  BY DEF StreamOK, Awaited
<1>2. /\ Head(p) \in AnswerRec /\ Head(p) \in ToSet(p)
      /\ \A x \in ToSet(p) : x = Head(p) \/ x \in ToSet(Tail(p))
      /\ \A x : x \in ToSet(Tail(p)) <=> x \in ToSet(p) /\ x.seqno > Head(p).seqno
  BY NumberedFacts, FirstFacts DEF StreamOK, AnsweredOK
<1>3. Head(p).seqno \in Nat /\ e.seqno \in Nat
  <2>1. e \in LogRec
    BY ToSetFacts DEF TapRec
  <2> QED
    BY <1>2, <2>1 DEF AnswerRec, LogRec
<1>4. \A m \in ToSet(c) : Head(p).seqno < m.seqno /\ m.seqno \in Nat
  <2>1. \A m \in ToSet(c) : m \in SentRec
    BY ToSetFacts
  <2> QED
    BY <1>2, <2>1 DEF StreamOK, AnsweredOK, SentRec
<1>5. CASE \E m \in ToSet(c) : m.seqno = e.seqno
  BY <1>3, <1>4, <1>5
<1>6. CASE \E a \in ToSet(p) : a.seqno = e.seqno
  BY <1>2, <1>3, <1>6
<1> QED
  BY <1>1, <1>5, <1>6

\* The i-th element of the log has its answer: u is the producer without it and all before it.
Answers(t, p, i, u) ==
  /\ u.exists = t.exists /\ u.connected = t.connected /\ u.seqno = t.seqno
  /\ ~u.isSeqNumRotated /\ SameFlags(t, u)
  /\ u.log = SubSeq(t.log, i + 1, Len(t.log))
  /\ t.log[i].seqno = Head(p).seqno
  /\ u.seqnoReceived = t.log[i].seqno /\ SeqnoAcked(u) <= t.log[i].seqno
  /\ u.lastSeqNum \in {t.lastSeqNum, Highest}
  /\ u.high = t.high /\ u.checkpointMsgs = t.checkpointMsgs
  /\ u.opaqueMsgCounter = t.opaqueMsgCounter - (IF t.log[i].ev \in Opaques THEN 1 ELSE 0)
  /\ u.checkpointMsgCounter =
       t.checkpointMsgCounter - (IF t.log[i].ev \in CheckpointEvents THEN 1 ELSE 0)
  /\ \A x : Queued(t, x) => Queued(u, x)
  /\ ~Head(p).ok => Queued(u, t.log[i].n)

\* What the numbers say of what is left.
LEMMA LeftFacts ==
  ASSUME NEW t \in TapRec, NEW c \in Seq(SentRec), NEW p \in Seq(AnswerRec), p # <<>>,
         StreamOK(t, c, p), t.connected, NEW i \in 1..Len(t.log), NEW u \in TapRec,
         Answers(t, p, i, u)
  PROVE  LET r == t.log[i]
         IN  /\ r \in ToSet(t.log) /\ r \in LogRec /\ r.seqno \in Nat
             /\ \A e \in ToSet(t.log) : e.seqno \in Nat
             /\ Increasing(u.log) /\ Increasing(Tail(p))
             /\ \A e : e \in ToSet(u.log) <=> e \in ToSet(t.log) /\ e.seqno > r.seqno
             /\ \A e \in ToSet(t.log) : e \in ToSet(u.log) \/ e = r \/ e.ev = "item"
             /\ \A a \in ToSet(p) : a = Head(p) \/ (a \in ToSet(Tail(p)) /\ a.seqno > r.seqno)
             /\ \A a \in ToSet(Tail(p)) : a \in ToSet(p) /\ a.seqno > r.seqno
             /\ \A m \in ToSet(c) : m.seqno > r.seqno
<1> DEFINE r == t.log[i]
<1>1. t.log \in Seq(LogRec) /\ Increasing(t.log)
  BY DEF TapRec, StreamOK, LogOK
<1>2. /\ r \in ToSet(t.log) /\ r \in LogRec
      /\ \A e \in ToSet(t.log) : e \in LogRec
  BY <1>1, ToSetFacts
<1>3. r.seqno \in Nat /\ \A e \in ToSet(t.log) : e.seqno \in Nat
  BY <1>2 DEF LogRec
<1>4. u.log = SubSeq(t.log, i + 1, Len(t.log)) /\ r.seqno = Head(p).seqno
  BY DEF Answers
<1>5. /\ Increasing(u.log)
      /\ \A e : e \in ToSet(u.log) <=> e \in ToSet(t.log) /\ e.seqno > r.seqno
  BY <1>1, <1>4, NumberedFacts, SuffixFacts
<1>6. /\ Increasing(Tail(p)) /\ Head(p) \in ToSet(p)
      /\ \A x : x \in ToSet(Tail(p)) <=> x \in ToSet(p) /\ x.seqno > Head(p).seqno
      /\ \A x \in ToSet(p) : x = Head(p) \/ x \in ToSet(Tail(p))
  BY NumberedFacts, FirstFacts DEF StreamOK, AnsweredOK
<1>7. \A m \in ToSet(c) : m.seqno > r.seqno
  <2>1. ASSUME NEW m \in ToSet(c)
        PROVE  m.seqno > r.seqno
    <3>1. m \in SentRec /\ r.seqno < m.seqno
      BY <1>4, <1>6, ToSetFacts DEF StreamOK, AnsweredOK
    <3>2. m.seqno \in Nat
      BY <3>1 DEF SentRec
    <3> QED
      BY <1>3, <3>1, <3>2
  <2> QED
    BY <2>1
<1>8. \A e \in ToSet(t.log) : e \in ToSet(u.log) \/ e = r \/ e.ev = "item"
  <2>1. ASSUME NEW e \in ToSet(t.log)
        PROVE  e \in ToSet(u.log) \/ e = r \/ e.ev = "item"
    <3>1. CASE e.seqno > r.seqno
      BY <1>5, <3>1
    <3>2. CASE e.seqno = r.seqno
      BY <1>1, <1>2, <3>2, NumberedFacts, SameNumber
    <3>3. CASE e.seqno < r.seqno
      <4>1. e.seqno < Head(p).seqno
        BY <1>4, <3>3
      <4> QED
        BY <4>1, BeforeAnswered
    <3> QED
      BY <1>3, <3>1, <3>2, <3>3
  <2> QED
    BY <2>1
<1> HIDE DEF r
<1>9. /\ \A a \in ToSet(p) : a = Head(p) \/ (a \in ToSet(Tail(p)) /\ a.seqno > r.seqno)
      /\ \A a \in ToSet(Tail(p)) : a \in ToSet(p) /\ a.seqno > r.seqno
  BY <1>4, <1>6
<1> QED
  BY <1>2, <1>3, <1>5, <1>6, <1>7, <1>8, <1>9 DEF r

LEMMA LeftStream ==
  ASSUME NEW t \in TapRec, NEW c \in Seq(SentRec), NEW p \in Seq(AnswerRec), p # <<>>,
         StreamOK(t, c, p), t.connected, NEW i \in 1..Len(t.log), NEW u \in TapRec,
         Answers(t, p, i, u), t.seqno < Highest
  PROVE  StreamOK(u, c, Tail(p))
<1> DEFINE r == t.log[i]
           q == Tail(p)
<1>1. /\ r \in ToSet(t.log) /\ r.seqno \in Nat
      /\ \A e \in ToSet(t.log) : e.seqno \in Nat
      /\ Increasing(u.log) /\ Increasing(q)
      /\ \A e : e \in ToSet(u.log) <=> e \in ToSet(t.log) /\ e.seqno > r.seqno
      /\ \A a \in ToSet(p) : a = Head(p) \/ (a \in ToSet(q) /\ a.seqno > r.seqno)
      /\ \A a \in ToSet(q) : a \in ToSet(p) /\ a.seqno > r.seqno
      /\ \A m \in ToSet(c) : m.seqno > r.seqno
  BY LeftFacts
<1>2. /\ u.exists = t.exists /\ u.connected = t.connected /\ u.seqno = t.seqno
      /\ ~u.isSeqNumRotated /\ u.seqnoReceived = r.seqno /\ SeqnoAcked(u) <= r.seqno
      /\ u.lastSeqNum \in {t.lastSeqNum, Highest} /\ r.seqno = Head(p).seqno
  BY DEF Answers
<1> HIDE DEF r, q
<1>3. (t.connected => t.exists)
      /\ LogOK(t) /\ SentOK(t, c) /\ AnsweredOK(t, c, p) /\ Awaited(t, c, p) /\ AckedOK(t)
  BY DEF StreamOK
<1>4. LogOK(u)
  BY <1>1, <1>2, <1>3 DEF LogOK
<1>5. SentOK(u, c)
  <2>1. ASSUME NEW m \in ToSet(c)
        PROVE  \E e \in ToSet(u.log) : e.seqno = m.seqno /\ e.ev = m.ev /\ e.n = m.n
    <3>1. PICK e \in ToSet(t.log) : e.seqno = m.seqno /\ e.ev = m.ev /\ e.n = m.n
      BY <1>3 DEF SentOK
    <3>2. e \in ToSet(u.log)
      BY <1>1, <3>1
    <3> QED
      BY <3>1, <3>2
  <2> QED
    BY <1>2, <1>3, <2>1 DEF SentOK
<1>6. AnsweredOK(u, c, q)
  <2>1. ASSUME NEW a \in ToSet(q)
        PROVE  \E e \in ToSet(u.log) : e.seqno = a.seqno /\ (~a.ok => e.ev = "item")
    <3>1. a \in ToSet(p) /\ a.seqno > r.seqno
      BY <1>1
    <3>2. PICK e \in ToSet(t.log) : e.seqno = a.seqno /\ (~a.ok => e.ev = "item")
      BY <1>3, <3>1 DEF AnsweredOK
    <3>3. e \in ToSet(u.log)
      BY <1>1, <3>1, <3>2
    <3> QED
      BY <3>2, <3>3
  <2>2. \A a \in ToSet(q), m \in ToSet(c) : a.seqno < m.seqno
    BY <1>1, <1>3 DEF AnsweredOK
  <2> QED
    BY <1>1, <1>2, <2>1, <2>2 DEF AnsweredOK
<1>7. Awaited(u, c, q)
  <2>1. ASSUME NEW e \in ToSet(u.log), e.ev # "item"
        PROVE  \/ \E m \in ToSet(c) : m.seqno = e.seqno /\ m.ack
               \/ \E a \in ToSet(q) : a.seqno = e.seqno
    <3>1. e \in ToSet(t.log) /\ e.seqno > r.seqno
      BY <1>1
    <3>2. \/ \E m \in ToSet(c) : m.seqno = e.seqno /\ m.ack
          \/ \E a \in ToSet(p) : a.seqno = e.seqno
      BY <1>3, <2>1, <3>1 DEF Awaited
    <3>3. CASE \E a \in ToSet(p) : a.seqno = e.seqno
      <4>1. PICK a \in ToSet(p) : a.seqno = e.seqno
        BY <3>3
      <4>2. a # Head(p)
        BY <1>1, <1>2, <3>1, <4>1
      <4> QED
        BY <1>1, <4>1, <4>2
    <3> QED
      BY <3>2, <3>3
  <2> QED
    BY <2>1 DEF Awaited
<1>8. AckedOK(u)
  <2>1. u.lastSeqNum \in Nat /\ t.lastSeqNum \in Nat /\ SeqnoAcked(u) \in Int /\ Highest \in Nat
        /\ u.seqnoReceived \in Int
    <3>1. u.seqnoReceived \in Int /\ u.lastSeqNum \in Nat /\ t.lastSeqNum \in Nat
      BY DEF TapRec
    <3>2. SeqnoAcked(u) \in {0, u.seqnoReceived, u.seqnoReceived - 1}
      BY DEF SeqnoAcked
    <3> QED
      BY <3>1, <3>2, HighestFacts
  <2>2. \A e \in ToSet(u.log) : SeqnoAcked(u) < e.seqno
    BY <1>1, <1>2, <2>1
  <2>3. 0 <= u.seqnoReceived /\ u.seqnoReceived < u.seqno
    BY <1>1, <1>2, <1>3 DEF LogOK
  <2>4. ASSUME NEW e \in ToSet(u.log), e.ev = "item"
        PROVE  e.seqno <= u.lastSeqNum
    <3>1. e \in ToSet(t.log) /\ e.seqno \in Nat
      BY <1>1
    <3>2. e.seqno <= t.lastSeqNum /\ e.seqno < t.seqno /\ t.seqno \in Nat
      BY <1>3, <2>4, <3>1 DEF AckedOK, LogOK, TapRec
    <3> QED
      BY <1>2, <2>1, <3>1, <3>2
  <2> QED
    BY <1>2, <2>2, <2>3, <2>4 DEF AckedOK
<1> QED
  BY <1>2, <1>3, <1>4, <1>5, <1>6, <1>7, <1>8 DEF StreamOK, q

LEMMA LeftNumbers ==
  ASSUME NEW t \in TapRec, NEW c \in Seq(SentRec), NEW p \in Seq(AnswerRec), p # <<>>,
         StreamOK(t, c, p), t.connected, NEW i \in 1..Len(t.log), NEW u \in TapRec,
         Answers(t, p, i, u), NEW evs, "item" \notin evs
  PROVE  Cardinality(Numbers(u.log, evs)) =
           Cardinality(Numbers(t.log, evs)) - (IF t.log[i].ev \in evs THEN 1 ELSE 0)
<1>1. t.log \in Seq(LogRec) /\ Increasing(t.log) /\ u.log \in Seq(LogRec)
  BY DEF TapRec, StreamOK, LogOK
<1>2. u.log = SubSeq(t.log, i + 1, Len(t.log)) /\ t.log[i].seqno = Head(p).seqno
  BY DEF Answers
<1>3. \A e \in ToSet(t.log) : e.seqno < t.log[i].seqno => e.ev \notin evs
  BY <1>2, BeforeAnswered
<1>4. Cardinality(Numbers(t.log, evs)) =
        Cardinality(Numbers(u.log, evs)) + IF t.log[i].ev \in evs THEN 1 ELSE 0
  BY <1>1, <1>2, <1>3, NumbersSuffix, SMTT(30)
<1>5. Cardinality(Numbers(t.log, evs)) \in Nat /\ Cardinality(Numbers(u.log, evs)) \in Nat
  BY <1>1, NumbersFacts
<1> QED
  BY <1>4, <1>5

LEMMA LeftCounters ==
  ASSUME NEW t \in TapRec, NEW c \in Seq(SentRec), NEW p \in Seq(AnswerRec), p # <<>>,
         StreamOK(t, c, p), t.connected, NEW i \in 1..Len(t.log), NEW u \in TapRec,
         Answers(t, p, i, u), CountersOK(t)
  PROVE  CountersOK(u)
<1>1. /\ u.opaqueMsgCounter = t.opaqueMsgCounter - (IF t.log[i].ev \in Opaques THEN 1 ELSE 0)
      /\ u.checkpointMsgCounter =
           t.checkpointMsgCounter - (IF t.log[i].ev \in CheckpointEvents THEN 1 ELSE 0)
      /\ u.high = t.high /\ u.checkpointMsgs = t.checkpointMsgs
      /\ u.doRunBackfill = t.doRunBackfill
  BY DEF Answers, SameFlags
<1>2. "item" \notin Opaques /\ "item" \notin CheckpointEvents
  BY EventFacts
<1>3. Cardinality(Numbers(u.log, Opaques)) =
        Cardinality(Numbers(t.log, Opaques)) - (IF t.log[i].ev \in Opaques THEN 1 ELSE 0)
  BY <1>2, LeftNumbers
<1>4. Cardinality(Numbers(u.log, CheckpointEvents)) =
        Cardinality(Numbers(t.log, CheckpointEvents))
          - (IF t.log[i].ev \in CheckpointEvents THEN 1 ELSE 0)
  BY <1>2, LeftNumbers
<1>5. Announced(u) => Announced(t)
  <2>1. \A e \in ToSet(u.log) : e \in ToSet(t.log)
    BY LeftFacts
  <2> QED
    BY <1>1, <2>1 DEF Announced, InLog
<1>6. Len(u.checkpointMsgs) + u.checkpointMsgCounter <= 1
  <2>1. Len(t.checkpointMsgs) \in Nat /\ t.checkpointMsgCounter \in Int
    <3>1. t.checkpointMsgs \in Seq(MessageRec) /\ t.checkpointMsgCounter \in Int
      BY DEF TapRec
    <3> QED
      BY <3>1
  <2>2. Len(t.checkpointMsgs) + t.checkpointMsgCounter <= 1
    BY DEF CountersOK
  <2>3. Len(u.checkpointMsgs) = Len(t.checkpointMsgs)
    BY <1>1
  <2>4. u.checkpointMsgCounter \in {t.checkpointMsgCounter, t.checkpointMsgCounter - 1}
    <3>1. CASE t.log[i].ev \in CheckpointEvents
      BY <1>1, <3>1
    <3>2. CASE t.log[i].ev \notin CheckpointEvents
      BY <1>1, <2>1, <3>2
    <3> QED
      BY <3>1, <3>2
  <2> HIDE DEF CheckpointEvents
  <2> QED
    BY <2>1, <2>2, <2>3, <2>4
<1> QED
  BY <1>1, <1>3, <1>4, <1>5, <1>6 DEF CountersOK

LEMMA LeftCovered ==
  ASSUME NEW t \in TapRec, NEW c \in Seq(SentRec), NEW p \in Seq(AnswerRec), p # <<>>,
         StreamOK(t, c, p), t.connected, NEW i \in 1..Len(t.log), NEW u \in TapRec,
         Answers(t, p, i, u), NEW ts, NEW has, NEW x \in Kept(t, ts, c, p, has)
  PROVE  x \in Kept(u, ts, c, Tail(p), has)
<1> DEFINE r == t.log[i]
           q == Tail(p)
<1>1. /\ r \in ToSet(t.log) /\ r.seqno \in Nat
      /\ \A e \in ToSet(t.log) : e.seqno \in Nat
      /\ \A e : e \in ToSet(u.log) <=> e \in ToSet(t.log) /\ e.seqno > r.seqno
      /\ \A e \in ToSet(t.log) : e \in ToSet(u.log) \/ e = r \/ e.ev = "item"
      /\ \A a \in ToSet(p) : a = Head(p) \/ (a \in ToSet(q) /\ a.seqno > r.seqno)
      /\ \A m \in ToSet(c) : m.seqno > r.seqno
  BY LeftFacts
<1>2. /\ \A y : Queued(t, y) => Queued(u, y)
      /\ ~Head(p).ok => Queued(u, r.n)
      /\ r.seqno = Head(p).seqno
  BY DEF Answers
<1>3. t.log \in Seq(LogRec) /\ Increasing(t.log)
  BY DEF TapRec, StreamOK, LogOK
<1> HIDE DEF r, q
<1>4. CASE x \in InFlight(t, c, p)
  <2>1. x \in Nat
    BY <1>4 DEF InFlight
  <2>2. PICK e \in ToSet(t.log) :
          /\ e.ev = "item" /\ e.n = x
          /\ \/ \E m \in ToSet(c) : m.seqno = e.seqno
             \/ \E a \in ToSet(p) : a.seqno = e.seqno /\ ~a.ok
    BY <1>4 DEF InFlight
  <2>3. CASE \E m \in ToSet(c) : m.seqno = e.seqno
    <3>1. e \in ToSet(u.log)
      BY <1>1, <2>3
    <3>2. x \in InFlight(u, c, q)
      BY <2>1, <2>2, <2>3, <3>1 DEF InFlight
    <3> QED
      BY <3>2, KeptFacts DEF q
  <2>4. CASE \E a \in ToSet(p) : a.seqno = e.seqno /\ ~a.ok
    <3>1. PICK a \in ToSet(p) : a.seqno = e.seqno /\ ~a.ok
      BY <2>4
    <3>2. CASE a = Head(p)
      <4>1. e = r
        BY <1>1, <1>2, <1>3, <3>1, <3>2, NumberedFacts, SameNumber
      <4>2. Queued(u, x)
        BY <1>2, <2>2, <3>1, <3>2, <4>1
      <4> QED
        BY <4>2, KeptFacts DEF Queued
    <3>3. CASE a \in ToSet(q) /\ a.seqno > r.seqno
      <4>1. e \in ToSet(u.log)
        BY <1>1, <3>1, <3>3
      <4>2. x \in InFlight(u, c, q)
        BY <2>1, <2>2, <3>1, <3>3, <4>1 DEF InFlight
      <4> QED
        BY <4>2, KeptFacts DEF q
    <3> QED
      BY <1>1, <3>2, <3>3
  <2> QED
    BY <2>2, <2>3, <2>4
<1>5. CASE x \notin InFlight(t, c, p)
  <2>1. x \in has \/ Queued(t, x) \/ Comes(ts, x)
    BY <1>5, KeptFacts DEF Queued
  <2> QED
    BY <1>2, <2>1, KeptFacts DEF Queued
<1> QED
  BY <1>4, <1>5

LEMMA LeftPhases ==
  ASSUME NEW t \in TapRec, NEW c \in Seq(SentRec), NEW p \in Seq(AnswerRec), p # <<>>,
         StreamOK(t, c, p), t.connected, NEW i \in 1..Len(t.log), NEW u \in TapRec,
         Answers(t, p, i, u), CountersOK(t), CountersOK(u),
         NEW s, NEW cp, PhasesOK(s, t, c, cp)
  PROVE  PhasesOK(s, u, c, cp)
<1> DEFINE r == t.log[i]
<1>1. /\ r \in ToSet(t.log) /\ r \in LogRec /\ r.seqno \in Nat
      /\ \A e \in ToSet(t.log) : e.seqno \in Nat
      /\ \A e : e \in ToSet(u.log) <=> e \in ToSet(t.log) /\ e.seqno > r.seqno
      /\ \A e \in ToSet(t.log) : e \in ToSet(u.log) \/ e = r \/ e.ev = "item"
      /\ \A m \in ToSet(c) : m.seqno > r.seqno
  BY LeftFacts
<1>2. /\ u.exists = t.exists /\ u.connected = t.connected /\ u.high = t.high
      /\ u.checkpointMsgs = t.checkpointMsgs
      /\ u.backfillVBucket = t.backfillVBucket
      /\ u.checkpointMsgCounter =
           t.checkpointMsgCounter - (IF r.ev \in CheckpointEvents THEN 1 ELSE 0)
  BY DEF Answers, SameFlags
<1> HIDE DEF r
<1>3. Delivered(u, c) => Delivered(t, c)
  BY <1>1, <1>2 DEF Delivered
<1>4. StreamPending(u, c) <=> StreamPending(t, c)
  BY <1>2 DEF StreamPending
<1>5. CASE r.ev \notin CheckpointEvents
  <2>1. ASSUME NEW x
        PROVE  x \in Outstanding(u) <=> x \in Outstanding(t)
    <3>1. \A e \in ToSet(t.log) : e.ev \in CheckpointEvents => e \in ToSet(u.log)
      BY <1>1, <1>5, EventFacts
    <3> QED
      BY <1>1, <1>2, <3>1, OutstandingFacts
  <2>2. Outstanding(u) = Outstanding(t)
    BY <2>1
  <2> QED
    BY <1>2, <1>3, <1>4, <2>2, PhaseFrame
<1>6. CASE r.ev \in CheckpointEvents
  <2>1. t.checkpointMsgs = <<>> /\ u.checkpointMsgCounter = 0
    <3>1. t.checkpointMsgs \in Seq(MessageRec) /\ t.log \in Seq(LogRec) /\ u.log \in Seq(LogRec)
      BY DEF TapRec
    <3>2. Len(t.checkpointMsgs) \in Nat
      BY <3>1
    <3>3. /\ t.checkpointMsgCounter = Cardinality(Numbers(t.log, CheckpointEvents))
          /\ u.checkpointMsgCounter = Cardinality(Numbers(u.log, CheckpointEvents))
          /\ Len(t.checkpointMsgs) + t.checkpointMsgCounter <= 1
      BY DEF CountersOK
    <3>4. t.checkpointMsgCounter \in Nat /\ u.checkpointMsgCounter \in Nat
      BY <3>1, <3>3, NumbersFacts
    <3>5. u.checkpointMsgCounter = t.checkpointMsgCounter - 1
      BY <1>2, <1>6
    <3>6. Len(t.checkpointMsgs) = 0 /\ u.checkpointMsgCounter = 0
      BY <3>2, <3>3, <3>4, <3>5
    <3> QED
      BY <3>1, <3>6
  <2>2. \A e \in ToSet(u.log) : e.ev \notin CheckpointEvents
    BY <2>1, NoCheckpointLogged
  <2>3. Outstanding(u) = {}
    <3>1. ASSUME NEW x \in Outstanding(u)
          PROVE  FALSE
      BY <1>2, <2>1, <2>2, EmptySet, OutstandingFacts
    <3> QED
      BY <3>1
  <2>4. Delivered(t, c)
    BY <1>1, <1>6 DEF Delivered
  <2>5. Delivered(t, c) = TRUE
    BY <2>4 DEF Delivered
  <2>6. Outstanding(t) # {}
    BY <1>1, <1>6, OutstandingFacts
  <2>7. ASSUME cp.state # "active", u.exists, s.cursor # 0
        PROVE  PhaseOK(s.entries[s.cursor], Outstanding(u), Delivered(u, c), cp)
    <3>1. PhaseOK(s.entries[s.cursor], Outstanding(t), TRUE, cp)
      BY <1>2, <2>5, <2>7 DEF PhasesOK
    <3> QED
      BY <2>3, <3>1, PhaseAcked
  <2> QED
    BY <1>2, <1>4, <2>3, <2>6, <2>7 DEF PhasesOK
<1> QED
  BY <1>5, <1>6

LEMMA LeftSound ==
  ASSUME NEW s, NEW t \in TapRec, NEW ts, NEW c \in Seq(SentRec), NEW p \in Seq(AnswerRec),
         p # <<>>, NEW cp, NEW l, Sound(s, t, ts, c, p, cp, l), t.connected, t.seqno < Highest,
         NEW i \in 1..Len(t.log), NEW u \in TapRec, Answers(t, p, i, u)
  PROVE  Sound(s, u, ts, c, Tail(p), cp, l)
<1>1. /\ BackfillOK(t, ts, s.cursor) /\ StreamOK(t, c, p) /\ CountersOK(t)
      /\ CoveredOK(s, t, ts, c, p, cp) /\ PhasesOK(s, t, c, cp) /\ CopyOK(s.entries, cp)
      /\ ConfirmedOK(s, t, cp) /\ EndingOK(s, t, c, cp, l) /\ PendingOK(t, c, cp)
  BY DEF Sound
<1>2. /\ u.exists = t.exists /\ u.high = t.high /\ SameFlags(t, u)
      /\ u.backfillVBucket = t.backfillVBucket
  BY DEF Answers, SameFlags
<1>3. BackfillOK(u, ts, s.cursor)
  BY <1>1, <1>2, BackfillFrame
<1>4. StreamOK(u, c, Tail(p))
  BY <1>1, LeftStream
<1>5. CountersOK(u)
  BY <1>1, LeftCounters
<1>6. \A x : x \in Kept(t, ts, c, p, cp.has) => x \in Kept(u, ts, c, Tail(p), cp.has)
  BY <1>1, LeftCovered
<1>7. CoveredOK(s, u, ts, c, Tail(p), cp)
  BY <1>1, <1>2, <1>6, CoveredFrame
<1>8. PhasesOK(s, u, c, cp)
  BY <1>1, <1>5, LeftPhases
<1>9. ConfirmedOK(s, u, cp)
  BY <1>1, <1>2 DEF ConfirmedOK
<1>10. EndingOK(s, u, c, cp, l)
  <2>1. \A e \in ToSet(u.log) : e \in ToSet(t.log)
    BY <1>1, LeftFacts
  <2>2. Announced(u) => Announced(t)
    BY <1>2, <2>1 DEF Announced, InLog
  <2> QED
    BY <1>1, <2>2 DEF EndingOK
<1>11. PendingOK(u, c, cp)
  BY <1>1, <1>2, PendingFrame
<1> QED
  BY <1>1, <1>3, <1>4, <1>5, <1>7, <1>8, <1>9, <1>10, <1>11 DEF Sound

\* The answer is for a message that is in the log.
LEMMA AnswerIsLogged ==
  ASSUME NEW t \in TapRec, NEW c, NEW p \in Seq(AnswerRec), p # <<>>, StreamOK(t, c, p)
  PROVE  /\ \E i \in 1..Len(t.log) : t.log[i].seqno = Head(p).seqno
         /\ ~Head(p).ok => \A i \in 1..Len(t.log) :
                             t.log[i].seqno = Head(p).seqno => t.log[i].ev = "item"
<1>1. t.log \in Seq(LogRec) /\ Increasing(t.log)
  BY DEF TapRec, StreamOK, LogOK
<1>2. Head(p) \in ToSet(p)
  BY NumberedFacts, FirstFacts DEF StreamOK, AnsweredOK
<1>3. PICK e \in ToSet(t.log) : e.seqno = Head(p).seqno /\ (~Head(p).ok => e.ev = "item")
  BY <1>2 DEF StreamOK, AnsweredOK
<1>4. \E i \in 1..Len(t.log) : t.log[i] = e
  BY <1>1, ToSetFacts
<1>5. ASSUME NEW i \in 1..Len(t.log), t.log[i].seqno = Head(p).seqno
      PROVE  t.log[i] = e
  <2>1. t.log[i] \in ToSet(t.log)
    BY <1>1, ToSetFacts
  <2> QED
    BY <1>1, <1>3, <1>5, <2>1, NumberedFacts, SameNumber
<1> QED
  BY <1>3, <1>4, <1>5

LEMMA ReceiveAckSound ==
  ASSUME Before, ReceiveAck
  PROVE  Afterwards
<1>1. /\ TypeOK /\ Sound(src, tap, tasks, toC, toP, copy, lapse)
      /\ tap \in TapRec /\ toC \in Seq(SentRec) /\ toP \in Seq(AnswerRec) /\ tap.seqno < Highest
  BY BeforeFacts
<1>2. src' = src /\ tasks' = tasks /\ toC' = toC /\ copy' = copy /\ lapse' = lapse
  BY DEF ReceiveAck
<1>3. /\ tap.connected /\ toP # <<>> /\ Head(toP).ok /\ toP' = Tail(toP)
  BY <1>1, ReceiveAckFacts
<1>4. PICK x \in TapRec :
        /\ tap' = DisconnectIfIdle(CheckBackfill(x), src)
        /\ \/ \A i \in 1..Len(tap.log) : tap.log[i].seqno # Head(toP).seqno
           \/ \E i \in 1..Len(tap.log) : tap.log[i].seqno = Head(toP).seqno /\ Acked(tap, i, x)
  BY <1>1, ReceiveAckFacts
<1>5. StreamOK(tap, toC, toP)
  BY <1>1 DEF Sound
<1>6. \E i \in 1..Len(tap.log) : tap.log[i].seqno = Head(toP).seqno
  BY <1>1, <1>3, <1>5, AnswerIsLogged
<1>7. PICK i \in 1..Len(tap.log) : tap.log[i].seqno = Head(toP).seqno /\ Acked(tap, i, x)
  BY <1>4, <1>6
<1>8. Answers(tap, toP, i, x)
  <2>1. ~tap.isSeqNumRotated
    BY <1>5 DEF StreamOK, AckedOK
  <2>2. tap.log[i].seqno \in Nat /\ 1 <= tap.log[i].seqno
    <3>1. tap.log[i] \in ToSet(tap.log) /\ tap.log[i] \in LogRec
      BY <1>1, ToSetFacts DEF TapRec
    <3> QED
      BY <1>5, <3>1 DEF StreamOK, LogOK, LogRec
  <2>3. SeqnoAcked(x) <= tap.log[i].seqno
    BY <1>7, <2>2 DEF Acked, SeqnoAcked
  <2>4. \A y : Queued(tap, y) => Queued(x, y)
    BY <1>7 DEF Acked, Queued, SameQueues
  <2> QED
    BY <1>3, <1>7, <2>1, <2>3, <2>4 DEF Answers, Acked, Unanswered
<1>9. Sound(src, x, tasks, toC, Tail(toP), copy, lapse)
  BY <1>1, <1>3, <1>8, LeftSound
<1>10. Sound(src, CheckBackfill(x), tasks, toC, Tail(toP), copy, lapse)
  BY <1>9, CheckBackfillSound
<1>11. CheckBackfill(x) \in TapRec
  BY CheckBackfillFacts
<1>12. Sound(src, tap', tasks, toC, Tail(toP), copy, lapse)
  BY <1>4, <1>10, <1>11, DisconnectSound
<1> QED
  BY <1>2, <1>3, <1>12 DEF Afterwards

LEMMA ReceiveNackSound ==
  ASSUME Before, ReceiveNack
  PROVE  Afterwards
<1>1. /\ TypeOK /\ Sound(src, tap, tasks, toC, toP, copy, lapse)
      /\ tap \in TapRec /\ toC \in Seq(SentRec) /\ toP \in Seq(AnswerRec) /\ tap.seqno < Highest
  BY BeforeFacts
<1>2. src' = src /\ tasks' = tasks /\ toC' = toC /\ copy' = copy /\ lapse' = lapse
  BY DEF ReceiveNack
<1>3. /\ tap.connected /\ toP # <<>> /\ ~Head(toP).ok /\ toP' = Tail(toP) /\ tap' \in TapRec
      /\ \/ \A i \in 1..Len(tap.log) : tap.log[i].seqno # Head(toP).seqno
         \/ \E i \in 1..Len(tap.log) :
              /\ tap.log[i].seqno = Head(toP).seqno
              /\ tap.log[i].ev = "item" => Refused(tap, i, tap')
  BY <1>1, ReceiveNackFacts
<1>4. StreamOK(tap, toC, toP)
  BY <1>1 DEF Sound
<1>5. /\ \E i \in 1..Len(tap.log) : tap.log[i].seqno = Head(toP).seqno
      /\ \A i \in 1..Len(tap.log) : tap.log[i].seqno = Head(toP).seqno => tap.log[i].ev = "item"
  BY <1>1, <1>3, <1>4, AnswerIsLogged
<1>6. PICK i \in 1..Len(tap.log) : /\ tap.log[i].seqno = Head(toP).seqno
                                   /\ tap.log[i].ev = "item" /\ Refused(tap, i, tap')
  BY <1>3, <1>5
<1>7. Answers(tap, toP, i, tap')
  <2>1. ~tap.isSeqNumRotated
    BY <1>4 DEF StreamOK, AckedOK
  <2>2. /\ tap.log[i].seqno \in Nat /\ 1 <= tap.log[i].seqno /\ tap.log[i].n \in Nat
    <3>1. tap.log[i] \in ToSet(tap.log) /\ tap.log[i] \in LogRec
      BY <1>1, ToSetFacts DEF TapRec
    <3> QED
      BY <1>4, <3>1 DEF StreamOK, LogOK, LogRec
  <2>3. SeqnoAcked(tap') <= tap.log[i].seqno
    BY <1>6, <2>2 DEF Refused, SeqnoAcked
  <2>4. tap.queue \in Seq(Nat)
    BY <1>1 DEF TapRec
  <2>5. ToSet(tap'.queue) = ToSet(tap.queue) \cup {tap.log[i].n}
    <3> DEFINE old == tap.queue
               n == tap.log[i].n
    <3>1. tap'.queue = Append(old, n)
      BY <1>6 DEF Refused
    <3> HIDE DEF old, n
    <3>2. old \in Seq(Nat) /\ n \in Nat
      BY <2>2, <2>4 DEF old, n
    <3>3. ToSet(Append(old, n)) = ToSet(old) \cup {n}
      BY <3>2, AppendFacts
    <3> QED
      BY <3>1, <3>3 DEF old, n
  <2>6. tap'.fetched = tap.fetched /\ tap'.jobs = tap.jobs
    BY <1>6 DEF Refused, Unanswered
  <2>7. (\A y : Queued(tap, y) => Queued(tap', y)) /\ Queued(tap', tap.log[i].n)
    BY <2>5, <2>6 DEF Queued
  <2>8. tap.log[i].ev \notin Opaques /\ tap.log[i].ev \notin CheckpointEvents
    BY <1>6, EventFacts
  <2>9. /\ tap'.opaqueMsgCounter = tap.opaqueMsgCounter /\ tap'.high = tap.high
        /\ tap'.checkpointMsgs = tap.checkpointMsgs
        /\ tap'.checkpointMsgCounter = tap.checkpointMsgCounter
    BY <1>6 DEF Refused, SameHigh, SameMessages
  <2>10. tap.opaqueMsgCounter \in Int /\ tap.checkpointMsgCounter \in Int
    BY <1>1 DEF TapRec
  <2>11. /\ tap'.opaqueMsgCounter = tap.opaqueMsgCounter - (IF tap.log[i].ev \in Opaques THEN 1 ELSE 0)
         /\ tap'.checkpointMsgCounter =
              tap.checkpointMsgCounter - (IF tap.log[i].ev \in CheckpointEvents THEN 1 ELSE 0)
    BY <2>8, <2>9, <2>10
  <2> QED
    BY <1>6, <2>1, <2>3, <2>7, <2>9, <2>11 DEF Answers, Refused, Unanswered
<1>8. Sound(src, tap', tasks, toC, Tail(toP), copy, lapse)
  BY <1>1, <1>3, <1>7, LeftSound
<1> QED
  BY <1>2, <1>3, <1>8 DEF Afterwards

-----------------------------------------------------------------------------
(***************************************************************************)
(* The invariant and the consumer.                                         *)
(***************************************************************************)
\* The message m arrives.
Arrival(m) ==
  /\ m \in SentRec /\ m \in ToSet(toC) /\ tap.connected /\ m.seqno \in Nat
  /\ \A k \in ToSet(toC) : k = m \/ k \in ToSet(toC')
  /\ \A k \in ToSet(toC') : k \in ToSet(toC) /\ k.seqno > m.seqno
  /\ Increasing(toC') /\ toC' \in Seq(SentRec)
  /\ \E e \in ToSet(tap.log) : e.seqno = m.seqno /\ e.ev = m.ev /\ e.n = m.n
  /\ \A e \in ToSet(tap.log) : e.seqno = m.seqno => e.ev = m.ev /\ e.n = m.n
  /\ toP' \in Seq(AnswerRec)
  /\ \/ /\ Applies(copy, m, copy')
        /\ m.ack => Reply(m, TRUE, toP')
        /\ ~m.ack => toP' = toP
     \/ m.ev = "item" /\ copy' = copy /\ Reply(m, FALSE, toP')

LEMMA ArrivalFacts ==
  ASSUME Before, Receive
  PROVE  Arrival(Head(toC))
<1> DEFINE m == Head(toC)
<1>1. /\ TypeOK /\ Sound(src, tap, tasks, toC, toP, copy, lapse)
      /\ tap \in TapRec /\ toC \in Seq(SentRec)
  BY BeforeFacts
<1>2. StreamOK(tap, toC, toP)
  BY <1>1 DEF Sound
<1>3. /\ toC # <<>> /\ toC' = Tail(toC) /\ toC' \in Seq(SentRec)
      /\ m \in SentRec /\ m \in ToSet(toC) /\ toP' \in Seq(AnswerRec)
      /\ \/ /\ Applies(copy, m, copy')
            /\ m.ack => Reply(m, TRUE, toP')
            /\ ~m.ack => toP' = toP
         \/ m.ev = "item" /\ copy' = copy /\ Reply(m, FALSE, toP')
  BY <1>1, ReceiveFacts
<1>4. Increasing(toC)
  BY <1>2 DEF StreamOK, SentOK
<1>5. /\ Increasing(Tail(toC))
      /\ \A x : x \in ToSet(Tail(toC)) <=> x \in ToSet(toC) /\ x.seqno > m.seqno
      /\ \A x \in ToSet(toC) : x = m \/ x \in ToSet(Tail(toC))
  BY <1>1, <1>3, <1>4, NumberedFacts, FirstFacts
<1>6. /\ tap.connected
      /\ \E e \in ToSet(tap.log) : e.seqno = m.seqno /\ e.ev = m.ev /\ e.n = m.n
      /\ \A e \in ToSet(tap.log) : e.seqno = m.seqno => e.ev = m.ev /\ e.n = m.n
  BY <1>1, <1>2, <1>3, SentIsLogged
<1>7. m.seqno \in Nat
  BY <1>3 DEF SentRec
<1> HIDE DEF m
<1>8. Arrival(m)
  BY <1>3, <1>5, <1>6, <1>7 DEF Arrival
<1> QED
  BY <1>8 DEF m

\* What it says of the answers.
LEMMA ArrivalAnswers ==
  ASSUME NEW m, Arrival(m), Before
  PROVE  /\ Increasing(toP')
         /\ \A a \in ToSet(toP') : a \in ToSet(toP) \/ (a.seqno = m.seqno /\ (~a.ok => m.ev = "item"))
         /\ \A a \in ToSet(toP) : a \in ToSet(toP')
         /\ m.ack => \E a \in ToSet(toP') : a.seqno = m.seqno
         /\ \/ Applies(copy, m, copy')
            \/ /\ copy' = copy /\ m.ev = "item"
               /\ \E a \in ToSet(toP') : a.seqno = m.seqno /\ ~a.ok
<1>1. /\ Sound(src, tap, tasks, toC, toP, copy, lapse) /\ toP \in Seq(AnswerRec)
  BY BeforeFacts
<1>2. AnsweredOK(tap, toC, toP)
  BY <1>1 DEF Sound, StreamOK
<1>3. Increasing(toP) /\ \A a \in ToSet(toP) : a.seqno < m.seqno
  BY <1>2 DEF AnsweredOK, Arrival
<1>4. ASSUME NEW ok \in BOOLEAN, Reply(m, ok, toP')
      PROVE  /\ Increasing(toP')
             /\ \E a \in ToSet(toP') : a.seqno = m.seqno /\ a.ok = ok
             /\ \A a \in ToSet(toP') : a \in ToSet(toP) \/ (a.seqno = m.seqno /\ a.ok = ok)
             /\ \A a \in ToSet(toP) : a \in ToSet(toP')
  <2>1. PICK a \in AnswerRec : a.seqno = m.seqno /\ a.ok = ok /\ toP' = Append(toP, a)
    BY <1>4 DEF Reply
  <2>2. ToSet(Append(toP, a)) = ToSet(toP) \cup {a}
    BY <1>1, AppendFacts
  <2>3. Increasing(Append(toP, a))
    BY <1>1, <1>3, <2>1, NumberedFacts, IncreasingAppend
  <2> QED
    BY <2>1, <2>2, <2>3
<1>5. CASE m.ev = "item" /\ copy' = copy /\ Reply(m, FALSE, toP')
  BY <1>4, <1>5
<1>6. CASE Applies(copy, m, copy') /\ m.ack /\ Reply(m, TRUE, toP')
  BY <1>4, <1>6
<1>7. CASE Applies(copy, m, copy') /\ ~m.ack /\ toP' = toP
  BY <1>3, <1>7
<1> QED
  BY <1>5, <1>6, <1>7 DEF Arrival

LEMMA ArrivalStream ==
  ASSUME Before, NEW m, Arrival(m)
  PROVE  StreamOK(tap, toC', toP')
<1>1. /\ Sound(src, tap, tasks, toC, toP, copy, lapse)
      /\ tap \in TapRec /\ toC \in Seq(SentRec) /\ toP \in Seq(AnswerRec)
  BY BeforeFacts
<1>2. (tap.connected => tap.exists)
      /\ LogOK(tap) /\ SentOK(tap, toC) /\ AnsweredOK(tap, toC, toP) /\ Awaited(tap, toC, toP)
      /\ AckedOK(tap)
  BY <1>1 DEF Sound, StreamOK
<1>3. /\ Increasing(toP')
      /\ \A a \in ToSet(toP') : a \in ToSet(toP) \/ (a.seqno = m.seqno /\ (~a.ok => m.ev = "item"))
      /\ \A a \in ToSet(toP) : a \in ToSet(toP')
      /\ m.ack => \E a \in ToSet(toP') : a.seqno = m.seqno
  BY ArrivalAnswers
<1>4. /\ tap.connected /\ m.seqno \in Nat
      /\ \A k \in ToSet(toC) : k = m \/ k \in ToSet(toC')
      /\ \A k \in ToSet(toC') : k \in ToSet(toC) /\ k.seqno > m.seqno
      /\ Increasing(toC') /\ m \in ToSet(toC)
      /\ \E e \in ToSet(tap.log) : e.seqno = m.seqno /\ e.ev = m.ev /\ e.n = m.n
      /\ \A e \in ToSet(tap.log) : e.seqno = m.seqno => e.ev = m.ev /\ e.n = m.n
  BY DEF Arrival
<1>5. SentOK(tap, toC')
  BY <1>2, <1>4 DEF SentOK
<1>6. AnsweredOK(tap, toC', toP')
  <2>1. ASSUME NEW a \in ToSet(toP')
        PROVE  /\ \E e \in ToSet(tap.log) : e.seqno = a.seqno /\ (~a.ok => e.ev = "item")
               /\ \A k \in ToSet(toC') : a.seqno < k.seqno
    <3>1. CASE a \in ToSet(toP)
      BY <1>2, <1>4, <3>1 DEF AnsweredOK
    <3>2. CASE a.seqno = m.seqno /\ (~a.ok => m.ev = "item")
      <4>1. \E e \in ToSet(tap.log) : e.seqno = a.seqno /\ (~a.ok => e.ev = "item")
        BY <1>4, <3>2
      <4>2. ASSUME NEW k \in ToSet(toC')
            PROVE  a.seqno < k.seqno
        <5>1. k.seqno > m.seqno /\ k \in ToSet(toC)
          BY <1>4
        <5>2. k \in SentRec
          BY <1>1, <5>1, ToSetFacts
        <5>3. k.seqno \in Nat
          BY <5>2 DEF SentRec
        <5> QED
          BY <1>4, <3>2, <5>1, <5>3
      <4> QED
        BY <4>1, <4>2
    <3> QED
      BY <1>3, <3>1, <3>2
  <2> QED
    BY <1>3, <1>4, <2>1 DEF AnsweredOK
<1>7. Awaited(tap, toC', toP')
  <2>1. ASSUME NEW e \in ToSet(tap.log), e.ev # "item"
        PROVE  \/ \E k \in ToSet(toC') : k.seqno = e.seqno /\ k.ack
               \/ \E a \in ToSet(toP') : a.seqno = e.seqno
    <3>1. \/ \E k \in ToSet(toC) : k.seqno = e.seqno /\ k.ack
          \/ \E a \in ToSet(toP) : a.seqno = e.seqno
      BY <1>2, <1>4, <2>1 DEF Awaited
    <3> QED
      BY <1>3, <1>4, <3>1
  <2> QED
    BY <2>1 DEF Awaited
<1> QED
  BY <1>2, <1>5, <1>6, <1>7 DEF StreamOK

\* A checkpoint message arrives only as the copy is in the phase for it.
CheckpointArrives(m, e) ==
  /\ tap.exists /\ src.cursor # 0 /\ ~tap.backfillVBucket
  /\ Outstanding(tap) = {Message(m.ev, m.n)}
  /\ \/ /\ m.ev = "start" /\ e.ev = "start" /\ m.n = e.chk
     \/ /\ m.ev = "end" /\ e.ev = "end" /\ m.n = e.chk /\ copy.open = e.chk
     \/ /\ m.ev = "end" /\ e.ev = "dummy" /\ m.n = e.chk - 1 /\ copy.open = e.chk - 1 /\ copy.closed

LEMMA CheckpointPhase ==
  ASSUME Before, NEW m, Arrival(m), m.ev \in CheckpointEvents, copy.state # "active"
  PROVE  CheckpointArrives(m, src.entries[src.cursor])
<1> DEFINE e == src.entries[src.cursor]
<1>1. /\ Sound(src, tap, tasks, toC, toP, copy, lapse) /\ tap \in TapRec
  BY BeforeFacts
<1>2. /\ BackfillOK(tap, tasks, src.cursor) /\ StreamOK(tap, toC, toP)
      /\ PhasesOK(src, tap, toC, copy)
  BY <1>1 DEF Sound
<1>3. Message(m.ev, m.n) \in Outstanding(tap)
  BY OutstandingFacts DEF Arrival
<1>4. tap.exists
  BY <1>2 DEF StreamOK, Arrival
<1>5. ~tap.backfillVBucket
  BY <1>2, <1>3 DEF PhasesOK
<1>6. src.cursor # 0
  BY <1>2, <1>4, <1>5 DEF BackfillOK, Unvisited
<1>7. PhaseOK(e, Outstanding(tap), Delivered(tap, toC), copy)
  BY <1>2, <1>4, <1>6 DEF PhasesOK
<1>8. \A ev, n : Message(ev, n) = Message(m.ev, m.n) => ev = m.ev /\ n = m.n
  BY DEF Message
<1> HIDE DEF e
<1>9. \/ /\ e.ev = "dummy" /\ Outstanding(tap) = {Message("end", e.chk - 1)}
         /\ copy.open = e.chk - 1 /\ copy.closed
      \/ e.ev = "start" /\ Outstanding(tap) = {Message("start", e.chk)}
      \/ e.ev = "end" /\ Outstanding(tap) = {Message("end", e.chk)} /\ copy.open = e.chk
  BY <1>3, <1>7 DEF PhaseOK
<1>10. \/ /\ e.ev = "dummy" /\ m.ev = "end" /\ m.n = e.chk - 1
          /\ copy.open = e.chk - 1 /\ copy.closed
       \/ e.ev = "start" /\ m.ev = "start" /\ m.n = e.chk
       \/ e.ev = "end" /\ m.ev = "end" /\ m.n = e.chk /\ copy.open = e.chk
  BY <1>3, <1>8, <1>9
<1>11. Outstanding(tap) = {Message(m.ev, m.n)}
  BY <1>3, <1>9
<1>12. CheckpointArrives(m, e)
  BY <1>4, <1>5, <1>6, <1>10, <1>11 DEF CheckpointArrives
<1> QED
  BY <1>12 DEF e

\* What a message does to the copy: forgets all, when there is no cursor and nothing to end...
LEMMA StreamBegins ==
  ASSUME Before, NEW m, Arrival(m), m.ev = "initial_stream"
  PROVE  /\ src.cursor = 0 /\ tap.backfillVBucket /\ ~Ending(toC, copy)
         /\ copy'.has = {} /\ copy'.open = 0 /\ ~copy'.closed /\ copy'.state = copy.state
<1>1. /\ Sound(src, tap, tasks, toC, toP, copy, lapse)
  BY BeforeFacts
<1>2. Announced(tap)
  BY DEF Announced, InLog, Arrival
<1>3. src.cursor = 0 /\ tap.backfillVBucket
  BY <1>1, <1>2 DEF Sound, CountersOK, BackfillOK
<1>4. ~Ending(toC, copy)
  BY <1>1, <1>2 DEF Sound, EndingOK
<1>5. Applies(copy, m, copy')
  BY DEF Arrival
<1> QED
  BY <1>3, <1>4, <1>5 DEF Applies

\* ... and otherwise leaves it what it has, with at most another checkpoint or state.
LEMMA CopyKeeps ==
  ASSUME Before, NEW m, Arrival(m), m.ev # "initial_stream"
  PROVE  /\ copy.has \subseteq copy'.has
         /\ \/ copy'.open = copy.open /\ copy'.closed = copy.closed
            \/ /\ m.ev = "start" /\ copy.state # "active" /\ copy'.open = m.n /\ ~copy'.closed
               /\ copy'.has = copy.has
            \/ /\ m.ev = "end" /\ copy.state # "active" /\ copy'.open = copy.open
               /\ (copy'.closed <=> copy.closed \/ copy.open = m.n) /\ copy'.has = copy.has
<1>1. CASE copy' = copy
  BY <1>1
<1>2. CASE Applies(copy, m, copy')
  <2>1. CASE m.ev = "start"
    BY <1>2, <2>1, <1>1 DEF Applies, CheckpointEvents
  <2>2. CASE m.ev = "end"
    BY <1>2, <2>2, <1>1 DEF Applies, CheckpointEvents
  <2>3. CASE m.ev = "item"
    BY <1>2, <2>3 DEF Applies
  <2>4. CASE m.ev \notin {"initial_stream", "start", "end", "item"}
    BY <1>2, <2>4 DEF Applies
  <2> QED
    BY <2>1, <2>2, <2>3, <2>4
<1> QED
  BY <1>1, <1>2 DEF Arrival

LEMMA StateKeeps ==
  ASSUME Before, NEW m, Arrival(m)
  PROVE  /\ copy'.state # "active" => copy.state # "active"
         /\ copy'.state = "active" => copy.state = "active" \/ m.ev = "set_active"
<1>1. /\ Sound(src, tap, tasks, toC, toP, copy, lapse)
  BY BeforeFacts
<1>2. PendingOK(tap, toC, copy)
  BY <1>1 DEF Sound
<1>3. m.ev = "set_pending" => copy.state # "active"
  BY <1>2 DEF PendingOK, Arrival
<1>4. CASE copy' = copy
  BY <1>4
<1>5. CASE Applies(copy, m, copy')
  <2>1. CASE m.ev \in CheckpointEvents
    BY <1>4, <1>5, <2>1 DEF Applies, CheckpointEvents
  <2>2. CASE m.ev \in {"initial_stream", "item"}
    BY <1>5, <2>2 DEF Applies
  <2>3. CASE m.ev \notin {"initial_stream", "start", "end", "item"}
    BY <1>3, <1>5, <2>3 DEF Applies
  <2> QED
    BY <2>1, <2>2, <2>3 DEF CheckpointEvents
<1> QED
  BY <1>4, <1>5 DEF Arrival

\* The copy's checkpoint and the entry under the cursor, before and after the message.
LEMMA ArrivalCheckpoint ==
  ASSUME Before, NEW m, Arrival(m), m.ev \in CheckpointEvents, copy.state # "active"
  PROVE  LET E == src.entries
             e == E[src.cursor]
         IN  /\ CheckpointArrives(m, e)
             /\ Good(E) /\ src.cursor \in 1..Len(E) /\ e \in EntryRec
             /\ copy'.has = copy.has
             /\ \/ e.ev = "start" /\ copy'.open = e.chk /\ ~copy'.closed
                \/ e.ev = "end" /\ copy'.open = e.chk /\ copy'.closed
                \/ /\ e.ev = "dummy" /\ copy'.open = copy.open /\ copy'.closed /\ copy.closed
                   /\ copy.open = e.chk - 1
<1> DEFINE E == src.entries
           e == E[src.cursor]
<1>1. /\ TypeOK /\ EntriesInv /\ copy \in CopyRec
  BY BeforeFacts
<1>2. CheckpointArrives(m, e)
  BY CheckpointPhase
<1>3. Good(E) /\ src.cursor \in 0..Len(E)
  BY <1>1, SourceFacts
<1>4. src.cursor \in 1..Len(E)
  BY <1>2, <1>3 DEF CheckpointArrives
<1>5. e \in EntryRec
  BY <1>3, <1>4, EntryFacts
<1> HIDE DEF e
<1>6. Applies(copy, m, copy')
  BY EventFacts DEF Arrival
<1>7. CASE m.ev = "start" /\ e.ev = "start" /\ m.n = e.chk
  <2>1. copy'.open = m.n /\ ~copy'.closed /\ copy'.has = copy.has
    BY <1>6, <1>7 DEF Applies
  <2> QED
    BY <1>2, <1>3, <1>4, <1>5, <1>7, <2>1 DEF e
<1>8. CASE m.ev = "end"
  <2>1. copy'.open = copy.open /\ (copy'.closed <=> copy.closed \/ copy.open = m.n)
        /\ copy'.has = copy.has
    BY <1>6, <1>8 DEF Applies
  <2>2. \/ e.ev = "end" /\ m.n = e.chk /\ copy.open = e.chk
        \/ e.ev = "dummy" /\ m.n = e.chk - 1 /\ copy.open = e.chk - 1 /\ copy.closed
    BY <1>2, <1>8 DEF CheckpointArrives
  <2> QED
    BY <1>2, <1>3, <1>4, <1>5, <2>1, <2>2 DEF e
<1> QED
  BY <1>2, <1>7, <1>8 DEF CheckpointArrives

LEMMA ArrivalCopy ==
  ASSUME Before, NEW m, Arrival(m)
  PROVE  CopyOK(src.entries, copy')
<1> DEFINE E == src.entries
<1>1. /\ TypeOK /\ EntriesInv /\ Sound(src, tap, tasks, toC, toP, copy, lapse)
  BY BeforeFacts
<1>2. CopyOK(E, copy)
  BY <1>1 DEF Sound
<1>3. Good(E)
  BY <1>1, SourceFacts
<1>4. CASE m.ev = "initial_stream"
  BY <1>4, StreamBegins DEF CopyOK
<1>5. CASE copy'.open = copy.open /\ copy'.closed = copy.closed
  BY <1>2, <1>5 DEF CopyOK
<1>6. CASE m.ev \in CheckpointEvents /\ copy.state # "active"
  <2> DEFINE e == E[src.cursor]
  <2>1. /\ src.cursor \in 1..Len(E)
        /\ \/ e.ev = "start" /\ copy'.open = e.chk /\ ~copy'.closed
           \/ e.ev = "end" /\ copy'.open = e.chk /\ copy'.closed
           \/ /\ e.ev = "dummy" /\ copy'.open = copy.open /\ copy'.closed /\ copy.closed
    BY <1>6, ArrivalCheckpoint
  <2>2. /\ e.chk \in Nat /\ 2 <= e.chk /\ e.chk <= Newest(E) /\ Newest(E) \in Nat
        /\ e.ev = "end" => e.chk < Newest(E)
    BY <1>3, <2>1, EntryFacts
  <2> HIDE DEF e
  <2>3. CASE e.ev = "start" /\ copy'.open = e.chk /\ ~copy'.closed
    BY <2>2, <2>3 DEF CopyOK
  <2>4. CASE e.ev = "end" /\ copy'.open = e.chk /\ copy'.closed
    <3>1. e.chk < Newest(E) /\ e.chk # 0
      BY <2>2, <2>4
    <3> QED
      BY <2>2, <2>4, <3>1 DEF CopyOK
  <2>5. CASE copy'.open = copy.open /\ copy'.closed /\ copy.closed
    BY <1>2, <2>5 DEF CopyOK
  <2> QED
    BY <2>1, <2>3, <2>4, <2>5
<1> QED
  BY <1>4, <1>5, <1>6, CopyKeeps DEF CheckpointEvents

LEMMA ArrivalPhases ==
  ASSUME Before, NEW m, Arrival(m)
  PROVE  PhasesOK(src, tap, toC', copy')
<1>1. /\ Sound(src, tap, tasks, toC, toP, copy, lapse)
  BY BeforeFacts
<1>2. PhasesOK(src, tap, toC, copy)
  BY <1>1 DEF Sound
<1>3. copy'.state # "active" => copy.state # "active"
  BY StateKeeps
<1>4. /\ \A k \in ToSet(toC) : k = m \/ k \in ToSet(toC')
      /\ \A k \in ToSet(toC') : k \in ToSet(toC)
      /\ \A e \in ToSet(tap.log) : e.seqno = m.seqno => e.ev = m.ev
      /\ tap.connected
  BY DEF Arrival
<1>5. CASE m.ev = "initial_stream"
  <2>1. /\ src.cursor = 0 /\ copy'.open = 0 /\ ~copy'.closed
    BY <1>5, StreamBegins
  <2> QED
    BY <1>2, <1>3, <2>1 DEF PhasesOK
<1>6. CASE m.ev \in CheckpointEvents /\ copy.state # "active"
  <2> DEFINE e == src.entries[src.cursor]
  <2>1. /\ CheckpointArrives(m, e) /\ e \in EntryRec
        /\ \/ e.ev = "start" /\ copy'.open = e.chk /\ ~copy'.closed
           \/ e.ev = "end" /\ copy'.open = e.chk /\ copy'.closed
           \/ /\ e.ev = "dummy" /\ copy'.open = copy.open /\ copy'.closed /\ copy.closed
              /\ copy.open = e.chk - 1
    BY <1>6, ArrivalCheckpoint
  <2> HIDE DEF e
  <2>2. /\ ~tap.backfillVBucket /\ Outstanding(tap) = {Message(m.ev, m.n)}
        /\ \/ m.ev = "start" /\ e.ev = "start" /\ m.n = e.chk
           \/ m.ev = "end" /\ e.ev = "end" /\ m.n = e.chk
           \/ m.ev = "end" /\ e.ev = "dummy" /\ m.n = e.chk - 1
    BY <2>1 DEF CheckpointArrives
  <2>3. CASE e.ev = "start"
    <3>1. Outstanding(tap) = {Message("start", e.chk)} /\ copy'.open = e.chk /\ ~copy'.closed
      BY <2>1, <2>2, <2>3
    <3>2. PhaseOK(e, Outstanding(tap), Delivered(tap, toC'), copy')
      BY <2>3, <3>1 DEF PhaseOK, Fresh
    <3> QED
      BY <2>2, <3>2 DEF PhasesOK, e
  <2>4. CASE e.ev = "end"
    <3>1. Outstanding(tap) = {Message("end", e.chk)} /\ copy'.open = e.chk /\ copy'.closed
      BY <2>1, <2>2, <2>4
    <3>2. PhaseOK(e, Outstanding(tap), Delivered(tap, toC'), copy')
      BY <2>4, <3>1 DEF PhaseOK
    <3> QED
      BY <2>2, <3>2 DEF PhasesOK, e
  <2>5. CASE e.ev = "dummy"
    <3>1. Outstanding(tap) = {Message("end", e.chk - 1)} /\ copy'.open = e.chk - 1 /\ copy'.closed
      BY <2>1, <2>2, <2>5
    <3>2. PhaseOK(e, Outstanding(tap), Delivered(tap, toC'), copy')
      BY <2>5, <3>1 DEF PhaseOK, Fresh
    <3> QED
      BY <2>2, <3>2 DEF PhasesOK, e
  <2> QED
    BY <2>1, <2>3, <2>4, <2>5
<1>7. CASE m.ev \notin CheckpointEvents /\ m.ev # "initial_stream"
  <2>1. copy'.open = copy.open /\ copy'.closed = copy.closed
    BY <1>7, CopyKeeps DEF CheckpointEvents
  <2>2. Delivered(tap, toC') => Delivered(tap, toC)
    <3>1. ASSUME NEW e \in ToSet(tap.log), e.ev \in CheckpointEvents,
                 \A k \in ToSet(toC') : k.seqno # e.seqno
          PROVE  \A k \in ToSet(toC) : k.seqno # e.seqno
      BY <1>4, <1>7, <3>1
    <3> QED
      BY <3>1 DEF Delivered
  <2>3. StreamPending(tap, toC) => StreamPending(tap, toC')
    BY <1>4, <1>7 DEF StreamPending
  <2> QED
    BY <1>2, <1>3, <2>1, <2>2, <2>3, PhaseFrame
<1>8. CASE copy.state = "active"
  BY <1>3, <1>8 DEF PhasesOK
<1> QED
  BY <1>5, <1>6, <1>7, <1>8

\* An item that a closed checkpoint does not take is one that the copy has.
LEMMA DroppedItem ==
  ASSUME Before, NEW m, Arrival(m), m.ev = "item", copy.state # "active", copy.closed,
         src.cursor # 0
  PROVE  Items(src.entries, src.cursor) \subseteq copy.has
<1> DEFINE e == src.entries[src.cursor]
<1>1. /\ Sound(src, tap, tasks, toC, toP, copy, lapse)
      /\ tap \in TapRec /\ toC \in Seq(SentRec)
  BY BeforeFacts
<1>2. /\ BackfillOK(tap, tasks, src.cursor) /\ StreamOK(tap, toC, toP) /\ CountersOK(tap)
      /\ PhasesOK(src, tap, toC, copy) /\ ConfirmedOK(src, tap, copy)
  BY <1>1 DEF Sound
<1>3. tap.exists
  BY <1>2 DEF StreamOK, Arrival
<1>4. ~StreamPending(tap, toC)
  <2>1. ~Announced(tap)
    BY <1>2 DEF CountersOK, BackfillOK
  <2> QED
    BY <1>1, <1>2, <2>1, StreamAnnounced
<1>5. ~tap.backfillVBucket
  BY <1>2, <1>4 DEF PhasesOK
<1>6. PhaseOK(e, Outstanding(tap), Delivered(tap, toC), copy)
  BY <1>2, <1>3 DEF PhasesOK
<1>7. e.ev # "item"
  BY <1>6 DEF PhaseOK
<1> QED
  BY <1>2, <1>3, <1>5, <1>7 DEF ConfirmedOK

LEMMA ArrivalCovered ==
  ASSUME Before, NEW m, Arrival(m)
  PROVE  CoveredOK(src, tap, tasks, toC', toP', copy')
<1>1. /\ Sound(src, tap, tasks, toC, toP, copy, lapse) /\ tap \in TapRec
  BY BeforeFacts
<1>2. CoveredOK(src, tap, tasks, toC, toP, copy)
  BY <1>1 DEF Sound
<1>3. CASE m.ev = "initial_stream" \/ src.cursor = 0
  BY <1>3, StreamBegins DEF CoveredOK
<1>4. CASE /\ m.ev = "item" /\ copy.state # "active" /\ copy.closed
           /\ src.cursor # 0
  <2>1. Items(src.entries, src.cursor) \subseteq copy.has
    BY <1>4, DroppedItem
  <2>2. copy.has \subseteq copy'.has
    BY <1>4, CopyKeeps
  <2> QED
    BY <2>1, <2>2, KeptFacts DEF CoveredOK
<1>5. CASE /\ m.ev # "initial_stream" /\ src.cursor # 0
           /\ ~(m.ev = "item" /\ copy.state # "active" /\ copy.closed)
  <2>1. /\ \A a \in ToSet(toP) : a \in ToSet(toP')
        /\ \/ Applies(copy, m, copy')
           \/ /\ copy' = copy /\ m.ev = "item"
              /\ \E a \in ToSet(toP') : a.seqno = m.seqno /\ ~a.ok
    BY ArrivalAnswers
  <2>2. copy.has \subseteq copy'.has
    BY <1>5, CopyKeeps
  <2>3. \/ m.ev # "item"
        \/ m.n \in copy'.has
        \/ \E a \in ToSet(toP') : a.seqno = m.seqno /\ ~a.ok
    BY <1>5, <2>1 DEF Applies
  <2>4. /\ \A k \in ToSet(toC) : k = m \/ k \in ToSet(toC')
        /\ \A e \in ToSet(tap.log) : e.seqno = m.seqno => e.ev = m.ev /\ e.n = m.n
    BY DEF Arrival
  <2>5. ASSUME NEW x \in InFlight(tap, toC, toP)
        PROVE  x \in copy'.has \/ x \in InFlight(tap, toC', toP')
    <3>1. x \in Nat
      BY <2>5 DEF InFlight
    <3>2. PICK e \in ToSet(tap.log) :
            /\ e.ev = "item" /\ e.n = x
            /\ tap.connected => \/ \E k \in ToSet(toC) : k.seqno = e.seqno
                                \/ \E a \in ToSet(toP) : a.seqno = e.seqno /\ ~a.ok
      BY <2>5 DEF InFlight
    <3>3. CASE \E k \in ToSet(toC') : k.seqno = e.seqno
      BY <3>1, <3>2, <3>3 DEF InFlight
    <3>4. CASE \E a \in ToSet(toP) : a.seqno = e.seqno /\ ~a.ok
      <4>1. \E a \in ToSet(toP') : a.seqno = e.seqno /\ ~a.ok
        BY <2>1, <3>4
      <4> QED
        BY <3>1, <3>2, <4>1 DEF InFlight
    <3>5. CASE e.seqno = m.seqno
      <4>1. m.ev = "item" /\ m.n = x
        BY <2>4, <3>2, <3>5
      <4>2. CASE m.n \in copy'.has
        BY <4>1, <4>2
      <4>3. CASE \E a \in ToSet(toP') : a.seqno = m.seqno /\ ~a.ok
        <5>1. \E a \in ToSet(toP') : a.seqno = e.seqno /\ ~a.ok
          BY <3>5, <4>3
        <5> QED
          BY <3>1, <3>2, <5>1 DEF InFlight
      <4> QED
        BY <2>3, <4>1, <4>2, <4>3
    <3> QED
      BY <2>4, <3>2, <3>3, <3>4, <3>5 DEF Arrival
  <2>6. \A x : x \in Kept(tap, tasks, toC, toP, copy.has)
                 => x \in Kept(tap, tasks, toC', toP', copy'.has)
    BY <2>2, <2>5, KeptFacts
  <2> QED
    BY <1>2, <2>6, CoveredFrame
<1> QED
  BY <1>3, <1>4, <1>5

LEMMA ReceiveSound ==
  ASSUME Before, Receive
  PROVE  Afterwards
<1> DEFINE m == Head(toC)
<1>1. /\ TypeOK /\ Sound(src, tap, tasks, toC, toP, copy, lapse)
  BY BeforeFacts
<1>2. src' = src /\ tap' = tap /\ tasks' = tasks /\ lapse' = lapse
  BY DEF Receive
<1>3. Arrival(m)
  BY ArrivalFacts
<1> HIDE DEF m
<1>4. /\ BackfillOK(tap, tasks, src.cursor) /\ CountersOK(tap)
      /\ ConfirmedOK(src, tap, copy)
      /\ EndingOK(src, tap, toC, copy, lapse) /\ PendingOK(tap, toC, copy)
  BY <1>1 DEF Sound
<1>5. /\ StreamOK(tap, toC', toP') /\ CopyOK(src.entries, copy')
      /\ PhasesOK(src, tap, toC', copy') /\ CoveredOK(src, tap, tasks, toC', toP', copy')
  BY <1>3, ArrivalStream, ArrivalCopy, ArrivalPhases, ArrivalCovered
<1>6. src.cursor # 0 \/ Ending(toC, copy) => copy.has \subseteq copy'.has
  BY <1>3, StreamBegins, CopyKeeps
<1>7. ConfirmedOK(src, tap, copy')
  BY <1>4, <1>6 DEF ConfirmedOK
<1>8. /\ m \in ToSet(toC)
      /\ \A k \in ToSet(toC') : k \in ToSet(toC) /\ k.seqno > m.seqno
  BY <1>3 DEF Arrival
<1>9. copy'.state = "active" => copy.state = "active" \/ m.ev = "set_active"
  BY <1>3, StateKeeps
<1>10. Ending(toC', copy') => Ending(toC, copy)
  BY <1>8, <1>9 DEF Ending
<1>11. EndingOK(src, tap, toC', copy', lapse)
  BY <1>4, <1>6, <1>10 DEF EndingOK
<1>12. PendingOK(tap, toC', copy')
  <2>1. ASSUME NEW k \in ToSet(toC'), k.ev = "set_pending"
        PROVE  copy'.state # "active"
    <3>1. copy.state # "active"
      BY <1>4, <1>8, <2>1 DEF PendingOK
    <3>2. m.ev # "set_active"
      <4>1. k \in ToSet(toC) /\ k.seqno > m.seqno
        BY <1>8
      <4>2. m.ev = "set_active" => k.seqno < m.seqno
        BY <1>4, <1>8, <2>1, <4>1 DEF PendingOK
      <4>3. k.seqno \in Nat /\ m.seqno \in Nat
        <5>1. toC \in Seq(SentRec)
          BY BeforeFacts
        <5>2. k \in SentRec /\ m \in SentRec
          BY <1>8, <4>1, <5>1, ToSetFacts
        <5> QED
          BY <5>2 DEF SentRec
      <4> QED
        BY <4>1, <4>2, <4>3
    <3> QED
      BY <1>9, <3>1, <3>2
  <2> QED
    BY <1>4, <1>8, <1>10, <2>1 DEF PendingOK
<1> QED
  BY <1>2, <1>4, <1>5, <1>7, <1>11, <1>12 DEF Sound, Afterwards

-----------------------------------------------------------------------------
(***************************************************************************)
(* The invariant and what goes on at the source.                           *)
(***************************************************************************)
LEMMA GrowsSound ==
  ASSUME Before, Grows(src.entries, src'.entries), src'.cursor = src.cursor,
         tap' = tap, tasks' = tasks, toC' = toC, toP' = toP, copy' = copy,
         Ending(toC, copy) => src'.state = "dead" /\ "late" \in lapse'
  PROVE  Afterwards
<1> DEFINE E == src.entries
           F == src'.entries
           k == src.cursor
<1>1. /\ TypeOK /\ EntriesInv /\ Sound(src, tap, tasks, toC, toP, copy, lapse)
      /\ copy \in CopyRec
  BY BeforeFacts
<1>2. /\ BackfillOK(tap, tasks, k) /\ StreamOK(tap, toC, toP) /\ CountersOK(tap)
      /\ CoveredOK(src, tap, tasks, toC, toP, copy) /\ PhasesOK(src, tap, toC, copy)
      /\ CopyOK(E, copy) /\ ConfirmedOK(src, tap, copy)
      /\ EndingOK(src, tap, toC, copy, lapse) /\ PendingOK(tap, toC, copy)
  BY <1>1 DEF Sound
<1>3. Good(E) /\ k \in 0..Len(E)
  BY <1>1, SourceFacts
<1>4. Items(F, k) = Items(E, k)
  BY <1>3, GrownItems
<1>5. k # 0 => F[k] = E[k]
  BY <1>3 DEF Grows
<1>6. CoveredOK(src', tap, tasks, toC, toP, copy)
  BY <1>2, <1>4 DEF CoveredOK
<1>7. PhasesOK(src', tap, toC, copy)
  BY <1>2, <1>5 DEF PhasesOK
<1>8. CopyOK(F, copy)
  <2>1. Newest(E) \in Nat /\ Newest(F) \in Nat /\ Newest(E) <= Newest(F) /\ copy.open \in Nat
    BY <1>1, <1>3, EntryFacts DEF Grows, CopyRec
  <2>2. CASE copy.open = 0
    BY <1>2, <2>2 DEF CopyOK
  <2>3. CASE copy.open # 0
    <3>1. copy.open \in 2..Newest(E) /\ (copy.closed => copy.open < Newest(E))
      BY <1>2, <2>3 DEF CopyOK
    <3>2. copy.open \in 2..Newest(F) /\ (copy.closed => copy.open < Newest(F))
      BY <2>1, <3>1
    <3> QED
      BY <2>3, <3>2 DEF CopyOK
  <2> QED
    BY <2>2, <2>3
<1>9. ConfirmedOK(src', tap, copy)
  BY <1>2, <1>4, <1>5 DEF ConfirmedOK
<1>10. EndingOK(src', tap, toC, copy, lapse')
  BY <1>2 DEF EndingOK
<1> QED
  BY <1>2, <1>6, <1>7, <1>8, <1>9, <1>10 DEF Sound, Afterwards

LEMMA WriteQueuedSound ==
  ASSUME Before, WriteQueued
  PROVE  Afterwards
<1>1. TypeOK /\ EntriesInv /\ Sound(src, tap, tasks, toC, toP, copy, lapse)
  BY BeforeFacts
<1>2. /\ tap' = tap /\ tasks' = tasks /\ toC' = toC /\ toP' = toP /\ copy' = copy
      /\ Ending(toC, copy) => "late" \in lapse'
  BY DEF WriteQueued, Ending
<1>3. /\ Grows(src.entries, src'.entries) /\ src'.cursor = src.cursor /\ src'.state = src.state
  BY <1>1, WriteQueuedFacts
<1>4. Ending(toC, copy) => src.state = "dead"
  BY <1>1 DEF Sound, EndingOK
<1> QED
  BY <1>2, <1>3, <1>4, GrowsSound

LEMMA CloseCheckpointSound ==
  ASSUME Before, CloseCheckpoint
  PROVE  Afterwards
<1>1. TypeOK /\ EntriesInv /\ Sound(src, tap, tasks, toC, toP, copy, lapse)
  BY BeforeFacts
<1>2. /\ tap' = tap /\ tasks' = tasks /\ toC' = toC /\ toP' = toP /\ copy' = copy
  BY DEF CloseCheckpoint
<1>3. /\ Grows(src.entries, src'.entries) /\ src'.cursor = src.cursor /\ src.state = "active"
  BY <1>1, CloseCheckpointFacts
<1>4. ~Ending(toC, copy)
  BY <1>1, <1>3 DEF Sound, EndingOK
<1> QED
  BY <1>2, <1>3, <1>4, GrowsSound

LEMMA FreeCheckpointSound ==
  ASSUME Before, FreeCheckpoint
  PROVE  Afterwards
<1>1. TypeOK /\ EntriesInv /\ Sound(src, tap, tasks, toC, toP, copy, lapse)
  BY BeforeFacts
<1>2. /\ tap' = tap /\ tasks' = tasks /\ toC' = toC /\ toP' = toP /\ copy' = copy /\ lapse' = lapse
  BY DEF FreeCheckpoint
<1>3. src'.state = src.state /\ src'.entries = src.entries /\ src'.cursor = src.cursor
  BY <1>1, FreeCheckpointFacts
<1>4. Sound(src', tap, tasks, toC, toP, copy, lapse)
  BY <1>1, <1>3, DeadSound
<1> QED
  BY <1>2, <1>4 DEF Afterwards

LEMMA WriteBeginsSound ==
  ASSUME Before, WriteBegins
  PROVE  Afterwards
<1>1. Sound(src, tap, tasks, toC, toP, copy, lapse)
  BY BeforeFacts
<1>2. /\ src' = src /\ tap' = tap /\ tasks' = tasks /\ toC' = toC /\ toP' = toP /\ copy' = copy
      /\ lapse' = lapse
  BY DEF WriteBegins
<1> QED
  BY <1>1, <1>2 DEF Afterwards

-----------------------------------------------------------------------------
(***************************************************************************)
(* From where the copy can be resumed.                                     *)
(***************************************************************************)
Point(cp) == IF cp.open = 0 THEN 1 ELSE cp.open + IF cp.closed THEN 1 ELSE 0
Resumable(E, cp) ==
  \A i \in 1..Len(E) : E[i].ev = "item" /\ E[i].chk < Point(cp) => E[i].n \in cp.has

LEMMA ResumableFacts == WellFormed => (ResumePointSound <=> Resumable(src.entries, copy))
<1> SUFFICES ASSUME WellFormed
             PROVE  ResumePointSound <=> Resumable(src.entries, copy)
  OBVIOUS
<1>1. /\ DOMAIN src.entries = 1..Len(src.entries)
      /\ \A i : ChkAt(i) = src.entries[i].chk
      /\ ResumePoint = Point(copy)
  BY SourceFacts DEF WellFormed, Point
<1> QED
  BY <1>1 DEF ResumePointSound, Resumable

LEMMA ResumablePrimed == WellFormed' => (ResumePointSound' <=> (Resumable(src.entries, copy))')
BY ResumableFacts, PTL

\* What is written or closed is behind every point from which the copy may be resumed.
LEMMA ResumableGrows ==
  ASSUME NEW E, NEW F, Good(E), Grows(E, F), NEW cp, Resumable(E, cp),
         \A i \in (Len(E) + 1)..Len(F) : F[i].ev = "item" => ~(F[i].chk < Point(cp))
  PROVE  Resumable(F, cp)
<1>1. ASSUME NEW i \in 1..Len(F), F[i].ev = "item", F[i].chk < Point(cp)
      PROVE  F[i].n \in cp.has
  <2>1. Len(E) \in Nat /\ Len(F) \in Nat
    BY EntryFacts DEF Grows
  <2>2. i \in 1..Len(E)
    BY <1>1, <2>1
  <2>3. F[i] = E[i]
    BY <2>2 DEF Grows
  <2> QED
    BY <1>1, <2>2, <2>3 DEF Resumable
<1> QED
  BY <1>1 DEF Resumable

LEMMA PointFacts ==
  ASSUME NEW E, Good(E), NEW cp \in CopyRec, CopyOK(E, cp)
  PROVE  Point(cp) \in Nat /\ Point(cp) <= Newest(E)
<1>1. /\ cp.open \in Nat /\ cp.closed \in BOOLEAN /\ Newest(E) \in Nat /\ Newest(E) >= 2
  BY EntryFacts DEF CopyRec
<1>2. CASE cp.open = 0
  BY <1>1, <1>2 DEF Point
<1>3. CASE cp.open # 0
  <2>1. cp.open <= Newest(E) /\ (cp.closed => cp.open < Newest(E))
    BY <1>1, <1>3 DEF CopyOK
  <2>2. Point(cp) = IF cp.closed THEN cp.open + 1 ELSE cp.open
    BY <1>1, <1>3 DEF Point
  <2> QED
    BY <1>1, <2>1, <2>2
<1> QED
  BY <1>2, <1>3

LEMMA SourceResumable ==
  ASSUME Before, Resumable(src.entries, copy), WriteQueued \/ CloseCheckpoint
  PROVE  Resumable(src'.entries, copy')
<1> DEFINE E == src.entries
           F == src'.entries
<1>1. /\ TypeOK /\ EntriesInv /\ Sound(src, tap, tasks, toC, toP, copy, lapse) /\ copy \in CopyRec
  BY BeforeFacts
<1>2. copy' = copy
  BY DEF WriteQueued, CloseCheckpoint
<1>3. Good(E) /\ CopyOK(E, copy)
  BY <1>1, SourceFacts DEF Sound
<1>4. /\ Point(copy) \in Nat /\ Point(copy) <= Newest(E) /\ Newest(E) \in Nat
      /\ Len(E) \in Nat
  BY <1>1, <1>3, PointFacts, EntryFacts
<1>5. CASE WriteQueued
  <2>1. /\ Grows(E, F) /\ Len(F) = Len(E) + 1 /\ F[Len(E) + 1].chk = Newest(E)
    BY <1>1, <1>5, WriteQueuedFacts
  <2>2. ASSUME NEW i \in (Len(E) + 1)..Len(F)
        PROVE  ~(F[i].chk < Point(copy))
    <3>1. i = Len(E) + 1
      BY <1>4, <2>1
    <3> QED
      BY <1>4, <2>1, <3>1
  <2> QED
    BY <1>2, <1>3, <2>1, <2>2, ResumableGrows
<1>6. CASE CloseCheckpoint
  <2>1. /\ Grows(E, F) /\ Len(F) = Len(E) + 3
        /\ \A i \in (Len(E) + 1)..(Len(E) + 3) : F[i].ev # "item"
    BY <1>1, <1>6, CloseCheckpointFacts
  <2> QED
    BY <1>2, <1>3, <2>1, ResumableGrows
<1> QED
  BY <1>5, <1>6

\* The copy moves to another checkpoint when it has all that comes before it.
LEMMA ReceiveResumable ==
  ASSUME Before, Receive, Resumable(src.entries, copy)
  PROVE  Resumable(src.entries, copy')
<1> DEFINE E == src.entries
           k == src.cursor
           e == E[k]
           m == Head(toC)
<1>1. /\ TypeOK /\ EntriesInv /\ Sound(src, tap, tasks, toC, toP, copy, lapse) /\ copy \in CopyRec
  BY BeforeFacts
<1>2. Arrival(m)
  BY ArrivalFacts
<1>3. Good(E) /\ DOMAIN E = 1..Len(E) /\ Len(E) \in Nat
  BY <1>1, SourceFacts
<1>4. \A i \in 1..Len(E) : E[i].chk \in Nat /\ 2 <= E[i].chk
  BY <1>3, EntryFacts
<1> HIDE DEF m
<1>5. CASE m.ev = "initial_stream"
  <2>1. Point(copy') = 1
    BY <1>2, <1>5, StreamBegins DEF Point
  <2> QED
    BY <1>4, <2>1 DEF Resumable
<1>6. CASE m.ev # "initial_stream" /\ copy'.open = copy.open /\ copy'.closed = copy.closed
  <2>1. copy.has \subseteq copy'.has
    BY <1>2, <1>6, CopyKeeps
  <2>2. Point(copy') = Point(copy)
    BY <1>6 DEF Point
  <2> QED
    BY <2>1, <2>2 DEF Resumable
<1>7. CASE m.ev \in CheckpointEvents /\ copy.state # "active"
  <2>1. /\ CheckpointArrives(m, e) /\ k \in 1..Len(E) /\ e \in EntryRec
        /\ copy'.has = copy.has
        /\ \/ e.ev = "start" /\ copy'.open = e.chk /\ ~copy'.closed
           \/ e.ev = "end" /\ copy'.open = e.chk /\ copy'.closed
           \/ /\ e.ev = "dummy" /\ copy'.open = copy.open /\ copy'.closed /\ copy.closed
              /\ copy.open = e.chk - 1
    BY <1>2, <1>7, ArrivalCheckpoint
  <2>2. e.chk \in Nat /\ 2 <= e.chk
    BY <1>4, <2>1
  <2>3. e.ev # "item" => Items(E, k) \subseteq copy.has
    BY <1>1, <2>1 DEF Sound, ConfirmedOK, CheckpointArrives
  <2>4. \A i \in 1..k : E[i].ev = "item" => E[i].n \in Items(E, k)
    <3>1. k \in 0..Len(E)
      BY <1>3, <2>1
    <3> QED
      BY <1>3, <3>1, ItemsFacts
  <2> HIDE DEF e
  <2>5. CASE e.ev = "start" /\ copy'.open = e.chk /\ ~copy'.closed
    <3>1. Point(copy') = e.chk
      BY <2>2, <2>5 DEF Point
    <3>2. ASSUME NEW i \in 1..Len(E), E[i].ev = "item", E[i].chk < e.chk
          PROVE  E[i].n \in copy'.has
      <4>1. ~(k <= i)
        <5>1. k <= i => E[k].chk <= E[i].chk
          BY <1>3, <2>1 DEF Good, Sorted
        <5> QED
          BY <1>4, <2>2, <3>2, <5>1 DEF e
      <4>2. i \in 1..k
        BY <1>3, <2>1, <4>1
      <4> QED
        BY <2>1, <2>3, <2>4, <2>5, <3>2, <4>2
    <3> QED
      BY <3>1, <3>2 DEF Resumable
  <2>6. CASE e.ev = "end" /\ copy'.open = e.chk /\ copy'.closed
    <3>1. Point(copy') = e.chk + 1
      BY <2>2, <2>6 DEF Point
    <3>2. k + 1 \in 1..Len(E) /\ E[k + 1].chk = e.chk + 1
      <4>1. k # Len(E)
        BY <1>3, <2>6 DEF Good, Chained, e
      <4>2. k \in 1..(Len(E) - 1)
        BY <1>3, <2>1, <4>1
      <4>3. Follows(E[k], E[k + 1])
        BY <1>3, <4>2 DEF Good, Chained
      <4> QED
        BY <1>3, <2>6, <4>2, <4>3 DEF Follows, e
    <3>3. ASSUME NEW i \in 1..Len(E), E[i].ev = "item", E[i].chk < e.chk + 1
          PROVE  E[i].n \in copy'.has
      <4>1. ~(k + 1 <= i)
        <5>1. k + 1 <= i => E[k + 1].chk <= E[i].chk
          BY <1>3, <3>2 DEF Good, Sorted
        <5> QED
          BY <1>4, <2>2, <3>2, <3>3, <5>1
      <4>2. i \in 1..k
        BY <1>3, <2>1, <4>1
      <4> QED
        BY <2>1, <2>3, <2>4, <2>6, <3>3, <4>2
    <3> QED
      BY <3>1, <3>3 DEF Resumable
  <2>7. CASE copy'.open = copy.open /\ copy'.closed /\ copy.closed
    <3>1. Point(copy') = Point(copy)
      BY <2>7 DEF Point
    <3> QED
      BY <2>1, <3>1 DEF Resumable
  <2> QED
    BY <2>1, <2>5, <2>6, <2>7
<1> QED
  BY <1>2, <1>5, <1>6, <1>7, CopyKeeps DEF CheckpointEvents

-----------------------------------------------------------------------------
(***************************************************************************)
(* The invariant and the connections.                                      *)
(***************************************************************************)
\* A cursor at the resume point has nothing behind it that the copy does not have.
LEMMA ResumesAt ==
  ASSUME Before, Resumable(src.entries, copy), ResumePoint \in src.first..OpenId
  PROVE  LET E == src.entries
             b == Beginning(ResumePoint)
         IN  /\ b \in 1..Len(E) /\ b # 0
             /\ E[b].ev = "dummy" /\ E[b].chk = ResumePoint
             /\ Items(E, b) \subseteq copy.has
             /\ Fresh(ResumePoint, copy)
<1> DEFINE E == src.entries
           b == Beginning(ResumePoint)
<1>1. /\ TypeOK /\ EntriesInv /\ copy \in CopyRec
  BY BeforeFacts
<1>2. /\ Good(E) /\ OpenId \in Nat /\ src.first \in 2..OpenId /\ Len(E) \in Nat
      /\ ResumePoint = Point(copy)
  BY <1>1, SourceFacts DEF Point
<1>3. ResumePoint \in 2..OpenId
  BY <1>2
<1>4. /\ b \in 1..Len(E) /\ b \in Nat \ {0}
      /\ E[b].ev = "dummy" /\ E[b].chk = ResumePoint
      /\ \A i \in 1..Len(E) : E[i].ev = "item" /\ i <= b => E[i].chk < ResumePoint
  BY <1>1, <1>3, BeginningFacts
<1> HIDE DEF b
<1>5. ASSUME NEW x \in Items(E, b)
      PROVE  x \in copy.has
  <2>1. b \in 0..Len(E)
    BY <1>2, <1>4
  <2>2. PICK j \in 1..b : E[j].ev = "item" /\ E[j].n = x
    BY <1>2, <1>5, <2>1, ItemsFacts
  <2>3. j \in 1..Len(E) /\ j <= b
    BY <1>2, <1>4, <2>2
  <2>4. E[j].chk < Point(copy)
    BY <1>2, <1>4, <2>2, <2>3
  <2> QED
    BY <2>2, <2>3, <2>4 DEF Resumable
<1>6. Fresh(ResumePoint, copy)
  <2>1. copy.open \in Nat /\ copy.closed \in BOOLEAN
    BY <1>1 DEF CopyRec
  <2>2. Point(copy) \in 2..OpenId
    BY <1>2, <1>3
  <2>3. copy.open # 0
    BY <2>2 DEF Point
  <2>4. CASE copy.closed
    <3>1. Point(copy) = copy.open + 1
      BY <2>1, <2>3, <2>4 DEF Point
    <3>2. copy.open = Point(copy) - 1
      BY <2>1, <3>1
    <3> QED
      BY <1>2, <2>4, <3>2 DEF Fresh
  <2>5. CASE ~copy.closed
    <3>1. Point(copy) = copy.open
      BY <2>1, <2>3, <2>5 DEF Point
    <3> QED
      BY <1>2, <2>5, <3>1 DEF Fresh
  <2> QED
    BY <2>4, <2>5
<1> QED
  BY <1>4, <1>5, <1>6 DEF b

\* No message and no answer is on its way without a connection.
LEMMA NotConnected ==
  ASSUME Before, ~tap.connected
  PROVE  toC = <<>> /\ toP = <<>> /\ ToSet(toC) = {} /\ ToSet(toP) = {}
<1>1. Sound(src, tap, tasks, toC, toP, copy, lapse)
  BY BeforeFacts
<1>2. toC = <<>> /\ toP = <<>>
  BY <1>1 DEF Sound, StreamOK, SentOK, AnsweredOK
<1> QED
  BY <1>2, EmptySet

\* The stream of a producer that has nothing in its log.
LEMMA EmptyStream ==
  ASSUME NEW u, u.exists, u.log = <<>>, u.seqno \in Nat, u.seqno >= 1,
         u.seqnoReceived = u.seqno - 1, ~u.isSeqNumRotated, u.connected
  PROVE  StreamOK(u, <<>>, <<>>)
<1>1. ToSet(<<>>) = {} /\ Increasing(<<>>)
  BY EmptySet
<1>2. LogOK(u)
  BY <1>1 DEF LogOK
<1>3. SentOK(u, <<>>) /\ AnsweredOK(u, <<>>, <<>>) /\ Awaited(u, <<>>, <<>>)
  BY <1>1 DEF SentOK, AnsweredOK, Awaited
<1>4. AckedOK(u)
  BY <1>1 DEF AckedOK
<1> QED
  BY <1>2, <1>3, <1>4 DEF StreamOK

LEMMA ConnectFreshSound ==
  ASSUME Before, ConnectFresh, Resumable(src.entries, copy)
  PROVE  Afterwards
<1> DEFINE E == src.entries
           u == tap'
<1>1. /\ TypeOK /\ EntriesInv /\ Sound(src, tap, tasks, toC, toP, copy, lapse)
  BY BeforeFacts
<1>2. /\ BackfillOK(tap, tasks, src.cursor) /\ CopyOK(E, copy)
  BY <1>1 DEF Sound
<1>3. toC' = toC /\ toP' = toP /\ copy' = copy /\ lapse' = lapse
  BY DEF ConnectFresh
<1>4. PICK t \in TapRec :
           /\ Joins(NewTap, t) /\ Registers(t, u)
           /\ MovedTo(src, src', RegisteredCursor(t, 0))
           /\ copy.state # "active" /\ ~tap.connected
           /\ tasks' \in Seq(TaskRec) /\ DOMAIN tasks' = DOMAIN tasks
           /\ \A i \in DOMAIN tasks :
                /\ ~tasks'[i].own
                /\ tasks'[i].visited = tasks[i].visited /\ tasks'[i].completed = tasks[i].completed
                /\ tasks'[i].disk = tasks[i].disk
  BY <1>1, ConnectFreshFacts
<1>5. toC = <<>> /\ toP = <<>>
  BY <1>4, NotConnected
<1> DEFINE d == RegisteredCursor(t, 0)
<1> HIDE DEF u
<1>6. /\ t.exists /\ t.connected /\ t.log = <<>> /\ t.seqno = 1 /\ t.seqnoReceived = 0
      /\ ~t.isSeqNumRotated /\ t.checkpointMsgs = <<>>
      /\ t.opaqueMsgCounter = 0 /\ t.checkpointMsgCounter = 0
      /\ ~t.doRunBackfill /\ t.backfillCompleted /\ ~t.backfillVBucket
      /\ t.pendingBackfill = 0 /\ t.diskBackfill = 0
      /\ "initial_stream" \notin ToSet(t.high)
  BY <1>4, NewTapFacts, EmptySet DEF Joins, SameLog, SameMessages, SameFlags
<1>7. /\ u.exists /\ u.connected /\ u.log = <<>> /\ u.seqno = 1 /\ u.seqnoReceived = 0
      /\ ~u.isSeqNumRotated /\ u.checkpointMsgs = <<>>
      /\ u.opaqueMsgCounter = 0 /\ u.checkpointMsgCounter = 0
      /\ u.pendingBackfill = 0 /\ u.diskBackfill = 0
  BY <1>4, <1>6 DEF Registers, SameLog, SameMessages
<1>8. /\ ToBackfill(t) => /\ u.doRunBackfill /\ ~u.backfillCompleted /\ u.backfillVBucket
                          /\ "initial_stream" \in ToSet(u.high)
      /\ ~ToBackfill(t) => /\ ~u.doRunBackfill /\ u.backfillCompleted /\ ~u.backfillVBucket
                           /\ "initial_stream" \notin ToSet(u.high)
  BY <1>4, <1>6 DEF Registers
<1>9. /\ ToBackfill(t) => d = 0
      /\ ~ToBackfill(t) => ResumePoint \in src.first..OpenId /\ d = Beginning(ResumePoint)
  BY <1>1, <1>6, CursorFacts
<1>10. ~ToBackfill(t) =>
         /\ d \in 1..Len(E) /\ d # 0
         /\ E[d].ev = "dummy" /\ E[d].chk = ResumePoint
         /\ Items(E, d) \subseteq copy.has /\ Fresh(ResumePoint, copy)
  BY <1>9, ResumesAt
<1> HIDE DEF d
<1>11. src'.entries = E /\ src'.cursor = d
  BY <1>4 DEF MovedTo, d
<1>12. BackfillOK(u, tasks', d)
  <2>1. \A i \in DOMAIN tasks' : ~tasks'[i].own
    BY <1>4
  <2>2. TasksOK(tasks')
    BY <1>2, <1>4 DEF BackfillOK, TasksOK, Finished
  <2>3. ~Pending(tasks') /\ ~OnDisk(tasks') /\ ~Unvisited(tasks')
    BY <2>1 DEF Pending, OnDisk, Unvisited
  <2>4. u \in TapRec
    BY <1>4 DEF Registers
  <2>5. u.backfillVBucket = ~u.backfillCompleted
    BY <1>8, <2>4 DEF TapRec
  <2> QED
    BY <1>7, <1>8, <1>9, <1>10, <2>1, <2>2, <2>3, <2>5 DEF BackfillOK
<1>13. StreamOK(u, <<>>, <<>>)
  BY <1>7, EmptyStream
<1>14. ~InLog(u.log, "initial_stream")
  BY <1>7, EmptySet DEF InLog
<1>15. CountersOK(u)
  <2>1. \A evs : Cardinality(Numbers(u.log, evs)) = 0
    BY <1>7, NumbersEmpty
  <2> QED
    BY <1>7, <1>8, <1>14, <2>1, EmptySet DEF CountersOK, Announced
<1>16. CoveredOK(src', u, tasks', <<>>, <<>>, copy)
  BY <1>9, <1>10, <1>11, KeptFacts DEF CoveredOK
<1>17. Outstanding(u) = {}
  <2>1. ASSUME NEW x \in Outstanding(u)
        PROVE  FALSE
    BY <1>7, EmptySet, OutstandingFacts
  <2> QED
    BY <2>1
<1>18. PhasesOK(src', u, <<>>, copy)
  <2>1. ~ToBackfill(t) => PhaseOK(E[d], Outstanding(u), Delivered(u, <<>>), copy)
    BY <1>10, <1>17 DEF PhaseOK
  <2> QED
    BY <1>8, <1>9, <1>11, <1>17, <2>1 DEF PhasesOK, StreamPending
<1>19. ConfirmedOK(src', u, copy)
  BY <1>9, <1>10, <1>11 DEF ConfirmedOK
<1>20. ~Ending(<<>>, copy)
  BY <1>4, EmptySet DEF Ending
<1>21. EndingOK(src', u, <<>>, copy, lapse) /\ PendingOK(u, <<>>, copy)
  BY <1>20, EmptySet DEF EndingOK, PendingOK
<1>22. Sound(src', u, tasks', <<>>, <<>>, copy, lapse)
  BY <1>2, <1>11, <1>12, <1>13, <1>15, <1>16, <1>18, <1>19, <1>21 DEF Sound
<1> QED
  BY <1>3, <1>5, <1>22 DEF Afterwards, u

\* The producer goes on as u, which is t registered, with its log to be sent again.
Grabs(t, u) ==
  /\ t \in TapRec /\ u \in TapRec
  /\ tap.exists /\ ~tap.connected /\ copy.state # "active"
  /\ t.backfillVBucket = tap.backfillVBucket /\ t.log = tap.log
  /\ t.checkpointMsgs = tap.checkpointMsgs
  /\ "initial_stream" \in ToSet(t.high) <=> "initial_stream" \in ToSet(tap.high)
  /\ SameFlags(tap, t) /\ Registers(t, u) /\ RollsBack(u, tap')
  /\ u.exists /\ u.connected /\ u.log = tap.log /\ u.seqno = tap.seqno
  /\ ~u.isSeqNumRotated
  /\ SameQueues(tap, u) /\ SameMessages(tap, u) /\ u.opaqueMsgCounter = tap.opaqueMsgCounter
  /\ MovedTo(src, src', RegisteredCursor(t, src.cursor))
  /\ lapse' = lapse \cup
       (IF ToBackfill(t) /\ \E msg \in ToSet(t.checkpointMsgs \o t.log) : msg.ev = "start"
        THEN {"replayed"} ELSE {})

LEMMA GrabFacts ==
  ASSUME Before, ConnectGrab
  PROVE  \E t, u : Grabs(t, u)
<1>1. /\ TypeOK /\ EntriesInv /\ Sound(src, tap, tasks, toC, toP, copy, lapse) /\ tap \in TapRec
  BY BeforeFacts
<1>2. StreamOK(tap, toC, toP)
  BY <1>1 DEF Sound
<1>3. Increasing(tap.log) /\ ~tap.isSeqNumRotated
  BY <1>2 DEF StreamOK, LogOK, AckedOK
<1>4. PICK x \in TapRec, t \in TapRec, u \in TapRec :
           /\ Joins(x, t) /\ Registers(t, u) /\ tap' = RolledBack(u)
           /\ x.connected /\ x.exists = tap.exists /\ tap.exists
           /\ x.log = tap.log /\ x.seqno = tap.seqno
           /\ x.isSeqNumRotated = tap.isSeqNumRotated
           /\ SameQueues(tap, x) /\ SameMessages(tap, x) /\ SameHigh(tap, x) /\ SameFlags(tap, x)
           /\ MovedTo(src, src', RegisteredCursor(t, src.cursor))
           /\ copy.state # "active" /\ ~tap.connected
           /\ lapse' = lapse \cup
                (IF ToBackfill(t) /\ \E msg \in ToSet(t.checkpointMsgs \o t.log) : msg.ev = "start"
                 THEN {"replayed"} ELSE {})
  BY <1>1, ConnectGrabFacts
<1>5. /\ SameLog(x, t) /\ SameQueues(x, t) /\ SameMessages(x, t) /\ SameFlags(x, t)
      /\ t.opaqueMsgCounter = x.opaqueMsgCounter
      /\ "initial_stream" \in ToSet(t.high) <=> "initial_stream" \in ToSet(x.high)
  BY <1>4 DEF Joins
<1>6. /\ SameLog(t, u) /\ SameQueues(t, u) /\ SameMessages(t, u)
      /\ u.opaqueMsgCounter = t.opaqueMsgCounter
  BY <1>4 DEF Registers
<1>7. /\ t.log = tap.log /\ u.log = tap.log /\ u.exists /\ u.connected /\ u.seqno = tap.seqno
      /\ ~u.isSeqNumRotated
  BY <1>3, <1>4, <1>5, <1>6 DEF SameLog
<1>8. /\ t.backfillVBucket = tap.backfillVBucket /\ SameFlags(tap, t)
  BY <1>4, <1>5 DEF SameFlags
<1>9. /\ t.checkpointMsgs = tap.checkpointMsgs /\ SameMessages(tap, u) /\ SameQueues(tap, u)
      /\ u.opaqueMsgCounter = tap.opaqueMsgCounter
  BY <1>4, <1>5, <1>6 DEF SameMessages, SameQueues, SameHigh
<1>10. "initial_stream" \in ToSet(t.high) <=> "initial_stream" \in ToSet(tap.high)
  BY <1>4, <1>5 DEF SameHigh
<1>11. RollsBack(u, tap')
  BY <1>3, <1>4, <1>7, RolledBackFacts
<1>12. Grabs(t, u)
  BY <1>4, <1>7, <1>8, <1>9, <1>10, <1>11 DEF Grabs
<1> QED
  BY <1>12

\* The three ways to register: the backfill goes on, or is due, or is not necessary.
LEMMA GrabCases ==
  ASSUME Before, NEW t, NEW u, Grabs(t, u), Resumable(src.entries, copy)
  PROVE  LET E == src.entries
             k == src.cursor
             d == src'.cursor
         IN  /\ src'.entries = E
             /\ \/ /\ tap.backfillVBucket /\ ~ToBackfill(t) /\ u = t /\ d = k
                \/ /\ ~tap.backfillVBucket /\ ToBackfill(t) /\ d = 0 /\ k # 0
                   /\ ResumePoint \notin src.first..OpenId
                   /\ u.doRunBackfill /\ ~u.backfillCompleted /\ u.backfillVBucket
                   /\ u.pendingBackfill = tap.pendingBackfill /\ u.diskBackfill = tap.diskBackfill
                   /\ "initial_stream" \in ToSet(u.high)
                \/ /\ ~tap.backfillVBucket /\ ~ToBackfill(t) /\ u = t /\ k # 0 /\ d # 0
                   /\ ResumePoint \in src.first..OpenId
                   /\ \/ d = k
                      \/ /\ E[k].chk # ResumePoint
                         /\ E[d].ev = "dummy" /\ E[d].chk = ResumePoint
                         /\ Items(E, d) \subseteq copy.has /\ Fresh(ResumePoint, copy)
<1> DEFINE E == src.entries
           k == src.cursor
           d == RegisteredCursor(t, k)
<1>1. /\ TypeOK /\ EntriesInv /\ Sound(src, tap, tasks, toC, toP, copy, lapse)
  BY BeforeFacts
<1>2. BackfillOK(tap, tasks, k)
  BY <1>1 DEF Sound
<1>3. /\ t.backfillVBucket = tap.backfillVBucket /\ SameFlags(tap, t) /\ Registers(t, u)
      /\ tap.exists
  BY DEF Grabs
<1>4. src'.entries = E /\ src'.cursor = d
  BY DEF Grabs, MovedTo
<1>5. ~tap.backfillVBucket => k # 0
  BY <1>2, <1>3 DEF BackfillOK, Unvisited
<1>6. /\ t.backfillVBucket => d = k
      /\ ToBackfill(t) => d = 0 /\ ResumePoint \notin src.first..OpenId
      /\ ~t.backfillVBucket /\ ~ToBackfill(t) => ResumePoint \in src.first..OpenId
  BY <1>1, CursorFacts
<1>7. ~t.backfillVBucket /\ ~ToBackfill(t) =>
        d = IF k # 0 /\ E[k].chk = ResumePoint THEN k ELSE Beginning(ResumePoint)
  BY <1>1, SourceFacts DEF RegisteredCursor
<1>8. ResumePoint \in src.first..OpenId =>
         LET b == Beginning(ResumePoint)
         IN  /\ b # 0
             /\ E[b].ev = "dummy" /\ E[b].chk = ResumePoint
             /\ Items(E, b) \subseteq copy.has /\ Fresh(ResumePoint, copy)
  BY ResumesAt
<1> HIDE DEF d
<1>9. CASE tap.backfillVBucket
  <2>1. ~ToBackfill(t)
    BY <1>3, <1>9 DEF ToBackfill
  <2>2. u = t
    BY <1>3, <2>1 DEF Registers
  <2> QED
    BY <1>3, <1>4, <1>6, <1>9, <2>1, <2>2
<1>10. CASE ToBackfill(t)
  <2>1. ~tap.backfillVBucket
    BY <1>3, <1>10 DEF ToBackfill
  <2>2. /\ u.doRunBackfill /\ ~u.backfillCompleted /\ u.backfillVBucket
        /\ u.pendingBackfill = tap.pendingBackfill /\ u.diskBackfill = tap.diskBackfill
        /\ "initial_stream" \in ToSet(u.high)
    BY <1>3, <1>10 DEF Registers, SameFlags
  <2> QED
    BY <1>4, <1>5, <1>6, <1>10, <2>1, <2>2
<1>11. CASE ~tap.backfillVBucket /\ ~ToBackfill(t)
  <2>1. u = t
    BY <1>3, <1>11 DEF Registers
  <2>2. k # 0 /\ ResumePoint \in src.first..OpenId
    BY <1>3, <1>5, <1>6, <1>11
  <2>3. CASE E[k].chk = ResumePoint
    <3>1. d = k
      BY <1>3, <1>7, <1>11, <2>2, <2>3
    <3> QED
      BY <1>4, <1>11, <2>1, <2>2, <3>1
  <2>4. CASE E[k].chk # ResumePoint
    <3>1. d = Beginning(ResumePoint)
      BY <1>3, <1>7, <1>11, <2>4
    <3>2. /\ d # 0 /\ E[d].ev = "dummy" /\ E[d].chk = ResumePoint
          /\ Items(E, d) \subseteq copy.has /\ Fresh(ResumePoint, copy)
      BY <1>8, <2>2, <3>1
    <3> QED
      BY <1>4, <1>11, <2>1, <2>2, <2>4, <3>2
  <2> QED
    BY <2>3, <2>4
<1> QED
  BY <1>9, <1>10, <1>11

\* What is kept is kept: the log is queued again.
LEMMA GrabCovered ==
  ASSUME Before, NEW t, NEW u, Grabs(t, u), Resumable(src.entries, copy)
  PROVE  CoveredOK(src', tap', tasks, <<>>, <<>>, copy)
<1> DEFINE E == src.entries
           k == src.cursor
           d == src'.cursor
<1>1. /\ Sound(src, tap, tasks, toC, toP, copy, lapse)
  BY BeforeFacts
<1>2. /\ tap.exists /\ ~tap.connected /\ u.log = tap.log
      /\ SameQueues(tap, u) /\ RollsBack(u, tap')
  BY DEF Grabs
<1>3. /\ tap'.fetched = tap.fetched /\ tap'.jobs = tap.jobs
      /\ \A x : x \in ToSet(tap'.queue) <=>
           (x \in ToSet(tap.queue) \/ \E e \in ToSet(tap.log) : e.ev = "item" /\ x = e.n)
  BY <1>2 DEF RollsBack, SameStream, SameQueues
<1>4. \A x : x \in Kept(tap, tasks, toC, toP, copy.has)
               => x \in Kept(tap', tasks, <<>>, <<>>, copy.has)
  <2>1. ASSUME NEW x, x \in Kept(tap, tasks, toC, toP, copy.has)
        PROVE  x \in Kept(tap', tasks, <<>>, <<>>, copy.has)
    <3>1. CASE x \in InFlight(tap, toC, toP)
      <4>1. x \in ToSet(tap'.queue)
        BY <1>3, <3>1 DEF InFlight
      <4> QED
        BY <4>1, KeptFacts
    <3>2. CASE x \notin InFlight(tap, toC, toP)
      BY <1>3, <2>1, <3>2, KeptFacts
    <3> QED
      BY <3>1, <3>2
  <2> QED
    BY <2>1
<1>5. CoveredOK(src, tap, tasks, toC, toP, copy)
  BY <1>1 DEF Sound
<1>6. src'.entries = E
  BY GrabCases
<1>7. CASE d = 0
  BY <1>7 DEF CoveredOK
<1>8. CASE d = k
  BY <1>2, <1>4, <1>5, <1>6, <1>8 DEF CoveredOK
<1>9. CASE Items(E, d) \subseteq copy.has
  BY <1>6, <1>9, KeptFacts DEF CoveredOK
<1>10. d = 0 \/ d = k \/ Items(E, d) \subseteq copy.has
  <2> HIDE DEF E, k, d
  <2> QED
    BY GrabCases DEF E, k, d
<1> QED
  BY <1>7, <1>8, <1>9, <1>10

LEMMA GrabBackfill ==
  ASSUME Before, NEW t, NEW u, Grabs(t, u), Resumable(src.entries, copy)
  PROVE  BackfillOK(tap', tasks, src'.cursor)
<1> DEFINE k == src.cursor
           d == src'.cursor
<1>1. /\ Sound(src, tap, tasks, toC, toP, copy, lapse)
  BY BeforeFacts
<1>2. BackfillOK(tap, tasks, k)
  BY <1>1 DEF Sound
<1>3. /\ tap.exists /\ u.exists /\ SameFlags(tap, t) /\ RollsBack(u, tap')
  BY DEF Grabs
<1>4. tap'.exists /\ SameFlags(u, tap')
  BY <1>3 DEF RollsBack, SameStream
<1>5. CASE u = t /\ d = k
  <2>1. SameFlags(tap, tap')
    BY <1>3, <1>4, <1>5 DEF SameFlags
  <2> QED
    BY <1>2, <1>3, <1>4, <1>5, <2>1, BackfillFrame
<1>6. CASE ~tap.backfillVBucket
  <2>1. \A i \in DOMAIN tasks : ~tasks[i].own
    BY <1>2, <1>6 DEF BackfillOK
  <2>2. ~Pending(tasks) /\ ~OnDisk(tasks) /\ ~Unvisited(tasks)
    BY <2>1 DEF Pending, OnDisk, Unvisited
  <2>3. /\ TasksOK(tasks) /\ tap.pendingBackfill = 0 /\ tap.diskBackfill = 0
        /\ ~tap.doRunBackfill /\ tap.backfillVBucket = ~tap.backfillCompleted
    BY <1>2, <1>6, <2>2 DEF BackfillOK
  <2>4. CASE u = t /\ d # 0
    <3>1. SameFlags(tap, tap')
      BY <1>3, <1>4, <2>4 DEF SameFlags
    <3> QED
      BY <1>6, <2>1, <2>2, <2>3, <2>4, <3>1 DEF BackfillOK, SameFlags
  <2>5. CASE /\ u.doRunBackfill /\ ~u.backfillCompleted /\ u.backfillVBucket /\ d = 0
             /\ u.pendingBackfill = tap.pendingBackfill /\ u.diskBackfill = tap.diskBackfill
    <3>1. /\ tap'.doRunBackfill /\ ~tap'.backfillCompleted /\ tap'.backfillVBucket
          /\ tap'.pendingBackfill = 0 /\ tap'.diskBackfill = 0
      BY <1>4, <2>3, <2>5 DEF SameFlags
    <3>2. tap'.backfillVBucket = ~tap'.backfillCompleted
      <4>1. tap' \in TapRec
        BY <1>3 DEF RollsBack
      <4> QED
        BY <3>1, <4>1 DEF TapRec
    <3> QED
      BY <2>1, <2>2, <2>3, <2>5, <3>1, <3>2 DEF BackfillOK
  <2> HIDE DEF k, d
  <2> QED
    BY <1>6, <2>4, <2>5, GrabCases DEF k, d
<1> QED
  <2> HIDE DEF k, d
  <2> QED
    BY <1>5, <1>6, GrabCases DEF k, d

LEMMA GrabCounters ==
  ASSUME Before, NEW t, NEW u, Grabs(t, u), Resumable(src.entries, copy)
  PROVE  /\ CountersOK(tap')
         /\ StreamOK(tap', <<>>, <<>>)
         /\ StreamPending(tap, toC) => StreamPending(tap', <<>>)
         /\ "initial_stream" \in ToSet(u.high) => StreamPending(tap', <<>>)
<1>1. /\ Sound(src, tap, tasks, toC, toP, copy, lapse) /\ tap \in TapRec /\ toC \in Seq(SentRec)
  BY BeforeFacts
<1>2. CountersOK(tap) /\ StreamOK(tap, toC, toP)
  BY <1>1 DEF Sound
<1>3. /\ u \in TapRec /\ u.exists /\ u.connected /\ u.log = tap.log /\ u.seqno = tap.seqno
      /\ ~u.isSeqNumRotated /\ t.log = tap.log
      /\ SameMessages(tap, u) /\ u.opaqueMsgCounter = tap.opaqueMsgCounter
      /\ "initial_stream" \in ToSet(t.high) <=> "initial_stream" \in ToSet(tap.high)
      /\ SameFlags(tap, t) /\ RollsBack(u, tap')
  BY DEF Grabs
<1>4. /\ tap'.exists /\ tap'.connected /\ tap'.seqno = tap.seqno /\ ~tap'.isSeqNumRotated
      /\ tap'.log = <<>> /\ tap'.seqnoReceived = tap'.seqno - 1
      /\ tap'.doRunBackfill = u.doRunBackfill
      /\ Len(tap'.checkpointMsgs) + tap'.checkpointMsgCounter =
           Len(tap.checkpointMsgs) + tap.checkpointMsgCounter
      /\ tap'.opaqueMsgCounter =
           tap.opaqueMsgCounter - Cardinality(Behind(tap.log, 0, Opaques))
      /\ tap'.checkpointMsgCounter =
           tap.checkpointMsgCounter - Cardinality(Behind(tap.log, 0, CheckpointEvents))
      /\ \A x : x \in ToSet(tap'.high) <=>
           (x \in ToSet(u.high) \/ \E e \in ToSet(tap.log) : e.ev \in HighEvents /\ x = e.ev)
  BY <1>3 DEF RollsBack, SameStream, SameFlags, SameMessages
<1>5. StreamOK(tap', <<>>, <<>>)
  <2>1. tap'.seqno \in Nat /\ tap'.seqno >= 1
    BY <1>1, <1>2, <1>4 DEF TapRec, StreamOK, LogOK
  <2> QED
    BY <1>4, <2>1, EmptyStream
<1>6. "initial_stream" \in ToSet(tap'.high) <=>
        ("initial_stream" \in ToSet(u.high) \/ InLog(tap.log, "initial_stream"))
  <2>1. "initial_stream" \in HighEvents
    BY EventFacts
  <2> QED
    BY <1>4, <2>1 DEF InLog
<1>7. Announced(tap') => tap'.doRunBackfill
  <2>1. ~InLog(tap'.log, "initial_stream")
    BY <1>4, EmptySet DEF InLog
  <2>2. CASE u.doRunBackfill
    BY <1>4, <2>2
  <2>3. CASE u = t
    <3>1. Announced(tap') => Announced(tap)
      BY <1>3, <1>6, <2>1, <2>3 DEF Announced
    <3> QED
      BY <1>2, <1>3, <1>4, <2>3, <3>1 DEF CountersOK, SameFlags
  <2> QED
    BY <2>2, <2>3, GrabCases
<1>8. /\ tap'.opaqueMsgCounter = 0 /\ tap'.checkpointMsgCounter = 0
  <2>1. tap.log \in Seq(LogRec)
    BY <1>1 DEF TapRec
  <2>2. /\ Behind(tap.log, 0, Opaques) = Numbers(tap.log, Opaques)
        /\ Behind(tap.log, 0, CheckpointEvents) = Numbers(tap.log, CheckpointEvents)
        /\ Cardinality(Numbers(tap.log, Opaques)) \in Nat
        /\ Cardinality(Numbers(tap.log, CheckpointEvents)) \in Nat
    BY <2>1, NumbersFacts
  <2> QED
    BY <1>2, <1>4, <2>2 DEF CountersOK
<1>9. CountersOK(tap')
  <2>1. \A evs : Cardinality(Numbers(tap'.log, evs)) = 0
    BY <1>4, NumbersEmpty
  <2> QED
    BY <1>2, <1>4, <1>7, <1>8, <2>1 DEF CountersOK
<1>10. ToSet(t.high) \subseteq ToSet(tap'.high) \/ "initial_stream" \in ToSet(u.high)
  BY <1>4, GrabCases
<1>11. "initial_stream" \in ToSet(u.high) => StreamPending(tap', <<>>)
  BY <1>6 DEF StreamPending
<1>12. ASSUME StreamPending(tap, toC)
       PROVE  StreamPending(tap', <<>>)
  <2>1. Announced(tap)
    BY <1>1, <1>2, <1>12, StreamAnnounced
  <2>2. "initial_stream" \in ToSet(tap'.high)
    BY <1>3, <1>6, <1>10, <2>1 DEF Announced
  <2> QED
    BY <2>2 DEF StreamPending
<1> QED
  BY <1>5, <1>9, <1>11, <1>12

\* What the phase of the copy says of the point from which it is resumed.
LEMMA PhaseResumed ==
  ASSUME NEW e \in EntryRec, e.chk >= 2, NEW out, NEW delivered, NEW cp \in CopyRec,
         PhaseOK(e, out, delivered, cp)
  PROVE  \/ out = {}
         \/ out = {Message("start", e.chk)} /\ (Point(cp) = 1 \/ Point(cp) = e.chk)
         \/ Point(cp) = e.chk
         \/ /\ e.ev = "end" /\ Point(cp) = e.chk + 1 /\ out = {Message("end", e.chk)}
            /\ cp.open = e.chk /\ cp.closed
<1>1. e.chk \in Nat /\ e.chk # 0 /\ e.chk - 1 # 0 /\ (e.chk - 1) + 1 = e.chk
  BY DEF EntryRec
<1>2. cp.open \in Nat /\ cp.closed \in BOOLEAN
  BY DEF CopyRec
<1>3. cp.open = 0 => Point(cp) = 1
  BY DEF Point
<1>4. cp.open # 0 /\ cp.closed => Point(cp) = cp.open + 1
  BY DEF Point
<1>5. cp.open # 0 /\ ~cp.closed => Point(cp) = cp.open
  BY <1>2 DEF Point
<1>6. Fresh(e.chk, cp) => Point(cp) = 1 \/ Point(cp) = e.chk
  BY <1>1, <1>3, <1>4, <1>5 DEF Fresh
<1> QED
  BY <1>1, <1>2, <1>3, <1>4, <1>5, <1>6 DEF PhaseOK

\* The checkpoint messages that are outstanding, before and after.
LEMMA GrabOutstanding ==
  ASSUME Before, NEW t, NEW u, Grabs(t, u)
  PROVE  /\ Outstanding(tap') = Outstanding(tap)
         /\ ~Delivered(tap', <<>>) /\ ~Delivered(tap, toC)
         /\ \A n : Message("start", n) \in Outstanding(tap) =>
              \E msg \in ToSet(t.checkpointMsgs \o t.log) : msg.ev = "start"
<1>1. /\ ~tap.connected /\ t.log = tap.log /\ t.checkpointMsgs = tap.checkpointMsgs
      /\ u.log = tap.log /\ u.checkpointMsgs = tap.checkpointMsgs /\ RollsBack(u, tap')
  BY DEF Grabs, SameMessages
<1>2. /\ tap'.log = <<>>
      /\ \A x : x \in ToSet(tap'.checkpointMsgs) <=>
           (x \in ToSet(tap.checkpointMsgs)
            \/ \E e \in ToSet(tap.log) : e.ev \in CheckpointEvents /\ x = Message(e.ev, e.n))
  BY <1>1 DEF RollsBack
<1>3. ASSUME NEW x
      PROVE  x \in Outstanding(tap') <=> x \in Outstanding(tap)
  <2>1. x \in Outstanding(tap') <=>
          \/ x \in ToSet(tap'.checkpointMsgs)
          \/ \E e \in ToSet(tap'.log) : e.ev \in CheckpointEvents /\ x = Message(e.ev, e.n)
    BY OutstandingFacts
  <2>2. x \in Outstanding(tap) <=>
          \/ x \in ToSet(tap.checkpointMsgs)
          \/ \E e \in ToSet(tap.log) : e.ev \in CheckpointEvents /\ x = Message(e.ev, e.n)
    BY OutstandingFacts
  <2> QED
    BY <1>2, <2>1, <2>2, EmptySet
<1>4. ~Delivered(tap', <<>>) /\ ~Delivered(tap, toC)
  BY <1>1, <1>2, EmptySet DEF Delivered
<1>5. ASSUME NEW n, Message("start", n) \in Outstanding(tap)
      PROVE  \E msg \in ToSet(t.checkpointMsgs \o t.log) : msg.ev = "start"
  <2> DEFINE S == MessageRec \cup LogRec
  <2>1. tap \in TapRec
    BY BeforeFacts
  <2>2. tap.checkpointMsgs \in Seq(MessageRec) /\ tap.log \in Seq(LogRec)
    BY <2>1 DEF TapRec
  <2>3. tap.checkpointMsgs \in Seq(S) /\ tap.log \in Seq(S)
    BY <2>2
  <2> HIDE DEF S
  <2>4. ToSet(tap.checkpointMsgs \o tap.log) = ToSet(tap.checkpointMsgs) \cup ToSet(tap.log)
    BY <2>3, ConcatFacts
  <2>5. Message("start", n).ev = "start"
    BY DEF Message
  <2>6. \/ Message("start", n) \in ToSet(tap.checkpointMsgs)
        \/ \E e \in ToSet(tap.log) : Message("start", n) = Message(e.ev, e.n)
    BY <1>5, OutstandingFacts
  <2>7. \A e : Message(e.ev, e.n).ev = e.ev
    BY DEF Message
  <2> QED
    BY <1>1, <2>4, <2>5, <2>6, <2>7
<1> QED
  BY <1>3, <1>4, <1>5

LEMMA GrabPhases ==
  ASSUME Before, NEW t, NEW u, Grabs(t, u), Resumable(src.entries, copy),
         "replayed" \notin lapse'
  PROVE  PhasesOK(src', tap', <<>>, copy)
<1> DEFINE E == src.entries
           k == src.cursor
           d == src'.cursor
           out == Outstanding(tap)
           new == Outstanding(tap')
<1>1. /\ TypeOK /\ EntriesInv /\ Sound(src, tap, tasks, toC, toP, copy, lapse)
      /\ copy \in CopyRec
  BY BeforeFacts
<1>2. PhasesOK(src, tap, toC, copy)
  BY <1>1 DEF Sound
<1>3. /\ tap.exists /\ copy.state # "active" /\ SameFlags(tap, t) /\ RollsBack(u, tap')
  BY DEF Grabs
<1>4. /\ new = out
      /\ ~Delivered(tap', <<>>) /\ ~Delivered(tap, toC)
      /\ \A n : Message("start", n) \in out =>
           \E msg \in ToSet(t.checkpointMsgs \o t.log) : msg.ev = "start"
  BY GrabOutstanding
<1>5. /\ src'.entries = E
      /\ \/ /\ tap.backfillVBucket /\ ~ToBackfill(t) /\ u = t /\ d = k
         \/ /\ ~tap.backfillVBucket /\ ToBackfill(t) /\ d = 0 /\ k # 0
            /\ ResumePoint \notin src.first..OpenId
            /\ u.backfillVBucket /\ "initial_stream" \in ToSet(u.high)
         \/ /\ ~tap.backfillVBucket /\ ~ToBackfill(t) /\ u = t /\ k # 0 /\ d # 0
            /\ ResumePoint \in src.first..OpenId
            /\ \/ d = k
               \/ /\ E[k].chk # ResumePoint
                  /\ E[d].ev = "dummy" /\ E[d].chk = ResumePoint /\ Fresh(ResumePoint, copy)
  BY GrabCases
<1>6. /\ tap'.backfillVBucket = u.backfillVBucket
      /\ t.backfillVBucket = tap.backfillVBucket
  BY <1>3 DEF RollsBack, SameFlags
<1>7. /\ StreamPending(tap, toC) => StreamPending(tap', <<>>)
      /\ "initial_stream" \in ToSet(u.high) => StreamPending(tap', <<>>)
  BY GrabCounters
<1>8. ToBackfill(t) => ~\E n : Message("start", n) \in out
  <2>1. lapse' = lapse \cup
          (IF ToBackfill(t) /\ \E msg \in ToSet(t.checkpointMsgs \o t.log) : msg.ev = "start"
           THEN {"replayed"} ELSE {})
    BY DEF Grabs
  <2> QED
    BY <1>4, <2>1
<1>9. /\ k # 0 => PhaseOK(E[k], out, FALSE, copy)
      /\ tap.backfillVBucket => out = {}
      /\ tap.backfillVBucket /\ ~StreamPending(tap, toC) => copy.open = 0 /\ ~copy.closed
  <2>1. Delivered(tap, toC) = FALSE
    BY <1>4 DEF Delivered
  <2> QED
    BY <1>2, <1>3, <2>1 DEF PhasesOK
<1>10. /\ Good(E) /\ ResumePoint = Point(copy) /\ OpenId = Newest(E)
       /\ OpenId \in Nat /\ src.first \in 2..OpenId
       /\ k # 0 => k \in 1..Len(E) /\ E[k].chk \in src.first..OpenId
  BY <1>1, SourceFacts DEF Point
<1>11. k # 0 => /\ E[k] \in EntryRec /\ E[k].chk \in Nat /\ E[k].chk >= 2
                /\ E[k].ev = "end" => E[k].chk < Newest(E)
  BY <1>10, EntryFacts
<1> HIDE DEF E, k, d, out, new
<1>12. k # 0 =>
         \/ out = {}
         \/ out = {Message("start", E[k].chk)} /\ (ResumePoint = 1 \/ ResumePoint = E[k].chk)
         \/ ResumePoint = E[k].chk
         \/ /\ E[k].ev = "end" /\ ResumePoint = E[k].chk + 1
            /\ out = {Message("end", E[k].chk)}
            /\ copy.open = E[k].chk /\ copy.closed
  BY <1>1, <1>9, <1>10, <1>11, PhaseResumed
<1>13. d # 0 => PhaseOK(E[d], out, FALSE, copy)
  <2>1. CASE d = k
    BY <1>9, <2>1
  <2>2. CASE /\ k # 0 /\ E[k].chk # ResumePoint /\ ResumePoint \in src.first..OpenId
             /\ E[d].ev = "dummy" /\ E[d].chk = ResumePoint /\ Fresh(ResumePoint, copy)
    <3>1. ResumePoint # 1
      BY <1>10, <2>2
    <3>2. \/ out = {}
          \/ /\ ResumePoint = E[k].chk + 1 /\ out = {Message("end", E[k].chk)}
             /\ copy.open = E[k].chk /\ copy.closed
      BY <1>12, <2>2, <3>1
    <3>3. ResumePoint = E[k].chk + 1 => ResumePoint - 1 = E[k].chk
      BY <1>11, <2>2
    <3>4. \/ out = {}
          \/ /\ out = {Message("end", E[d].chk - 1)} /\ copy.open = E[d].chk - 1
             /\ copy.closed
      BY <2>2, <3>2, <3>3
    <3>5. E[d].ev = "dummy" /\ Fresh(E[d].chk, copy)
      BY <2>2
    <3> QED
      BY <3>4, <3>5 DEF PhaseOK
  <2> QED
    BY <1>5, <2>1, <2>2
<1>14. u.backfillVBucket => out = {}
  <2>1. CASE ToBackfill(t)
    <3>1. /\ k # 0 /\ ResumePoint \notin src.first..OpenId
          /\ \A n : Message("start", n) \notin out
      BY <1>5, <1>8, <2>1
    <3>2. ResumePoint # E[k].chk
      BY <1>10, <3>1
    <3>3. E[k].ev = "end" => E[k].chk + 1 \in src.first..OpenId
      BY <1>10, <1>11, <3>1
    <3>4. Message("start", E[k].chk) \notin out
      BY <3>1
    <3> QED
      BY <1>12, <3>1, <3>2, <3>3, <3>4
  <2>2. CASE ~ToBackfill(t)
    BY <1>5, <1>6, <1>9, <2>2
  <2> QED
    BY <2>1, <2>2
<1>15. u.backfillVBucket /\ ~StreamPending(tap', <<>>) => copy.open = 0 /\ ~copy.closed
  BY <1>5, <1>6, <1>7, <1>9
<1>16. Delivered(tap', <<>>) = FALSE
  BY <1>4 DEF Delivered
<1> QED
  BY <1>4, <1>5, <1>6, <1>13, <1>14, <1>15, <1>16 DEF PhasesOK, E, k, d, out, new

LEMMA ConnectGrabSound ==
  ASSUME Before, ConnectGrab, Resumable(src.entries, copy)
  PROVE  /\ CoveredOK(src', tap', tasks', toC', toP', copy')
         /\ "replayed" \in lapse' \/ Afterwards
<1> DEFINE E == src.entries
           k == src.cursor
           d == src'.cursor
<1>1. /\ TypeOK /\ EntriesInv /\ Sound(src, tap, tasks, toC, toP, copy, lapse)
  BY BeforeFacts
<1>2. PICK t, u : Grabs(t, u)
  BY GrabFacts
<1>3. /\ ~tap.connected /\ copy.state # "active" /\ tap.exists /\ RollsBack(u, tap')
      /\ SameFlags(tap, t)
  BY <1>2 DEF Grabs
<1>4. toC = <<>> /\ toP = <<>>
  BY <1>3, NotConnected
<1>5. tasks' = tasks /\ toC' = <<>> /\ toP' = <<>> /\ copy' = copy
  BY <1>4 DEF ConnectGrab
<1>6. CoveredOK(src', tap', tasks, <<>>, <<>>, copy)
  BY <1>2, GrabCovered
<1>7. BackfillOK(tap', tasks, src'.cursor)
  BY <1>2, GrabBackfill
<1>8. StreamOK(tap', <<>>, <<>>) /\ CountersOK(tap')
  BY <1>2, GrabCounters
<1>9. CopyOK(E, copy) /\ ConfirmedOK(src, tap, copy)
  BY <1>1 DEF Sound
<1>10. tap'.exists /\ tap'.backfillVBucket = u.backfillVBucket
  <2>1. u.exists
    BY <1>2 DEF Grabs
  <2> QED
    BY <1>3, <2>1 DEF RollsBack, SameStream, SameFlags
<1>11. /\ src'.entries = E
       /\ \/ d = 0 \/ (d = k /\ u = t)
          \/ Items(E, d) \subseteq copy.has
  BY <1>2, GrabCases
<1>12. ConfirmedOK(src', tap', copy)
  <2>1. t.backfillVBucket = tap.backfillVBucket
    BY <1>3 DEF SameFlags
  <2> QED
    BY <1>3, <1>9, <1>10, <1>11, <2>1 DEF ConfirmedOK
<1>13. ~Ending(<<>>, copy)
  BY <1>3, EmptySet DEF Ending
<1>14. EndingOK(src', tap', <<>>, copy, lapse') /\ PendingOK(tap', <<>>, copy)
  BY <1>13, EmptySet DEF EndingOK, PendingOK
<1>15. "replayed" \notin lapse' => PhasesOK(src', tap', <<>>, copy)
  BY <1>2, GrabPhases
<1>16. "replayed" \notin lapse' => Sound(src', tap', tasks, <<>>, <<>>, copy, lapse')
  BY <1>6, <1>7, <1>8, <1>9, <1>11, <1>12, <1>14, <1>15 DEF Sound
<1> QED
  BY <1>5, <1>6, <1>16 DEF Afterwards

-----------------------------------------------------------------------------
(***************************************************************************)
(* What the invariant says of the properties.                              *)
(***************************************************************************)
\* What is kept is what NothingLeftBehind names.
LEMMA CoveredNothing ==
  WellFormed /\ CoveredOK(src, tap, tasks, toC, toP, copy) => NothingLeftBehind
<1> SUFFICES ASSUME WellFormed, CoveredOK(src, tap, tasks, toC, toP, copy),
                    src.cursor # 0, tap.exists
             PROVE  ItemsUpTo(src.cursor) \subseteq
                      copy.has \cup ToSet(tap.queue) \cup ToSet(tap.fetched) \cup ToSet(tap.jobs)
                      \cup {tap.log[i].n : i \in {j \in DOMAIN tap.log : tap.log[j].ev = "item"}}
                      \cup UNION {ToSet(task.mem) \cup ToSet(task.cold) : task \in ToSet(tasks)}
  BY DEF NothingLeftBehind
<1> DEFINE logged == {tap.log[i].n : i \in {j \in DOMAIN tap.log : tap.log[j].ev = "item"}}
           held == UNION {ToSet(task.mem) \cup ToSet(task.cold) : task \in ToSet(tasks)}
<1>1. ItemsUpTo(src.cursor) = Items(src.entries, src.cursor)
  BY SourceFacts DEF WellFormed
<1>2. Items(src.entries, src.cursor) \subseteq Kept(tap, tasks, toC, toP, copy.has)
  BY DEF CoveredOK
<1>3. ASSUME NEW x \in InFlight(tap, toC, toP)
      PROVE  x \in logged
  <2>1. PICK e \in ToSet(tap.log) : e.ev = "item" /\ e.n = x
    BY <1>3 DEF InFlight
  <2>2. PICK i \in DOMAIN tap.log : tap.log[i] = e
    BY <2>1 DEF ToSet
  <2> QED
    BY <2>1, <2>2
<1>4. ASSUME NEW x, Comes(tasks, x)
      PROVE  x \in held
  <2>1. PICK i \in DOMAIN tasks : x \in ToSet(tasks[i].mem) \/ x \in ToSet(tasks[i].cold)
    BY <1>4 DEF Comes
  <2>2. tasks[i] \in ToSet(tasks)
    BY DEF ToSet
  <2> QED
    BY <2>1, <2>2
<1>5. ASSUME NEW x \in Kept(tap, tasks, toC, toP, copy.has)
      PROVE  \/ x \in copy.has \/ x \in ToSet(tap.queue) \/ x \in ToSet(tap.fetched)
             \/ x \in ToSet(tap.jobs) \/ x \in logged \/ x \in held
  BY <1>3, <1>4, KeptFacts
<1> HIDE DEF logged, held
<1>6. ItemsUpTo(src.cursor) \subseteq
        copy.has \cup ToSet(tap.queue) \cup ToSet(tap.fetched) \cup ToSet(tap.jobs)
        \cup logged \cup held
  BY <1>1, <1>2, <1>5
<1> QED
  BY <1>6 DEF logged, held

\* A task that holds all that the cursor has passed.
Holds(E, k, ts) ==
  \E i \in DOMAIN ts : Items(E, k) \subseteq ToSet(ts[i].mem) \cup ToSet(ts[i].cold)

LEMMA HeldNothing ==
  WellFormed /\ Holds(src.entries, src.cursor, tasks) => NothingLeftBehind
<1> SUFFICES ASSUME WellFormed, Holds(src.entries, src.cursor, tasks)
             PROVE  NothingLeftBehind
  OBVIOUS
<1>1. ItemsUpTo(src.cursor) = Items(src.entries, src.cursor)
  BY SourceFacts DEF WellFormed
<1>2. PICK i \in DOMAIN tasks :
        Items(src.entries, src.cursor) \subseteq ToSet(tasks[i].mem) \cup ToSet(tasks[i].cold)
  BY DEF Holds
<1>3. tasks[i] \in ToSet(tasks)
  BY DEF ToSet
<1>4. Items(src.entries, src.cursor) \subseteq
        UNION {ToSet(task.mem) \cup ToSet(task.cold) : task \in ToSet(tasks)}
  BY <1>2, <1>3
<1> QED
  BY <1>1, <1>4 DEF NothingLeftBehind

LEMMA SoundProperties == WellFormed /\ Strong => NothingLeftBehind /\ ActiveIsComplete
<1> SUFFICES ASSUME WellFormed, Strong
             PROVE  NothingLeftBehind /\ ActiveIsComplete
  OBVIOUS
<1>1. /\ CoveredOK(src, tap, tasks, toC, toP, copy)
      /\ EndingOK(src, tap, toC, copy, lapse)
  BY DEF Strong, Sound
<1>2. NothingLeftBehind
  BY <1>1, CoveredNothing
<1>3. Written = Items(src.entries, Len(src.entries))
  BY SourceFacts DEF WellFormed
<1>4. ActiveIsComplete
  BY <1>1, <1>3 DEF ActiveIsComplete, EndingOK, Ending
<1> QED
  BY <1>2, <1>4

\* The same of the next state.
LEMMA CoveredNothingPrimed ==
  WellFormed' /\ (CoveredOK(src, tap, tasks, toC, toP, copy))' => NothingLeftBehind'
BY CoveredNothing, PTL

LEMMA HeldNothingPrimed ==
  WellFormed' /\ (Holds(src.entries, src.cursor, tasks))' => NothingLeftBehind'
BY HeldNothing, PTL

LEMMA SoundPropertiesPrimed == WellFormed' /\ Strong' => NothingLeftBehind' /\ ActiveIsComplete'
BY SoundProperties, PTL

-----------------------------------------------------------------------------
(***************************************************************************)
(* The steps.                                                              *)
(***************************************************************************)
\* After a lapse that is not followed further, only what is kept is left to show.
Lapsed == /\ "stale" \in lapse' \/ "replayed" \in lapse'
          /\ \/ CoveredOK(src', tap', tasks', toC', toP', copy')
             \/ Holds(src'.entries, src'.cursor, tasks')
Outcome == Resumable(src'.entries, copy') /\ (Afterwards \/ Lapsed)

LEMMA OutcomeInv ==
  ASSUME Followed \subseteq {"late"}, WellFormed', Outcome
  PROVE  IInv'
<1>1. ResumePointSound'
  BY ResumablePrimed DEF Outcome
<1>2. CASE Afterwards
  <2>1. Strong'
    BY <1>2 DEF Afterwards, Strong
  <2>2. NothingLeftBehind' /\ ActiveIsComplete'
    BY <2>1, SoundPropertiesPrimed
  <2> QED
    BY <1>1, <2>1, <2>2 DEF IInv, Properties, WellFormed
<1>3. CASE Lapsed
  <2>1. NothingLeftBehind'
    BY <1>3, CoveredNothingPrimed, HeldNothingPrimed DEF Lapsed
  <2>2. lapse' # {} /\ ~Regular'
    BY <1>3 DEF Lapsed, Regular
  <2>3. ActiveIsComplete'
    BY <2>2 DEF ActiveIsComplete
  <2> QED
    BY <1>1, <2>1, <2>2, <2>3 DEF IInv, Properties, WellFormed
<1> QED
  BY <1>2, <1>3 DEF Outcome

LEMMA WalkOutcome ==
  ASSUME Before, Resumable(src.entries, copy), Walk
  PROVE  Outcome
<1> USE DEF Outcome
<1>0. TypeOK /\ EntriesInv
  BY BeforeFacts
<1>1. CASE SendHighPriority
  <2>1. src' = src /\ copy' = copy
    BY <1>0, <1>1, SendHighPriorityFacts DEF SendHighPriority
  <2> QED
    BY <1>1, <2>1, SendHighPrioritySound
<1>2. CASE RunBackfill
  <2>1. src' = src /\ copy' = copy
    BY <1>2 DEF RunBackfill
  <2> QED
    BY <1>2, <2>1, RunBackfillSound
<1>3. CASE SendCheckpointMessage
  <2>1. src' = src /\ copy' = copy
    BY <1>0, <1>3, SendCheckpointMessageFacts DEF SendCheckpointMessage
  <2> QED
    BY <1>3, <2>1, SendCheckpointMessageSound
<1>4. CASE SendFetched
  <2>1. src' = src /\ copy' = copy
    BY <1>0, <1>4, SendFetchedFacts DEF SendFetched
  <2> QED
    BY <1>4, <2>1, SendFetchedSound
<1>5. CASE SendQueued
  <2>1. src' = src /\ copy' = copy
    BY <1>0, <1>5, SendQueuedFacts DEF SendQueued
  <2> QED
    BY <1>5, <2>1, SendQueuedSound
<1>6. CASE ReadCheckpoint
  <2>1. src'.entries = src.entries
    BY <1>0, <1>6, ReadCheckpointFacts DEF ReadsItem, ReadsMessage, Waits, MovedTo
  <2>2. copy' = copy
    BY <1>6 DEF ReadCheckpoint
  <2> QED
    BY <1>6, <2>1, <2>2, ReadCheckpointSound
<1>7. CASE CompleteTakeover
  <2>1. src'.entries = src.entries
    BY <1>0, <1>7, CompleteTakeoverFacts
  <2>2. copy' = copy
    BY <1>7 DEF CompleteTakeover
  <2> QED
    BY <1>7, <2>1, <2>2, CompleteTakeoverSound
<1> QED
  BY <1>1, <1>2, <1>3, <1>4, <1>5, <1>6, <1>7 DEF Walk

LEMMA TaskOutcome ==
  ASSUME Before, Resumable(src.entries, copy), NEW i \in DOMAIN tasks, TaskStep(i)
  PROVE  Outcome
<1>0. TypeOK /\ EntriesInv
  BY BeforeFacts
<1>1. CASE Visit(i)
  <2>1. src'.entries = src.entries /\ DOMAIN tasks' = DOMAIN tasks
    BY <1>0, <1>1, VisitFacts DEF MovedTo
  <2>2. copy' = copy
    BY <1>1 DEF Visit
  <2>3. CASE tasks[i].own
    BY <1>1, <2>1, <2>2, <2>3, VisitSound DEF Outcome
  <2>4. CASE ~tasks[i].own
    <3>1. /\ "stale" \in lapse'
          /\ Items(src'.entries, src'.cursor) \subseteq
               ToSet(tasks'[i].mem) \cup ToSet(tasks'[i].cold)
      BY <1>1, <2>4, VisitSound
    <3>2. Lapsed
      BY <2>1, <3>1 DEF Lapsed, Holds
    <3> QED
      BY <2>1, <2>2, <3>2 DEF Outcome
  <2> QED
    BY <2>3, <2>4
<1>2. CASE Complete(i)
  <2>1. src' = src /\ copy' = copy
    BY <1>2 DEF Complete
  <2> QED
    BY <1>2, <2>1, CompleteSound DEF Outcome, Lapsed
<1>3. CASE LoadFromDisk(i)
  <2>1. src' = src /\ copy' = copy
    BY <1>3 DEF LoadFromDisk
  <2> QED
    BY <1>3, <2>1, LoadFromDiskSound DEF Outcome, Lapsed
<1> QED
  BY <1>1, <1>2, <1>3 DEF TaskStep

LEMMA OtherOutcome ==
  ASSUME Before, Resumable(src.entries, copy),
         BgFetchDone \/ Answer \/ Resume \/ Receive \/ Drop \/ WriteBegins
  PROVE  Outcome
<1> USE DEF Outcome
<1>1. CASE BgFetchDone
  BY <1>1, BgFetchDoneSound DEF BgFetchDone
<1>2. CASE Answer
  <2>1. src' = src /\ copy' = copy
    BY <1>2 DEF Answer, ReceiveAck, ReceiveNack
  <2> QED
    BY <1>2, <2>1, ReceiveAckSound, ReceiveNackSound DEF Answer
<1>3. CASE Resume
  BY <1>3, ResumeSound DEF Resume
<1>4. CASE Receive
  <2>1. src' = src
    BY <1>4 DEF Receive
  <2> QED
    BY <1>4, <2>1, ReceiveSound, ReceiveResumable
<1>5. CASE Drop
  BY <1>5, DropSound DEF Drop
<1>6. CASE WriteBegins
  BY <1>6, WriteBeginsSound DEF WriteBegins
<1> QED
  BY <1>1, <1>2, <1>3, <1>4, <1>5, <1>6

LEMMA ConnectOutcome ==
  ASSUME Before, Resumable(src.entries, copy), Connect
  PROVE  Outcome
<1>0. TypeOK /\ EntriesInv
  BY BeforeFacts
<1>1. CASE ConnectFresh
  <2>1. src'.entries = src.entries
    BY <1>0, <1>1, ConnectFreshFacts DEF MovedTo
  <2>2. copy' = copy
    BY <1>1 DEF ConnectFresh
  <2> QED
    BY <1>1, <2>1, <2>2, ConnectFreshSound DEF Outcome
<1>2. CASE ConnectGrab
  <2>1. src'.entries = src.entries
    BY <1>0, <1>2, ConnectGrabFacts DEF MovedTo
  <2>2. copy' = copy
    BY <1>2 DEF ConnectGrab
  <2> QED
    BY <1>2, <2>1, <2>2, ConnectGrabSound DEF Outcome, Lapsed
<1> QED
  BY <1>1, <1>2 DEF Connect

LEMMA SourceOutcome ==
  ASSUME Before, Resumable(src.entries, copy), WriteQueued \/ CloseCheckpoint \/ FreeCheckpoint
  PROVE  Outcome
<1>0. TypeOK /\ EntriesInv
  BY BeforeFacts
<1>1. CASE WriteQueued
  BY <1>1, WriteQueuedSound, SourceResumable DEF Outcome
<1>2. CASE CloseCheckpoint
  BY <1>2, CloseCheckpointSound, SourceResumable DEF Outcome
<1>3. CASE FreeCheckpoint
  <2>1. src'.entries = src.entries
    BY <1>0, <1>3, FreeCheckpointFacts
  <2>2. copy' = copy
    BY <1>3 DEF FreeCheckpoint
  <2> QED
    BY <1>3, <2>1, <2>2, FreeCheckpointSound DEF Outcome
<1> QED
  BY <1>1, <1>2, <1>3

\* Nothing happens after a lapse that is not followed.
LEMMA NextIsRegular == Next => Regular
<1> SUFFICES ASSUME Next PROVE Regular
  OBVIOUS
<1>1. Walk => Walks
  BY DEF Walk, SendHighPriority, RunBackfill, SendCheckpointMessage, SendFetched, SendQueued,
         ReadCheckpoint, CompleteTakeover, WalksItems, WalksOn
<1>2. Walks => Regular
  BY DEF Walks
<1>3. \A i \in DOMAIN tasks : TaskStep(i) => Regular
  BY DEF TaskStep, Visit, Complete, LoadFromDisk
<1>4. BgFetchDone \/ Answer \/ Resume \/ Receive \/ Drop \/ WriteBegins => Regular
  BY DEF BgFetchDone, Answer, ReceiveAck, ReceiveNack, Resume, Receive, Drop, WriteBegins
<1>5. Connect => Regular
  BY DEF Connect, ConnectFresh, ConnectGrab, MayConnect
<1>6. WriteQueued \/ CloseCheckpoint \/ FreeCheckpoint => Regular
  BY DEF WriteQueued, CloseCheckpoint, FreeCheckpoint
<1> QED
  BY <1>1, <1>2, <1>3, <1>4, <1>5, <1>6 DEF Next

LEMMA StepInv ==
  ASSUME Followed \subseteq {"late"}, IInv, NotRotated, Next
  PROVE  IInv'
<1>1. Before /\ WellFormed
  BY NextIsRegular DEF IInv, Before, WellFormed
<1>2. Resumable(src.entries, copy)
  BY <1>1, ResumableFacts DEF IInv, Properties
<1>3. CASE Walk
  BY <1>1, <1>2, <1>3, WalkOutcome, WalkWellFormed, OutcomeInv
<1>4. CASE \E i \in DOMAIN tasks : TaskStep(i)
  BY <1>1, <1>2, <1>4, TaskOutcome, TaskWellFormed, OutcomeInv
<1>5. CASE BgFetchDone \/ Answer \/ Resume \/ Receive \/ Drop \/ WriteBegins
  BY <1>1, <1>2, <1>5, OtherOutcome, OtherWellFormed, OutcomeInv
<1>6. CASE Connect
  BY <1>1, <1>2, <1>6, ConnectOutcome, ConnectWellFormed, OutcomeInv
<1>7. CASE WriteQueued \/ CloseCheckpoint \/ FreeCheckpoint
  BY <1>1, <1>2, <1>7, SourceOutcome, SourceWellFormed, OutcomeInv
<1> QED
  BY <1>3, <1>4, <1>5, <1>6, <1>7 DEF Next

LEMMA StutterInv ==
  ASSUME IInv, UNCHANGED vars
  PROVE  IInv'
<1>1. WellFormed'
  BY StutterWellFormed DEF IInv, WellFormed
<1>2. /\ src' = src /\ tap' = tap /\ tasks' = tasks /\ toC' = toC /\ toP' = toP
      /\ copy' = copy /\ lapse' = lapse
  BY DEF vars
<1>3. Regular' = Regular /\ Strong' = Strong
  BY <1>2 DEF Regular, Strong
<1>4. NothingLeftBehind'
  BY <1>2 DEF IInv, Properties, NothingLeftBehind, ItemsUpTo
<1>5. ResumePointSound'
  BY <1>2 DEF IInv, Properties, ResumePointSound, ChkAt, ResumePoint
<1>6. ActiveIsComplete'
  BY <1>2 DEF IInv, Properties, ActiveIsComplete, Written
<1> QED
  BY <1>1, <1>3, <1>4, <1>5, <1>6 DEF IInv, Properties, WellFormed

-----------------------------------------------------------------------------
(***************************************************************************)
(* The theorems.                                                           *)
(***************************************************************************)
LEMMA InitInv == Init => IInv
<1> SUFFICES ASSUME Init PROVE IInv
  OBVIOUS
<1>1. WellFormed
  BY InitWellFormed
<1>2. /\ tap = NoTap /\ tasks = <<>> /\ toC = <<>> /\ toP = <<>> /\ lapse = {}
      /\ src.cursor = 0 /\ src.entries = Opened(2)
      /\ copy.state = "replica" /\ copy.open = 0 /\ ~copy.closed
  BY DEF Init
<1>3. /\ ~tap.exists /\ ~tap.connected /\ tap.log = <<>>
      /\ tap.seqno = 1 /\ tap.seqnoReceived = 0 /\ ~tap.isSeqNumRotated /\ ~tap.isLastAckSucceed
      /\ tap.high = <<>> /\ tap.checkpointMsgs = <<>>
      /\ tap.opaqueMsgCounter = 0 /\ tap.checkpointMsgCounter = 0
      /\ ~tap.doRunBackfill /\ tap.backfillCompleted = TRUE /\ tap.backfillVBucket = FALSE
      /\ tap.pendingBackfill = 0 /\ tap.diskBackfill = 0
  BY <1>2 DEF NoTap, InitialSeqno
<1>4. DOMAIN tasks = {}
  BY <1>2
<1>5. ToSet(<<>>) = {} /\ Increasing(<<>>) /\ Len(<<>>) = 0
  BY EmptySet
<1>6. BackfillOK(tap, tasks, src.cursor)
  <2>1. ~Pending(tasks) /\ ~OnDisk(tasks) /\ ~Unvisited(tasks) /\ TasksOK(tasks)
    BY <1>4 DEF Pending, OnDisk, Unvisited, TasksOK
  <2> QED
    BY <1>3, <1>4, <2>1 DEF BackfillOK
<1>7. StreamOK(tap, toC, toP)
  <2>1. LogOK(tap)
    BY <1>3, <1>5 DEF LogOK
  <2>2. SentOK(tap, toC) /\ AnsweredOK(tap, toC, toP) /\ Awaited(tap, toC, toP)
    BY <1>2, <1>3, <1>5 DEF SentOK, AnsweredOK, Awaited
  <2>3. AckedOK(tap)
    BY <1>3, <1>5 DEF AckedOK
  <2> QED
    BY <1>3, <2>1, <2>2, <2>3 DEF StreamOK
<1>8. CountersOK(tap)
  <2>1. \A evs : Cardinality(Numbers(tap.log, evs)) = 0
    BY <1>3, NumbersEmpty
  <2>2. ~Announced(tap)
    BY <1>3, <1>5 DEF Announced, InLog
  <2> QED
    BY <1>3, <1>5, <2>1, <2>2 DEF CountersOK
<1>9. CoveredOK(src, tap, tasks, toC, toP, copy) /\ ConfirmedOK(src, tap, copy)
  BY <1>3 DEF CoveredOK, ConfirmedOK
<1>10. PhasesOK(src, tap, toC, copy)
  BY <1>2, <1>3 DEF PhasesOK
<1>11. CopyOK(src.entries, copy)
  BY <1>2 DEF CopyOK
<1>12. ~Ending(toC, copy)
  BY <1>2, <1>5 DEF Ending
<1>13. EndingOK(src, tap, toC, copy, lapse) /\ PendingOK(tap, toC, copy)
  BY <1>2, <1>5, <1>12 DEF EndingOK, PendingOK
<1>14. Strong
  BY <1>6, <1>7, <1>8, <1>9, <1>10, <1>11, <1>13 DEF Strong, Sound
<1>15. ResumePointSound
  <2>1. \A i \in 1..2 : Opened(2)[i].ev # "item"
    BY EntryValues DEF Opened
  <2>2. DOMAIN src.entries = 1..2
    BY <1>2 DEF Opened
  <2> QED
    BY <1>2, <2>1, <2>2 DEF ResumePointSound
<1> QED
  BY <1>1, <1>14, <1>15, SoundProperties DEF IInv, Properties, WellFormed

\* The inductive invariant, as long as the sequence numbers of the producer do not wrap
\* around and behaviours are followed up to the first lapse other than a late write.
THEOREM SpecInv ==
  ASSUME Followed \subseteq {"late"}
  PROVE  Spec /\ []NotRotated => []IInv
<1>1. Init => IInv
  BY InitInv
<1>2. IInv /\ NotRotated /\ [Next]_vars => IInv'
  BY StepInv, StutterInv
<1> QED
  BY <1>1, <1>2, PTL DEF Spec

\* What the cursor has passed is with the copy, or is still to be sent, waits for its ack,
\* or is being fetched or backfilled: the producer never forgets an item, whatever is
\* refused, lost with a connection or interrupted by another connection.
THEOREM NothingIsLeftBehind ==
  ASSUME Followed \subseteq {"late"}
  PROVE  Spec /\ []NotRotated => []NothingLeftBehind
<1>1. IInv => NothingLeftBehind
  BY DEF IInv, Properties
<1> QED
  BY <1>1, SpecInv, PTL

\* The copy has every mutation of the checkpoints before the one it would be resumed from:
\* what ns_server does with the copy's checkpoint id loses nothing.
THEOREM ResumePointIsSound ==
  ASSUME Followed \subseteq {"late"}
  PROVE  Spec /\ []NotRotated => []ResumePointSound
<1>1. IInv => ResumePointSound
  BY DEF IInv, Properties
<1> QED
  BY <1>1, SpecInv, PTL

\* A takeover makes the copy active only when the source is dead and the copy has every
\* mutation, unless a write that began before the source died came after it.
THEOREM ActiveCopyIsComplete ==
  ASSUME Followed \subseteq {"late"}
  PROVE  Spec /\ []NotRotated => []ActiveIsComplete
<1>1. IInv => ActiveIsComplete
  BY DEF IInv, Properties
<1> QED
  BY <1>1, SpecInv, PTL
=============================================================================
