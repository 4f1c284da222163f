-------------------------- MODULE BucketEngine_proofs --------------------------
(***************************************************************************)
(* For every set of connections and buckets, and every number of handles:  *)
(* the two counters of a handle count what their comments say, nobody is   *)
(* inside an engine that is destroyed, an engine is destroyed once, no     *)
(* handle is freed while something refers to it, and the client that       *)
(* deletes a bucket is not answered before it is gone.                     *)
(*                                                                         *)
(* None of this is inductive: the counters are exact only as a connection  *)
(* never refers to a handle through a field that its state does not use,   *)
(* and what they guard rests on the order in which state is read and the   *)
(* counters change.  It is proved together, as IInv.                       *)
(***************************************************************************)
EXTENDS BucketEngine, FiniteSetTheorems, TLAPS
-----------------------------------------------------------------------------
(***************************************************************************)
(* The inductive invariant: a connection.                                  *)
(***************************************************************************)

Bit(p) == IF p THEN 1 ELSE 0
Used(h) == h \in Handles /\ phase[h] # "unused"

\* From the increment of clients on, the call knows its handle.
Calling == {"entered", "inside", "reserve", "assign", "stop", "leave", "left", "maybe",
            "start_shutdown"}

\* Which steps an operation has,
StepOf(op, pc) ==
  \/ op = "none" /\ pc = "idle"
  \/ op \in {"connect", "auth", "select", "delete"} /\ pc \in {"find", "set", "release_old", "release_found"}
  \/ op \in {"connect", "auth", "select"} /\ pc = "auto_create"
  \/ op = "delete" /\ pc \in {"mark", "stop", "leave", "left", "maybe", "start_shutdown", "returned"}
  \/ op \in {"call", "tap", "ship_log", "disconnect"} /\
       pc \in {"entered", "inside", "leave", "left", "maybe", "start_shutdown", "returned"}
  \/ op = "tap" /\ pc \in {"reserve", "assign"}
  \/ op = "disconnect" /\ pc \in {"free_es", "close"}

\* and in which states of the connection it runs.
PlaceOf(op, at) ==
  \/ op = "none" /\ at \in {"closed", "idle", "tap", "blocked", "pending_close"}
  \/ op \in {"connect", "auth", "select", "delete", "call", "tap"} /\ at = "idle"
  \/ op = "ship_log" /\ at = "tap"
  \/ op = "disconnect" /\ at \in {"pending_close", "immediate_close"}

\* A worker thread refers to handles only where it is about to let go of them.
WorkerOK(c) ==
  /\ StepOf(worker[c].op, worker[c].pc) /\ PlaceOf(worker[c].op, core[c].at)
  /\ \A h \in {worker[c].found, worker[c].old} : h = None \/ Used(h)
  /\ worker[c].found # None =>
       worker[c].op \in {"connect", "auth", "select", "delete"}
       /\ worker[c].pc \notin {"find", "auto_create"}
  /\ worker[c].old # None => worker[c].pc \in {"release_old", "close"}
  /\ worker[c].pc = "mark" => worker[c].found # None
  /\ worker[c].pc \in Calling => Used(worker[c].peh)

\* A TAP_CONNECT that may have its reservation, rejected or not.
Reserving(c) ==
  worker[c].op = "tap"
  /\ worker[c].pc \in {"assign", "leave", "left", "maybe", "start_shutdown", "returned"}

\* A connection is reserved at most once, as a TAP stream, until it is released
\* in three steps; the engine's reference on it goes with the last.
Holds(c) == es[c].reserved > 0 \/ releaser[c].pc # "none"
ReservedOK(c) ==
  /\ es[c].peh = None \/ Used(es[c].peh)
  /\ releaser[c].peh = None \/ Used(releaser[c].peh)
  /\ es[c].reserved \in 0..1 /\ (es[c].reserved = 0 \/ releaser[c].pc = "none")
  /\ es[c].reserved > 0 => es[c].peh # None
  /\ releaser[c].peh # None => releaser[c].pc = "decremented"
  /\ core[c].refcount = 1 + Bit(Holds(c))
  /\ Holds(c) => core[c].at \in {"tap", "pending_close"} \/ Reserving(c)
  /\ worker[c].op = "tap" /\ worker[c].pc \in {"entered", "inside", "reserve"} =>
       es[c].peh = worker[c].peh

\* A client waits from where it stops the bucket to its answer, and nothing is pending
\* for a connection that takes commands.
WaitingOK(c) ==
  /\ core[c].pending => core[c].at \notin {"closed", "idle"}
  /\ core[c].at = "blocked" => es[c].waiting
  /\ es[c].waiting =>
       /\ ~Holds(c)
       /\ \/ core[c].at = "blocked"
          \/ worker[c].op = "delete" /\ worker[c].pc \notin {"find", "mark", "stop"}

ConnOK(c) == WorkerOK(c) /\ ReservedOK(c) /\ WaitingOK(c)
-----------------------------------------------------------------------------
(***************************************************************************)
(* A handle, its shutdown thread and the counters.                         *)
(***************************************************************************)

InTable(h) == \E n \in Names : engines[n] = h
TableOK == \A m, n \in Names : engines[m] # None /\ engines[m] = engines[n] => m = n

\* The bucket's state follows its shutdown thread, and only a shutdown of the process
\* destroys an engine that has none.
Untouched(h) == phase[h] = "up" \/ (shutdown.pc = "done" /\ phase[h] = "destroyed")
LifeOK(h) ==
  \/ phase[h] = "unused" /\ killer[h] = "none" /\ state[h] = "NULL"
  \/ Untouched(h) /\ killer[h] = "none" /\ state[h] \in {"RUNNING", "STOPPING"}
  \/ Untouched(h) /\ killer[h] \in {"started", "skipped"} /\ state[h] = "STOPPED"
  \/ phase[h] = "up" /\ killer[h] = "destroy" /\ state[h] = "STOPPED"
  \/ phase[h] = "destroyed" /\ killer[h] = "unlink" /\ state[h] = "STOPPED"
  \/ phase[h] = "destroyed" /\ killer[h] \in {"notify", "check", "asleep", "free"} /\ state[h] = "NULL"
  \/ phase[h] = "freed" /\ killer[h] \in {"leave", "ended"} /\ state[h] = "NULL"

Unlinked == {"notify", "check", "asleep", "free", "leave", "ended"}
HandleOK(h) ==
  /\ LifeOK(h)
  /\ InTable(h) <=> phase[h] # "unused" /\ killer[h] \notin Unlinked
  /\ phase[h] = "unused" => refcount[h] = 0
  /\ cookie[h] = None <=> state[h] = "RUNNING" \/ phase[h] = "unused"

\* When somebody has seen that nobody is left inside a stopped bucket, that stays so.
Leaves(h) == \E c \in Conns : worker[c].pc = "start_shutdown" /\ worker[c].peh = h
Inners(h) == {c \in Conns : worker[c].pc \in {"inside", "reserve", "assign"} /\ worker[c].peh = h}
QuietOK == \A h \in Handles : killer[h] # "none" \/ Leaves(h) => state[h] # "RUNNING" /\ Inners(h) = {}

Counting == {"destroy", "unlink", "notify", "check", "asleep", "free", "leave"}
ShutdownOK ==
  /\ shutdown.counter = Cardinality({h \in Handles : killer[h] \in Counting})
  /\ shutdown.inProgress <=> shutdown.pc \in {"wait", "iterate", "done"}
  /\ shutdown.pc # "no" => \A c \in Conns : worker[c].pc = "idle"
  /\ shutdown.pc \in {"iterate", "done"} => shutdown.counter = 0

\* A handle that the shutdown thread has found without references never gets one.
FreedOK ==
  \A h \in Handles : killer[h] \in {"free", "leave", "ended"} /\ ~shutdown.inProgress => refcount[h] = 0

\* A client waits for one bucket at a time, and has no answer as long as the bucket's
\* shutdown thread has not sent it.
Unanswered(h) == cookie[h] # None /\ killer[h] \in {"none", "started", "skipped", "destroy", "unlink", "notify"}
AnswersOK ==
  /\ \A h \in Handles : Unanswered(h) => es[cookie[h]].waiting /\ ~core[cookie[h]].pending
  /\ \A g, h \in Handles : Unanswered(g) /\ Unanswered(h) /\ cookie[g] = cookie[h] => g = h

IInv ==
  /\ TypeOK /\ \A c \in Conns : ConnOK(c)
  /\ TableOK /\ \A h \in Handles : HandleOK(h)
  /\ QuietOK /\ ShutdownOK /\ FreedOK /\ AnswersOK
  /\ ClientsCounted /\ RefcountExact
-----------------------------------------------------------------------------
(***************************************************************************)
(* Counting: what a step of one connection changes in the counters.        *)
(***************************************************************************)

LEMMA Finiteness ==
  /\ IsFiniteSet(Conns) /\ IsFiniteSet(Names) /\ IsFiniteSet(Handles)
  /\ IsFiniteSet(Conns \X (1..2)) /\ IsFiniteSet(Conns \X {"found", "old"})
<1>1. IsFiniteSet(Conns) /\ IsFiniteSet(Names) /\ MaxHandles \in Nat
  BY RolesAssumption
<1>2. IsFiniteSet(Handles) /\ IsFiniteSet(1..2)
  <2>1. 1 \in Int /\ 2 \in Int /\ MaxHandles \in Int
    BY <1>1
  <2> QED
    BY <2>1, FS_Interval DEF Handles
<1>3. IsFiniteSet({"found", "old"})
  <2>1. IsFiniteSet({"found"} \cup {"old"})
    BY FS_Singleton, FS_AddElement
  <2>2. {"found"} \cup {"old"} = {"found", "old"}
    OBVIOUS
  <2> QED
    BY <2>1, <2>2
<1> QED
  BY <1>1, <1>2, <1>3, FS_Product

\* Two sets that differ in one element at most.
LEMMA CountChange ==
  ASSUME NEW S, IsFiniteSet(S), NEW x, NEW A, A \subseteq S, NEW B, B \subseteq S,
         \A y \in S : y # x => (y \in A <=> y \in B)
  PROVE  /\ Cardinality(A) \in Nat /\ Cardinality(B) \in Nat
         /\ Cardinality(A) >= Bit(x \in A)
         /\ Cardinality(B) = Cardinality(A) + Bit(x \in B) - Bit(x \in A)
<1> DEFINE C == A \ {x}
<1>1. IsFiniteSet(A) /\ IsFiniteSet(B)
  BY FS_Subset
<1>2. C = B \ {x}
  OBVIOUS
<1>3. /\ Cardinality(A) \in Nat /\ Cardinality(B) \in Nat
      /\ IsFiniteSet(C) /\ Cardinality(C) \in Nat
  BY <1>1, FS_RemoveElement, FS_CardinalityType
<1>4. /\ Cardinality(C) = IF x \in A THEN Cardinality(A) - 1 ELSE Cardinality(A)
      /\ Cardinality(C) = IF x \in B THEN Cardinality(B) - 1 ELSE Cardinality(B)
  BY <1>1, <1>2, FS_RemoveElement
<1> HIDE DEF C
<1> QED
  BY <1>3, <1>4 DEF Bit

\* A set that differs in two elements at most.
LEMMA CountChange2 ==
  ASSUME NEW S, IsFiniteSet(S), NEW x \in S, NEW z \in S, x # z,
         NEW A, A \subseteq S, NEW B, B \subseteq S,
         \A y \in S : y # x /\ y # z => (y \in A <=> y \in B)
  PROVE  /\ Cardinality(A) \in Nat /\ Cardinality(B) \in Nat
         /\ Cardinality(A) >= Bit(x \in A) + Bit(z \in A)
         /\ Cardinality(B) = Cardinality(A) + Bit(x \in B) - Bit(x \in A)
                             + Bit(z \in B) - Bit(z \in A)
<1> DEFINE C == {y \in S : IF y = x THEN x \in B ELSE y \in A}
           D == {y \in S : y # x /\ y \in A}
<1>1. /\ Cardinality(A) \in Nat /\ Cardinality(C) \in Nat
      /\ Cardinality(C) = Cardinality(A) + Bit(x \in C) - Bit(x \in A)
  <2>1. \A y \in S : y # x => (y \in A <=> y \in C)
    OBVIOUS
  <2>2. C \subseteq S
    OBVIOUS
  <2> HIDE DEF C
  <2> QED
    BY <2>1, <2>2, CountChange
<1>2. /\ Cardinality(B) \in Nat
      /\ Cardinality(B) = Cardinality(C) + Bit(z \in B) - Bit(z \in C)
  <2>1. \A y \in S : y # z => (y \in C <=> y \in B)
    OBVIOUS
  <2>2. C \subseteq S
    OBVIOUS
  <2> HIDE DEF C
  <2> QED
    BY <2>1, <2>2, CountChange
<1>3. Cardinality(D) = Cardinality(A) + Bit(x \in D) - Bit(x \in A) /\ Cardinality(D) \in Nat
  <2>1. \A y \in S : y # x => (y \in A <=> y \in D)
    OBVIOUS
  <2>2. D \subseteq S
    OBVIOUS
  <2> HIDE DEF D
  <2> QED
    BY <2>1, <2>2, CountChange
<1>4. Cardinality(D) >= Bit(z \in D)
  <2>1. D \subseteq S
    OBVIOUS
  <2> HIDE DEF D
  <2> QED
    BY <2>1, CountChange
<1>5. /\ (x \in C <=> x \in B) /\ (z \in C <=> z \in A)
      /\ x \notin D /\ (z \in D <=> z \in A)
  OBVIOUS
<1> HIDE DEF C, D
<1> QED
  BY <1>1, <1>2, <1>3, <1>4, <1>5 DEF Bit

\* What a connection contributes to the references of a handle.
Weight(c, h) ==
  Bit(es[c].peh = h) + Bit(es[c].peh = h /\ 1 <= es[c].reserved)
  + Bit(es[c].peh = h /\ 2 <= es[c].reserved)
  + Bit("found" \in Temporary(c, h)) + Bit("old" \in Temporary(c, h))
  + Bit(releaser[c].peh = h)

TableRefs(h) == {n \in Names : engines[n] = h}
ConnRefs(h) == {c \in Conns : es[c].peh = h}
ReservedRefs(h) == {r \in Conns \X (1..2) : es[r[1]].peh = h /\ r[2] <= es[r[1]].reserved}
TemporaryRefs(h) == {t \in Conns \X {"found", "old"} : t[2] \in Temporary(t[1], h)}
ReleaserRefs(h) == {c \in Conns : releaser[c].peh = h}

Others(c) ==
  \A d \in Conns : d # c =>
    es'[d] = es[d] /\ core'[d] = core[d] /\ worker'[d] = worker[d] /\ releaser'[d] = releaser[d]

\* All references but the table's.
Held(h) ==
  Cardinality(ConnRefs(h)) + Cardinality(ReservedRefs(h)) + Cardinality(TemporaryRefs(h))
  + Cardinality(ReleaserRefs(h))

\* The step of a connection changes them by what it contributes.
LEMMA HeldChange ==
  ASSUME NEW c \in Conns, NEW h, Others(c)
  PROVE  /\ Held(h) \in Nat /\ Held(h)' \in Nat /\ Held(h) >= Weight(c, h)
         /\ Held(h)' = Held(h) + Weight(c, h)' - Weight(c, h)
<1>2. /\ Cardinality(ConnRefs(h)) \in Nat /\ Cardinality(ConnRefs(h)') \in Nat
      /\ Cardinality(ConnRefs(h)) >= Bit(c \in ConnRefs(h))
      /\ Cardinality(ConnRefs(h)') = Cardinality(ConnRefs(h)) + Bit(c \in ConnRefs(h)') - Bit(c \in ConnRefs(h))
  <2>1. /\ ConnRefs(h) \subseteq Conns /\ ConnRefs(h)' \subseteq Conns
        /\ \A y \in Conns : y # c => (y \in ConnRefs(h) <=> y \in ConnRefs(h)')
    BY DEF ConnRefs, Others
  <2> QED
    BY <2>1, Finiteness, CountChange
<1>3. /\ Cardinality(ReleaserRefs(h)) \in Nat /\ Cardinality(ReleaserRefs(h)') \in Nat
      /\ Cardinality(ReleaserRefs(h)) >= Bit(c \in ReleaserRefs(h))
      /\ Cardinality(ReleaserRefs(h)') = Cardinality(ReleaserRefs(h)) + Bit(c \in ReleaserRefs(h)') - Bit(c \in ReleaserRefs(h))
  <2>1. /\ ReleaserRefs(h) \subseteq Conns /\ ReleaserRefs(h)' \subseteq Conns
        /\ \A y \in Conns : y # c => (y \in ReleaserRefs(h) <=> y \in ReleaserRefs(h)')
    BY DEF ReleaserRefs, Others
  <2> QED
    BY <2>1, Finiteness, CountChange
<1>4. /\ Cardinality(ReservedRefs(h)) \in Nat /\ Cardinality(ReservedRefs(h)') \in Nat
      /\ Cardinality(ReservedRefs(h)) >= Bit(<<c, 1>> \in ReservedRefs(h)) + Bit(<<c, 2>> \in ReservedRefs(h))
      /\ Cardinality(ReservedRefs(h)') = Cardinality(ReservedRefs(h))
           + Bit(<<c, 1>> \in ReservedRefs(h)') - Bit(<<c, 1>> \in ReservedRefs(h))
           + Bit(<<c, 2>> \in ReservedRefs(h)') - Bit(<<c, 2>> \in ReservedRefs(h))
  <2>1. /\ ReservedRefs(h) \subseteq Conns \X (1..2)
        /\ ReservedRefs(h)' \subseteq Conns \X (1..2)
    BY DEF ReservedRefs
  <2>2. <<c, 1>> \in Conns \X (1..2) /\ <<c, 2>> \in Conns \X (1..2) /\ <<c, 1>> # <<c, 2>>
    OBVIOUS
  <2>3. \A y \in Conns \X (1..2) : y # <<c, 1>> /\ y # <<c, 2>> =>
          (y \in ReservedRefs(h) <=> y \in ReservedRefs(h)')
    BY DEF ReservedRefs, Others
  <2> QED
    BY <2>1, <2>2, <2>3, Finiteness, CountChange2
<1>5. /\ Cardinality(TemporaryRefs(h)) \in Nat /\ Cardinality(TemporaryRefs(h)') \in Nat
      /\ Cardinality(TemporaryRefs(h)) >= Bit(<<c, "found">> \in TemporaryRefs(h)) + Bit(<<c, "old">> \in TemporaryRefs(h))
      /\ Cardinality(TemporaryRefs(h)') = Cardinality(TemporaryRefs(h))
           + Bit(<<c, "found">> \in TemporaryRefs(h)') - Bit(<<c, "found">> \in TemporaryRefs(h))
           + Bit(<<c, "old">> \in TemporaryRefs(h)') - Bit(<<c, "old">> \in TemporaryRefs(h))
  <2>1. /\ TemporaryRefs(h) \subseteq Conns \X {"found", "old"}
        /\ TemporaryRefs(h)' \subseteq Conns \X {"found", "old"}
    BY DEF TemporaryRefs
  <2>2. /\ <<c, "found">> \in Conns \X {"found", "old"} /\ <<c, "old">> \in Conns \X {"found", "old"}
        /\ <<c, "found">> # <<c, "old">>
    OBVIOUS
  <2>3. \A y \in Conns \X {"found", "old"} : y # <<c, "found">> /\ y # <<c, "old">> =>
          (y \in TemporaryRefs(h) <=> y \in TemporaryRefs(h)')
    BY DEF TemporaryRefs, Others, Temporary
  <2>4. ASSUME NEW x, NEW z, x = <<c, "found">>, z = <<c, "old">>,
               NEW S, S = Conns \X {"found", "old"}
        PROVE  /\ Cardinality(TemporaryRefs(h)) \in Nat /\ Cardinality(TemporaryRefs(h)') \in Nat
               /\ Cardinality(TemporaryRefs(h)) >= Bit(x \in TemporaryRefs(h)) + Bit(z \in TemporaryRefs(h))
               /\ Cardinality(TemporaryRefs(h)') = Cardinality(TemporaryRefs(h))
                    + Bit(x \in TemporaryRefs(h)') - Bit(x \in TemporaryRefs(h))
                    + Bit(z \in TemporaryRefs(h)') - Bit(z \in TemporaryRefs(h))
    <3>1. /\ x \in S /\ z \in S /\ x # z /\ IsFiniteSet(S)
          /\ TemporaryRefs(h) \subseteq S /\ TemporaryRefs(h)' \subseteq S
          /\ \A y \in S : y # x /\ y # z => (y \in TemporaryRefs(h) <=> y \in TemporaryRefs(h)')
      BY <2>1, <2>2, <2>3, <2>4, Finiteness
    <3> QED
      BY <3>1, CountChange2
  <2> QED
    BY <2>4
<1>6. /\ (c \in ConnRefs(h)) <=> es[c].peh = h
      /\ (c \in ReleaserRefs(h)) <=> releaser[c].peh = h
      /\ (<<c, 1>> \in ReservedRefs(h)) <=> es[c].peh = h /\ 1 <= es[c].reserved
      /\ (<<c, 2>> \in ReservedRefs(h)) <=> es[c].peh = h /\ 2 <= es[c].reserved
      /\ (<<c, "found">> \in TemporaryRefs(h)) <=> "found" \in Temporary(c, h)
      /\ (<<c, "old">> \in TemporaryRefs(h)) <=> "old" \in Temporary(c, h)
  BY DEF ConnRefs, ReleaserRefs, ReservedRefs, TemporaryRefs
<1>7. /\ (c \in ConnRefs(h)') <=> es'[c].peh = h
      /\ (c \in ReleaserRefs(h)') <=> releaser'[c].peh = h
      /\ (<<c, 1>> \in ReservedRefs(h)') <=> es'[c].peh = h /\ 1 <= es'[c].reserved
      /\ (<<c, 2>> \in ReservedRefs(h)') <=> es'[c].peh = h /\ 2 <= es'[c].reserved
      /\ (<<c, "found">> \in TemporaryRefs(h)') <=> ("found" \in Temporary(c, h))'
      /\ (<<c, "old">> \in TemporaryRefs(h)') <=> ("old" \in Temporary(c, h))'
  BY DEF ConnRefs, ReleaserRefs, ReservedRefs, TemporaryRefs
<1>8. Weight(c, h) = Bit(c \in ConnRefs(h)) + Bit(<<c, 1>> \in ReservedRefs(h))
                     + Bit(<<c, 2>> \in ReservedRefs(h)) + Bit(<<c, "found">> \in TemporaryRefs(h))
                     + Bit(<<c, "old">> \in TemporaryRefs(h)) + Bit(c \in ReleaserRefs(h))
  BY <1>6 DEF Weight, Bit
<1>9. Weight(c, h)' = Bit(c \in ConnRefs(h)') + Bit(<<c, 1>> \in ReservedRefs(h)')
                     + Bit(<<c, 2>> \in ReservedRefs(h)') + Bit(<<c, "found">> \in TemporaryRefs(h)')
                     + Bit(<<c, "old">> \in TemporaryRefs(h)') + Bit(c \in ReleaserRefs(h)')
  BY <1>7 DEF Weight, Bit
<1> QED
  BY <1>2, <1>3, <1>4, <1>5, <1>8, <1>9 DEF Bit, Held

\* References are those of the table and those that connections hold.
LEMMA RefSplit ==
  ASSUME NEW h
  PROVE  /\ References(h) = Cardinality(TableRefs(h)) + Held(h)
         /\ References(h)' = Cardinality(TableRefs(h)') + Held(h)'
         /\ Cardinality(TableRefs(h)) \in Nat /\ Cardinality(TableRefs(h)') \in Nat
<1>1. ASSUME NEW S, IsFiniteSet(S), NEW T, T \subseteq S
      PROVE  Cardinality(T) \in Nat
  BY <1>1, FS_Subset, FS_CardinalityType
<1>2. /\ TableRefs(h) \subseteq Names /\ ConnRefs(h) \subseteq Conns
      /\ ReservedRefs(h) \subseteq Conns \X (1..2) /\ ReleaserRefs(h) \subseteq Conns
      /\ TemporaryRefs(h) \subseteq Conns \X {"found", "old"}
  BY DEF TableRefs, ConnRefs, ReservedRefs, TemporaryRefs, ReleaserRefs
<1>3. /\ TableRefs(h)' \subseteq Names /\ ConnRefs(h)' \subseteq Conns
      /\ ReservedRefs(h)' \subseteq Conns \X (1..2) /\ ReleaserRefs(h)' \subseteq Conns
      /\ TemporaryRefs(h)' \subseteq Conns \X {"found", "old"}
  BY DEF TableRefs, ConnRefs, ReservedRefs, TemporaryRefs, ReleaserRefs
<1>4. /\ Cardinality(TableRefs(h)) \in Nat /\ Cardinality(ConnRefs(h)) \in Nat
      /\ Cardinality(ReservedRefs(h)) \in Nat /\ Cardinality(TemporaryRefs(h)) \in Nat
      /\ Cardinality(ReleaserRefs(h)) \in Nat
  BY <1>1, <1>2, Finiteness
<1>5. /\ Cardinality(TableRefs(h)') \in Nat /\ Cardinality(ConnRefs(h)') \in Nat
      /\ Cardinality(ReservedRefs(h)') \in Nat /\ Cardinality(TemporaryRefs(h)') \in Nat
      /\ Cardinality(ReleaserRefs(h)') \in Nat
  BY <1>1, <1>3, Finiteness
<1>6. /\ References(h) = Cardinality(TableRefs(h)) + Cardinality(ConnRefs(h))
           + Cardinality(ReservedRefs(h)) + Cardinality(TemporaryRefs(h))
           + Cardinality(ReleaserRefs(h))
      /\ References(h)' = Cardinality(TableRefs(h)') + Cardinality(ConnRefs(h)')
           + Cardinality(ReservedRefs(h)') + Cardinality(TemporaryRefs(h)')
           + Cardinality(ReleaserRefs(h)')
  BY DEF References, TableRefs, ConnRefs, ReservedRefs, TemporaryRefs, ReleaserRefs
<1> QED
  BY <1>4, <1>5, <1>6 DEF Held

\* A step of one connection changes a handle's references by what this one holds.
LEMMA RefStep ==
  ASSUME NEW c \in Conns, NEW h, UNCHANGED engines, Others(c)
  PROVE  /\ References(h) \in Nat /\ References(h)' \in Nat
         /\ References(h) >= Weight(c, h)
         /\ References(h)' = References(h) + Weight(c, h)' - Weight(c, h)
<1>1. Weight(c, h) \in Nat /\ Weight(c, h)' \in Nat
  BY DEF Weight, Bit
<1>2. TableRefs(h)' = TableRefs(h)
  BY DEF TableRefs
<1> QED
  BY <1>1, <1>2, HeldChange, RefSplit

\* The same for the calls that are counted.
LEMMA CountStep ==
  ASSUME NEW c \in Conns, NEW h, Others(c)
  PROVE  /\ Cardinality(Counted(h)) \in Nat /\ Cardinality(Counted(h)') \in Nat
         /\ Cardinality(Counted(h)) >= Bit(c \in Counted(h))
         /\ Cardinality(Counted(h)') = Cardinality(Counted(h)) + Bit(c \in Counted(h)') - Bit(c \in Counted(h))
<1>1. /\ Counted(h) \subseteq Conns /\ Counted(h)' \subseteq Conns
      /\ \A y \in Conns : y # c => (y \in Counted(h) <=> y \in Counted(h)')
  BY DEF Counted, Others
<1> QED
  BY <1>1, Finiteness, CountChange

\* The fields of a connection that hold references, as long as it is well formed.
Holding(e, w, r, h) ==
  Bit(e.peh = h) + Bit(e.peh = h /\ e.reserved = 1) + Bit(w.found = h) + Bit(w.old = h)
  + Bit(r.peh = h)

\* What a connection holds follows from where in the code it is.
LEMMA WeightIsHolding ==
  ASSUME NEW c \in Conns, NEW h \in Handles
  PROVE  /\ ConnOK(c) => Weight(c, h) = Holding(es[c], worker[c], releaser[c], h)
         /\ ConnOK(c)' => Weight(c, h)' = Holding(es'[c], worker'[c], releaser'[c], h)
<1>1. h # None
  BY RolesAssumption DEF Handles
<1>2. /\ ConnOK(c) => (worker[c].op = "none" => worker[c].found = None /\ worker[c].old = None)
                      /\ es[c].reserved \in 0..1
      /\ ConnOK(c)' => (worker'[c].op = "none" => worker'[c].found = None /\ worker'[c].old = None)
                      /\ es'[c].reserved \in 0..1
  BY DEF ConnOK, WorkerOK, ReservedOK, StepOf
<1>3. /\ ("found" \in Temporary(c, h)) <=> worker[c].op # "none" /\ worker[c].found = h
      /\ ("old" \in Temporary(c, h)) <=> worker[c].op # "none" /\ worker[c].old = h
  BY DEF Temporary
<1>4. /\ (("found" \in Temporary(c, h))') <=> worker'[c].op # "none" /\ worker'[c].found = h
      /\ (("old" \in Temporary(c, h))') <=> worker'[c].op # "none" /\ worker'[c].old = h
  BY DEF Temporary
<1>5. ASSUME ConnOK(c)
      PROVE  Weight(c, h) = Holding(es[c], worker[c], releaser[c], h)
  BY <1>1, <1>2, <1>3, <1>5 DEF Weight, Holding, Bit
<1>6. ASSUME ConnOK(c)'
      PROVE  Weight(c, h)' = Holding(es'[c], worker'[c], releaser'[c], h)
  BY <1>1, <1>2, <1>4, <1>6 DEF Weight, Holding, Bit
<1> QED
  BY <1>5, <1>6
-----------------------------------------------------------------------------
(***************************************************************************)
(* Steps that change one connection and the counters only.                 *)
(***************************************************************************)

EsType == [peh: HandleOrNone, reserved: Nat, producer: BOOLEAN, connected: BOOLEAN,
           waiting: BOOLEAN]
CoreType == [at: {"closed", "idle", "tap", "blocked", "pending_close", "immediate_close"},
             refcount: Nat, pending: BOOLEAN]
WorkerType ==
  [op: {"none", "connect", "auth", "select", "delete", "call", "tap", "ship_log", "disconnect"},
   pc: {"idle", "find", "auto_create", "set", "release_old", "release_found", "mark", "stop",
        "entered", "inside", "reserve", "assign", "leave", "left", "maybe", "start_shutdown",
        "returned", "free_es", "close"},
   peh: HandleOrNone, found: HandleOrNone, old: HandleOrNone, last: BOOLEAN, ok: BOOLEAN]
ReleaserType == [pc: {"none", "decremented", "released"}, peh: HandleOrNone]

\* The types of the connections' and handles' parts.
LEMMA ConnTypes ==
  ASSUME IInv
  PROVE  /\ es \in [Conns -> EsType] /\ core \in [Conns -> CoreType]
         /\ worker \in [Conns -> WorkerType] /\ releaser \in [Conns -> ReleaserType]
         /\ refcount \in [Handles -> Nat] /\ clients \in [Handles -> Nat]
         /\ leaked \in [Handles -> Nat] /\ tapIterator \in [Handles -> BOOLEAN]
         /\ signals \subseteq Handles
         /\ state \in [Handles -> States] /\ phase \in [Handles -> {"unused", "up", "destroyed", "freed"}]
  BY DEF IInv, TypeOK, EsType, CoreType, WorkerType, ReleaserType

\* A step that does not touch a connection, and leaves the handles that it uses.
LEMMA ConnFrame ==
  ASSUME NEW d \in Conns, ConnOK(d), es'[d] = es[d], core'[d] = core[d],
         worker'[d] = worker[d], releaser'[d] = releaser[d],
         \A h \in Handles : phase[h] # "unused" => phase'[h] # "unused"
  PROVE  ConnOK(d)'
<1>1. \A h : Used(h) => Used(h)'
  BY DEF Used
<1>2. WorkerOK(d)'
  BY <1>1 DEF ConnOK, WorkerOK
<1>3. ReservedOK(d)' /\ WaitingOK(d)'
  BY <1>1 DEF ConnOK, ReservedOK, WaitingOK, Holds, Reserving
<1> QED
  BY <1>2, <1>3 DEF ConnOK

\* The counters stay exact when they follow what the connection holds.
LEMMA CountersOK ==
  ASSUME IInv, NEW c \in Conns, UNCHANGED engines, Others(c), ConnOK(c)',
         refcount' \in [Handles -> Int], clients' \in [Handles -> Int],
         leaked' \in [Handles -> Nat],
         \A h \in Handles :
           /\ refcount'[h] = refcount[h] + Holding(es'[c], worker'[c], releaser'[c], h)
                                         - Holding(es[c], worker[c], releaser[c], h)
           /\ clients'[h] = clients[h] + Bit(c \in Counted(h)') - Bit(c \in Counted(h))
                                       + leaked'[h] - leaked[h]
  PROVE  /\ ClientsCounted' /\ RefcountExact'
         /\ refcount' \in [Handles -> Nat] /\ clients' \in [Handles -> Nat]
<1>1. ASSUME NEW h \in Handles
      PROVE  /\ refcount'[h] = References(h)' /\ refcount'[h] \in Nat
             /\ clients'[h] = Cardinality(Counted(h)') + leaked'[h] /\ clients'[h] \in Nat
  <2>1. /\ refcount[h] = References(h) /\ clients[h] = Cardinality(Counted(h)) + leaked[h]
        /\ leaked[h] \in Nat /\ leaked'[h] \in Nat
    BY ConnTypes DEF IInv, RefcountExact, ClientsCounted
  <2>2. /\ Weight(c, h) = Holding(es[c], worker[c], releaser[c], h)
        /\ Weight(c, h)' = Holding(es'[c], worker'[c], releaser'[c], h)
    BY WeightIsHolding DEF IInv
  <2>3. /\ References(h) \in Nat /\ References(h)' \in Nat
        /\ References(h)' = References(h) + Weight(c, h)' - Weight(c, h)
    BY RefStep
  <2>4. /\ Cardinality(Counted(h)) \in Nat /\ Cardinality(Counted(h)') \in Nat
        /\ Cardinality(Counted(h)') = Cardinality(Counted(h)) + Bit(c \in Counted(h)') - Bit(c \in Counted(h))
    BY CountStep
  <2>5. refcount'[h] = References(h)'
    BY <2>1, <2>2, <2>3
  <2>6. clients'[h] = Cardinality(Counted(h)') + leaked'[h]
    BY <2>1, <2>4 DEF Bit
  <2> QED
    BY <2>1, <2>3, <2>4, <2>5, <2>6
<1> QED
  BY <1>1 DEF ClientsCounted, RefcountExact

\* A handle whose life does not change stays consistent.
LEMMA HandleFrame ==
  ASSUME NEW h \in Handles, HandleOK(h), phase'[h] = phase[h], killer'[h] = killer[h],
         state'[h] = state[h], cookie'[h] = cookie[h], refcount'[h] = refcount[h] \/ phase[h] # "unused",
         shutdown.pc = "done" => shutdown'.pc = "done", InTable(h)' <=> InTable(h)
  PROVE  HandleOK(h)'
<1>1. LifeOK(h)'
  BY DEF HandleOK, LifeOK, Untouched
<1> QED
  BY <1>1 DEF HandleOK

Inner == {"inside", "reserve", "assign"}

\* It enters the engine only while the bucket runs, and starts to leave it for good
\* only when it is stopped and nobody is inside.
StepsQuietly(c) ==
  \/ worker'[c] = worker[c]
  \/ worker'[c].pc \notin Inner \cup {"start_shutdown"}
  \/ worker'[c].pc \in Inner /\ worker[c].pc \in Inner /\ worker'[c].peh = worker[c].peh
  \/ worker'[c].pc \in Inner /\ worker'[c].peh \in Handles /\ state[worker'[c].peh] = "RUNNING"
  \/ /\ worker'[c].pc = "start_shutdown"
     /\ state[worker'[c].peh] # "RUNNING" /\ Counted(worker'[c].peh) = {}

\* A connection's step lets nobody into a stopped bucket that was seen quiet.
LEMMA QuietStep ==
  ASSUME IInv, NEW c \in Conns, UNCHANGED <<killer, state>>, Others(c), StepsQuietly(c)
  PROVE  QuietOK'
<1> SUFFICES ASSUME NEW h \in Handles, killer[h] # "none" \/ Leaves(h)'
             PROVE  state[h] # "RUNNING" /\ Inners(h)' = {}
  BY DEF QuietOK
<1>1. killer[h] # "none" \/ Leaves(h) => state[h] # "RUNNING" /\ Inners(h) = {}
  BY DEF IInv, QuietOK
<1>0. CASE worker'[c] = worker[c]
  <2>1. \A d \in Conns : worker'[d] = worker[d]
    BY <1>0 DEF Others
  <2> QED
    BY <1>1, <2>1 DEF Leaves, Inners
<1>2. CASE worker'[c] # worker[c] /\ worker'[c].pc = "start_shutdown" /\ worker'[c].peh = h
  <2>1. state[h] # "RUNNING" /\ Counted(h) = {}
    BY <1>2 DEF StepsQuietly, Inner
  <2>2. Inners(h) = {}
    BY <2>1 DEF Inners, Counted
  <2> QED
    BY <1>2, <2>1, <2>2 DEF Inners, Others
<1>3. CASE worker'[c] # worker[c] /\ ~(worker'[c].pc = "start_shutdown" /\ worker'[c].peh = h)
  <2>1. Leaves(h)' => Leaves(h)
    BY <1>3 DEF Leaves, Others
  <2>2. state[h] # "RUNNING" /\ Inners(h) = {}
    BY <1>1, <2>1
  <2>3. c \notin Inners(h)'
    BY <2>2 DEF Inners, StepsQuietly, Inner
  <2> QED
    BY <2>2, <2>3 DEF Inners, Others
<1> QED
  BY <1>0, <1>2, <1>3

\* Its client waits for an answer until it gets one.
KeepsWaiting(c) ==
  \/ es'[c].waiting = es[c].waiting /\ core'[c].pending = core[c].pending
  \/ ~es[c].waiting
  \/ core[c].pending

\* A connection's step that neither deletes nor is answered.
LEMMA AnswersStep ==
  ASSUME IInv, NEW c \in Conns, UNCHANGED <<killer, cookie>>, Others(c), KeepsWaiting(c)
  PROVE  AnswersOK'
<1>1. cookie \in [Handles -> Conns \cup {None}]
  BY DEF IInv, TypeOK
<1>2. ASSUME NEW h \in Handles, Unanswered(h)
      PROVE  es'[cookie[h]].waiting /\ ~core'[cookie[h]].pending
  <2>1. cookie[h] \in Conns /\ es[cookie[h]].waiting /\ ~core[cookie[h]].pending
    BY <1>1, <1>2 DEF IInv, AnswersOK, Unanswered
  <2>2. CASE cookie[h] = c
    BY <2>1, <2>2 DEF KeepsWaiting
  <2>3. CASE cookie[h] # c
    BY <2>1, <2>3 DEF Others
  <2> QED
    BY <2>2, <2>3
<1>3. \A h \in Handles : Unanswered(h)' <=> Unanswered(h)
  BY DEF Unanswered
<1> QED
  BY <1>2, <1>3 DEF AnswersOK, IInv

\* A worker thread that is not idle, and one that is called, run before the shutdown.
LEMMA ShutdownStep ==
  ASSUME IInv, NEW c \in Conns, UNCHANGED <<killer, shutdown>>, Others(c),
         shutdown.pc = "no" \/ worker'[c].pc = "idle"
  PROVE  ShutdownOK'
<1>1. {h \in Handles : killer'[h] \in Counting} = {h \in Handles : killer[h] \in Counting}
  OBVIOUS
<1>2. shutdown.pc # "no" => \A d \in Conns : worker'[d].pc = "idle"
  BY DEF IInv, ShutdownOK, Others
<1> QED
  BY <1>1, <1>2 DEF IInv, ShutdownOK

\* A connection's step that follows these rules keeps the invariant.
LEMMA ConnStep ==
  ASSUME IInv, NEW c \in Conns,
         UNCHANGED <<engines, phase, state, cookie, killer, shutdown>>, Others(c),
         es' \in [Conns -> EsType], core' \in [Conns -> CoreType],
         worker' \in [Conns -> WorkerType], releaser' \in [Conns -> ReleaserType],
         refcount' \in [Handles -> Int], clients' \in [Handles -> Int],
         leaked' \in [Handles -> Nat], tapIterator' \in [Handles -> BOOLEAN],
         signals' \subseteq Handles,
         ConnOK(c)', StepsQuietly(c), KeepsWaiting(c),
         shutdown.pc = "no" \/ worker'[c].pc = "idle",
         \A h \in Handles :
           /\ refcount'[h] = refcount[h] + Holding(es'[c], worker'[c], releaser'[c], h)
                                         - Holding(es[c], worker[c], releaser[c], h)
           /\ refcount'[h] <= refcount[h] \/ state[h] = "RUNNING"
           /\ clients'[h] = clients[h] + Bit(c \in Counted(h)') - Bit(c \in Counted(h))
                                       + leaked'[h] - leaked[h]
  PROVE  IInv'
<1>1. /\ ClientsCounted' /\ RefcountExact'
      /\ refcount' \in [Handles -> Nat] /\ clients' \in [Handles -> Nat]
  BY CountersOK
<1>2. TypeOK'
  BY <1>1 DEF IInv, TypeOK, EsType, CoreType, WorkerType, ReleaserType
<1>3. ASSUME NEW d \in Conns
      PROVE  ConnOK(d)'
  <2>1. CASE d = c
    BY <2>1
  <2>2. CASE d # c
    BY <2>2, ConnFrame DEF IInv, Others
  <2> QED
    BY <2>1, <2>2
<1>4. TableOK'
  BY DEF IInv, TableOK
<1>5. ASSUME NEW h \in Handles, refcount[h] = 0, state[h] # "RUNNING"
      PROVE  refcount'[h] = 0
  <2>1. refcount'[h] <= 0 /\ refcount'[h] \in Nat
    BY <1>1, <1>5
  <2> QED
    BY <2>1
<1>6. ASSUME NEW h \in Handles
      PROVE  HandleOK(h)'
  <2>1. HandleOK(h) /\ (InTable(h)' <=> InTable(h))
    BY DEF IInv, InTable
  <2>2. phase[h] = "unused" => refcount'[h] = 0
    BY <1>5, <2>1 DEF HandleOK, LifeOK, Untouched
  <2> QED
    BY <2>1, <2>2, HandleFrame DEF HandleOK
<1>7. QuietOK' /\ AnswersOK' /\ ShutdownOK'
  BY QuietStep, AnswersStep, ShutdownStep
<1>8. FreedOK'
  <2> SUFFICES ASSUME NEW h \in Handles, killer[h] \in {"free", "leave", "ended"}, ~shutdown.inProgress
               PROVE  refcount'[h] = 0
    BY DEF FreedOK
  <2>1. refcount[h] = 0 /\ state[h] # "RUNNING"
    BY DEF IInv, FreedOK, HandleOK, LifeOK
  <2> QED
    BY <1>5, <2>1
<1> QED
  BY <1>1, <1>2, <1>3, <1>4, <1>6, <1>7, <1>8 DEF IInv

\* What the assignments to a worker's fields do.
PCs == {"idle", "find", "auto_create", "set", "release_old", "release_found", "mark", "stop",
        "entered", "inside", "reserve", "assign", "leave", "left", "maybe", "start_shutdown",
        "returned", "free_es", "close"}

\* The worker's fields but its program counter are as before, or as given.
Edited(c, pc) ==
  /\ worker' \in [Conns -> WorkerType]
  /\ worker'[c].pc = pc /\ worker'[c].op = worker[c].op
  /\ \A d \in Conns : d # c => worker'[d] = worker[d]

\* A worker's step to another place,
LEMMA EditPc ==
  ASSUME NEW c \in Conns, worker \in [Conns -> WorkerType], NEW pc \in PCs,
         worker' = [worker EXCEPT ![c].pc = pc]
  PROVE  /\ Edited(c, pc) /\ worker'[c].ok = worker[c].ok /\ worker'[c].peh = worker[c].peh
         /\ worker'[c].found = worker[c].found /\ worker'[c].old = worker[c].old
<1>1. /\ worker'[c] = [worker[c] EXCEPT !.pc = pc] /\ worker[c] \in WorkerType
      /\ \A d \in Conns : d # c => worker'[d] = worker[d]
  OBVIOUS
<1>2. [worker[c] EXCEPT !.pc = pc] \in WorkerType
  BY <1>1 DEF WorkerType, PCs
<1>3. worker' \in [Conns -> WorkerType]
  BY <1>1, <1>2
<1> QED
  BY <1>1, <1>3 DEF Edited, WorkerType

\* with a result,
LEMMA EditOk ==
  ASSUME NEW c \in Conns, worker \in [Conns -> WorkerType], NEW pc \in PCs, NEW b \in BOOLEAN,
         worker' = [worker EXCEPT ![c].pc = pc, ![c].ok = b]
  PROVE  /\ Edited(c, pc) /\ worker'[c].ok = b /\ worker'[c].peh = worker[c].peh
         /\ worker'[c].found = worker[c].found /\ worker'[c].old = worker[c].old
<1>1. /\ worker'[c] = [worker[c] EXCEPT !.pc = pc, !.ok = b] /\ worker[c] \in WorkerType
      /\ \A d \in Conns : d # c => worker'[d] = worker[d]
  OBVIOUS
<1>2. [worker[c] EXCEPT !.pc = pc, !.ok = b] \in WorkerType
  BY <1>1 DEF WorkerType, PCs
<1>3. worker' \in [Conns -> WorkerType]
  BY <1>1, <1>2
<1> QED
  BY <1>1, <1>3 DEF Edited, WorkerType

\* with the last reference,
LEMMA EditLast ==
  ASSUME NEW c \in Conns, worker \in [Conns -> WorkerType], NEW pc \in PCs, NEW b \in BOOLEAN,
         worker' = [worker EXCEPT ![c].pc = pc, ![c].last = b]
  PROVE  /\ Edited(c, pc) /\ worker'[c].ok = worker[c].ok /\ worker'[c].peh = worker[c].peh
         /\ worker'[c].found = worker[c].found /\ worker'[c].old = worker[c].old
<1>1. /\ worker'[c] = [worker[c] EXCEPT !.pc = pc, !.last = b] /\ worker[c] \in WorkerType
      /\ \A d \in Conns : d # c => worker'[d] = worker[d]
  OBVIOUS
<1>2. [worker[c] EXCEPT !.pc = pc, !.last = b] \in WorkerType
  BY <1>1 DEF WorkerType, PCs
<1>3. worker' \in [Conns -> WorkerType]
  BY <1>1, <1>2
<1> QED
  BY <1>1, <1>3 DEF Edited, WorkerType

\* with the handle it works on,
LEMMA EditPeh ==
  ASSUME NEW c \in Conns, worker \in [Conns -> WorkerType], NEW pc \in PCs, NEW h \in HandleOrNone,
         worker' = [worker EXCEPT ![c].pc = pc, ![c].peh = h]
  PROVE  /\ Edited(c, pc) /\ worker'[c].ok = worker[c].ok /\ worker'[c].peh = h
         /\ worker'[c].found = worker[c].found /\ worker'[c].old = worker[c].old
<1>1. /\ worker'[c] = [worker[c] EXCEPT !.pc = pc, !.peh = h] /\ worker[c] \in WorkerType
      /\ \A d \in Conns : d # c => worker'[d] = worker[d]
  OBVIOUS
<1>2. [worker[c] EXCEPT !.pc = pc, !.peh = h] \in WorkerType
  BY <1>1 DEF WorkerType, PCs
<1>3. worker' \in [Conns -> WorkerType]
  BY <1>1, <1>2
<1> QED
  BY <1>1, <1>3 DEF Edited, WorkerType

\* with the handle it found,
LEMMA EditFound ==
  ASSUME NEW c \in Conns, worker \in [Conns -> WorkerType], NEW pc \in PCs, NEW h \in HandleOrNone,
         worker' = [worker EXCEPT ![c].found = h, ![c].pc = pc]
  PROVE  /\ Edited(c, pc) /\ worker'[c].ok = worker[c].ok /\ worker'[c].peh = worker[c].peh
         /\ worker'[c].found = h /\ worker'[c].old = worker[c].old
<1>1. /\ worker'[c] = [worker[c] EXCEPT !.found = h, !.pc = pc] /\ worker[c] \in WorkerType
      /\ \A d \in Conns : d # c => worker'[d] = worker[d]
  OBVIOUS
<1>2. [worker[c] EXCEPT !.found = h, !.pc = pc] \in WorkerType
  BY <1>1 DEF WorkerType, PCs
<1>3. worker' \in [Conns -> WorkerType]
  BY <1>1, <1>2
<1> QED
  BY <1>1, <1>3 DEF Edited, WorkerType

\* with the handle it is going to let go,
LEMMA EditOld ==
  ASSUME NEW c \in Conns, worker \in [Conns -> WorkerType], NEW pc \in PCs, NEW h \in HandleOrNone,
         worker' = [worker EXCEPT ![c].old = h, ![c].pc = pc]
  PROVE  /\ Edited(c, pc) /\ worker'[c].ok = worker[c].ok /\ worker'[c].peh = worker[c].peh
         /\ worker'[c].found = worker[c].found /\ worker'[c].old = h
<1>1. /\ worker'[c] = [worker[c] EXCEPT !.old = h, !.pc = pc] /\ worker[c] \in WorkerType
      /\ \A d \in Conns : d # c => worker'[d] = worker[d]
  OBVIOUS
<1>2. [worker[c] EXCEPT !.old = h, !.pc = pc] \in WorkerType
  BY <1>1 DEF WorkerType, PCs
<1>3. worker' \in [Conns -> WorkerType]
  BY <1>1, <1>2
<1> QED
  BY <1>1, <1>3 DEF Edited, WorkerType

\* and this written the other way round.
LEMMA EditPcOld ==
  ASSUME NEW c \in Conns, worker \in [Conns -> WorkerType], NEW pc \in PCs, NEW h \in HandleOrNone,
         worker' = [worker EXCEPT ![c].pc = pc, ![c].old = h]
  PROVE  /\ Edited(c, pc) /\ worker'[c].ok = worker[c].ok /\ worker'[c].peh = worker[c].peh
         /\ worker'[c].found = worker[c].found /\ worker'[c].old = h
<1>1. /\ worker'[c] = [worker[c] EXCEPT !.pc = pc, !.old = h] /\ worker[c] \in WorkerType
      /\ \A d \in Conns : d # c => worker'[d] = worker[d]
  OBVIOUS
<1>2. [worker[c] EXCEPT !.pc = pc, !.old = h] \in WorkerType
  BY <1>1 DEF WorkerType, PCs
<1>3. worker' \in [Conns -> WorkerType]
  BY <1>1, <1>2
<1> QED
  BY <1>1, <1>3 DEF Edited, WorkerType
-----------------------------------------------------------------------------
(***************************************************************************)
(* Calls into the engine.                                                  *)
(***************************************************************************)

\* A step of a worker thread that changes nothing but its program counter, its results
\* and whether its call is counted.
SameCall(c) ==
  /\ worker' \in [Conns -> WorkerType]
  /\ worker'[c].op = worker[c].op /\ worker'[c].peh = worker[c].peh
  /\ worker'[c].found = worker[c].found /\ worker'[c].old = worker[c].old
  /\ \A d \in Conns : d # c => worker'[d] = worker[d]

\* A step within a call that changes the clients counter by what it says.
LEMMA CallStep ==
  ASSUME IInv, NEW c \in Conns, worker[c].pc # "idle", worker'[c].pc # "idle",
         UNCHANGED <<engines, phase, state, cookie, killer, shutdown, refcount, es, core,
                     releaser, signals>>,
         SameCall(c), StepsQuietly(c),
         clients' \in [Handles -> Int], leaked' \in [Handles -> Nat],
         tapIterator' \in [Handles -> BOOLEAN],
         \A h \in Handles : clients'[h] = clients[h] + Bit(c \in Counted(h)') - Bit(c \in Counted(h))
                                          + leaked'[h] - leaked[h],
         StepOf(worker[c].op, worker'[c].pc),
         worker'[c].pc \notin {"find", "auto_create", "mark", "stop"},
         worker'[c].pc \in Calling => worker[c].pc \in Calling,
         worker'[c].pc \in {"entered", "inside", "reserve"} =>
           worker[c].pc \in {"entered", "inside", "reserve"},
         worker[c].old = None, Reserving(c) => Reserving(c)'
  PROVE  IInv'
<1>1. ConnOK(c) /\ c \in Conns
  BY DEF IInv
<1>2. WorkerOK(c)'
  BY <1>1 DEF ConnOK, WorkerOK, SameCall, Used
<1>3. ReservedOK(c)'
  BY <1>1 DEF ConnOK, ReservedOK, Holds, Used, SameCall
<1>4. WaitingOK(c)'
  BY <1>1 DEF ConnOK, WaitingOK, Holds, SameCall
<1>5. Others(c) /\ KeepsWaiting(c) /\ shutdown.pc = "no"
  BY DEF SameCall, Others, KeepsWaiting, IInv, ShutdownOK
<1>6. ConnOK(c)'
  BY <1>2, <1>3, <1>4 DEF ConnOK
<1>7. \A h \in Handles :
        /\ refcount'[h] = refcount[h] + Holding(es'[c], worker'[c], releaser'[c], h)
                                      - Holding(es[c], worker[c], releaser[c], h)
        /\ refcount'[h] <= refcount[h]
  <2>1. \A h \in Handles : Holding(es'[c], worker'[c], releaser'[c], h)
                             = Holding(es[c], worker[c], releaser[c], h)
                         /\ Holding(es[c], worker[c], releaser[c], h) \in Nat
    BY DEF Holding, SameCall, Bit
  <2> QED
    BY <2>1, ConnTypes
<1>8. refcount' \in [Handles -> Int] /\ es' \in [Conns -> EsType] /\ core' \in [Conns -> CoreType]
      /\ worker' \in [Conns -> WorkerType] /\ releaser' \in [Conns -> ReleaserType]
      /\ signals' \subseteq Handles
  BY ConnTypes DEF SameCall
<1> QED
  BY <1>5, <1>6, <1>7, <1>8, ConnStep

\* What the invariant says of one connection.
LEMMA CallFacts ==
  ASSUME IInv, NEW c \in Conns
  PROVE  /\ WorkerOK(c) /\ ReservedOK(c) /\ WaitingOK(c)
         /\ worker[c] \in WorkerType /\ es[c] \in EsType /\ core[c] \in CoreType
         /\ releaser[c] \in ReleaserType
         /\ worker[c].pc # "idle" => shutdown.pc = "no"
         /\ None \notin Handles
  BY ConnTypes, RolesAssumption DEF IInv, ConnOK, ShutdownOK, Handles

\* Only a running bucket lets the call in.
LEMMA CheckStateOK ==
  ASSUME IInv, NEW c \in Conns, CheckState(c)
  PROVE  IInv'
<1>1. /\ worker[c].pc = "entered" /\ worker[c].peh \in Handles /\ worker[c].old = None
      /\ worker[c].op \in {"call", "tap", "ship_log", "disconnect"}
  BY CallFacts DEF CheckState, At, WorkerOK, StepOf, Calling, Used
<1>2. /\ SameCall(c) /\ worker'[c].pc \in {"inside", "leave"}
      /\ worker'[c].pc = "inside" => state[worker'[c].peh] = "RUNNING"
  <2>1. PICK ok \in BOOLEAN, pc \in {"inside", "leave"} :
            /\ worker' = [worker EXCEPT ![c].pc = pc, ![c].ok = ok]
            /\ pc = "inside" => state[worker[c].peh] = "RUNNING"
    BY Zenon DEF CheckState
  <2>2. pc \in PCs /\ None \in HandleOrNone
    BY DEF PCs, HandleOrNone
  <2> QED
    BY <2>1, <2>2, EditOk, ConnTypes DEF SameCall, Edited
<1>3. StepOf(worker[c].op, worker'[c].pc)
  BY <1>1, <1>2 DEF StepOf
<1>4. UNCHANGED <<engines, phase, state, cookie, killer, shutdown, refcount, es, core,
                  releaser, signals, clients, leaked, tapIterator>>
  BY DEF CheckState, handleVars
<1>5. \A h \in Handles : Bit(c \in Counted(h)') = Bit(c \in Counted(h))
  BY <1>1, <1>2 DEF Counted, SameCall, Bit
<1>6. \A h \in Handles : clients'[h] = clients[h] + Bit(c \in Counted(h)') - Bit(c \in Counted(h))
                                       + leaked'[h] - leaked[h]
  BY <1>4, <1>5, ConnTypes DEF Bit
<1>7. StepsQuietly(c) /\ ~Reserving(c)
  BY <1>1, <1>2 DEF StepsQuietly, Inner, SameCall, Reserving
<1> QED
  BY <1>1, <1>2, <1>3, <1>4, <1>6, <1>7, CallStep, ConnTypes DEF Calling

\* The shim that finds no iterator is counted as leaked.
LEMMA InsideOK ==
  ASSUME IInv, NEW c \in Conns, Inside(c)
  PROVE  IInv'
<1>1. /\ worker[c].pc = "inside" /\ worker[c].peh \in Handles /\ worker[c].old = None
      /\ worker[c].op \in {"call", "tap", "ship_log", "disconnect"}
  BY CallFacts DEF Inside, At, WorkerOK, StepOf, Calling, Used
<1>2. PICK lost \in BOOLEAN, pc \in {"returned", "reserve", "leave"} :
        /\ worker' = [worker EXCEPT ![c].pc = pc, ![c].ok = ~lost]
        /\ leaked' = IF lost THEN [leaked EXCEPT ![worker[c].peh] = @ + 1] ELSE leaked
        /\ lost <=> pc = "returned"
        /\ pc = "reserve" => worker[c].op = "tap"
        /\ lost => worker[c].op = "ship_log"
  <2>1. CASE worker[c].op = "ship_log" /\ ~tapIterator[worker[c].peh]
    BY <2>1, Zenon DEF Inside
  <2>2. CASE ~(worker[c].op = "ship_log" /\ ~tapIterator[worker[c].peh]) /\ worker[c].op = "tap"
    BY <2>2, Zenon DEF Inside
  <2>3. CASE ~(worker[c].op = "ship_log" /\ ~tapIterator[worker[c].peh]) /\ worker[c].op # "tap"
    BY <2>3, Zenon DEF Inside
  <2> QED
    BY <2>1, <2>2, <2>3
<1>3. SameCall(c) /\ worker'[c].pc = pc
  <2>1. pc \in PCs /\ None \in HandleOrNone /\ (~lost) \in BOOLEAN
    BY DEF PCs, HandleOrNone
  <2> QED
    BY <1>2, <2>1, EditOk, ConnTypes DEF SameCall, Edited
<1>4. StepOf(worker[c].op, worker'[c].pc)
  BY <1>1, <1>2, <1>3 DEF StepOf
<1>5. UNCHANGED <<engines, phase, state, cookie, killer, shutdown, refcount, es, core,
                  releaser, signals, clients, tapIterator>>
  BY DEF Inside, handleVars
<1>6. /\ leaked' \in [Handles -> Nat]
      /\ \A h \in Handles : leaked'[h] = leaked[h] + Bit(lost /\ h = worker[c].peh)
  BY <1>1, <1>2, ConnTypes DEF Bit
<1>7. \A h \in Handles : /\ (c \in Counted(h)) <=> h = worker[c].peh
                         /\ (c \in Counted(h)') <=> h = worker[c].peh /\ ~lost
  BY <1>1, <1>2, <1>3 DEF Counted, SameCall
<1>8. \A h \in Handles : clients'[h] = clients[h] + Bit(c \in Counted(h)') - Bit(c \in Counted(h))
                                       + leaked'[h] - leaked[h]
  BY <1>5, <1>6, <1>7, ConnTypes DEF Bit
<1>9. StepsQuietly(c) /\ ~Reserving(c)
  BY <1>1, <1>2, <1>3 DEF StepsQuietly, Inner, SameCall, Reserving
<1> QED
  BY <1>1, <1>2, <1>3, <1>4, <1>5, <1>6, <1>8, <1>9, CallStep, ConnTypes DEF Calling

\* A TAP_CONNECT takes the engine's iterator.
LEMMA AssignIteratorOK ==
  ASSUME IInv, NEW c \in Conns, AssignIterator(c)
  PROVE  IInv'
<1>1. /\ worker[c].pc = "assign" /\ worker[c].peh \in Handles /\ worker[c].old = None
      /\ worker[c].op = "tap" /\ worker[c].ok \in BOOLEAN
  BY CallFacts DEF AssignIterator, At, WorkerOK, StepOf, Calling, Used, WorkerType
<1>2. SameCall(c) /\ worker'[c].pc = "leave" /\ worker'[c].ok = worker[c].ok
  <2>1. worker' = [worker EXCEPT ![c].pc = "leave"]
    BY DEF AssignIterator, Goto
  <2>2. "leave" \in PCs /\ None \in HandleOrNone /\ TRUE \in BOOLEAN
    BY DEF PCs, HandleOrNone
  <2> QED
    BY <2>1, <2>2, EditPc, ConnTypes DEF SameCall, Edited
<1>3. StepOf(worker[c].op, worker'[c].pc)
  BY <1>1, <1>2 DEF StepOf
<1>4. /\ UNCHANGED <<engines, phase, state, cookie, killer, shutdown, refcount, es, core,
                     releaser, signals, clients, leaked>>
      /\ tapIterator' \in [Handles -> BOOLEAN]
  <2>1. tapIterator' = [tapIterator EXCEPT ![worker[c].peh] = worker[c].ok]
    BY DEF AssignIterator
  <2> QED
    BY <1>1, <2>1, ConnTypes DEF AssignIterator
<1>5. \A h \in Handles : Bit(c \in Counted(h)') = Bit(c \in Counted(h))
  BY <1>1, <1>2 DEF Counted, SameCall, Bit
<1>6. \A h \in Handles : clients'[h] = clients[h] + Bit(c \in Counted(h)') - Bit(c \in Counted(h))
                                       + leaked'[h] - leaked[h]
  BY <1>4, <1>5, ConnTypes DEF Bit
<1>7. StepsQuietly(c) /\ (Reserving(c) => Reserving(c)')
  BY <1>1, <1>2 DEF StepsQuietly, Inner, SameCall, Reserving
<1> QED
  BY <1>1, <1>2, <1>3, <1>4, <1>6, <1>7, CallStep, ConnTypes DEF Calling

\* release_engine_handle.
LEMMA LeaveEngineOK ==
  ASSUME IInv, NEW c \in Conns, LeaveEngine(c)
  PROVE  IInv'
<1>1. /\ worker[c].pc = "leave" /\ worker[c].peh \in Handles /\ worker[c].old = None
      /\ worker[c].op \in {"call", "tap", "ship_log", "disconnect", "delete"}
  BY CallFacts DEF LeaveEngine, At, WorkerOK, StepOf, Calling, Used
<1>2. SameCall(c) /\ worker'[c].pc = "left" /\ worker'[c].ok = worker[c].ok
  <2>1. PICK last \in BOOLEAN : worker' = [worker EXCEPT ![c].pc = "left", ![c].last = last]
    BY Zenon DEF LeaveEngine
  <2>2. "left" \in PCs /\ None \in HandleOrNone /\ worker \in [Conns -> WorkerType]
    BY ConnTypes DEF PCs, HandleOrNone
  <2>3. /\ Edited(c, "left") /\ worker'[c].ok = worker[c].ok /\ worker'[c].peh = worker[c].peh
        /\ worker'[c].found = worker[c].found /\ worker'[c].old = worker[c].old
    BY <2>1, <2>2, EditLast
  <2> QED
    BY <2>3 DEF SameCall, Edited
<1>3. StepOf(worker[c].op, worker'[c].pc)
  BY <1>1, <1>2 DEF StepOf
<1>4. /\ UNCHANGED <<engines, phase, state, cookie, killer, shutdown, refcount, es, core,
                     releaser, signals, tapIterator, leaked>>
      /\ clients' = [clients EXCEPT ![worker[c].peh] = @ - 1]
  BY DEF LeaveEngine
<1>5. \A h \in Handles : /\ (c \in Counted(h)) <=> h = worker[c].peh
                         /\ c \notin Counted(h)'
  BY <1>1, <1>2 DEF Counted, SameCall
<1>6. /\ clients' \in [Handles -> Int]
      /\ \A h \in Handles : clients'[h] = clients[h] + Bit(c \in Counted(h)') - Bit(c \in Counted(h))
                                            + leaked'[h] - leaked[h]
  BY <1>1, <1>4, <1>5, ConnTypes DEF Bit
<1>7. StepsQuietly(c) /\ (Reserving(c) => Reserving(c)')
  BY <1>1, <1>2 DEF StepsQuietly, Inner, SameCall, Reserving
<1> QED
  BY <1>1, <1>2, <1>3, <1>4, <1>6, <1>7, CallStep, ConnTypes DEF Calling

\* The last one out of a stopped bucket.
LEMMA LastOutOK ==
  ASSUME IInv, NEW c \in Conns, LastOut(c) \/ MaybeStartShutdown(c)
  PROVE  IInv'
<1>1. /\ worker[c].pc \in {"left", "maybe"} /\ worker[c].peh \in Handles /\ worker[c].old = None
      /\ worker[c].op \in {"call", "tap", "ship_log", "disconnect", "delete"}
  BY CallFacts DEF LastOut, MaybeStartShutdown, At, WorkerOK, StepOf, Calling, Used
<1>2. PICK pc \in {"maybe", "start_shutdown", "returned"} :
        /\ Goto(c, pc)
        /\ pc = "start_shutdown" => state[worker[c].peh] = "STOPPING" /\ clients[worker[c].peh] = 0
  BY Zenon DEF LastOut, MaybeStartShutdown
<1>3. SameCall(c) /\ worker'[c].pc = pc /\ worker'[c].ok = worker[c].ok
  <2>1. pc \in PCs /\ None \in HandleOrNone /\ TRUE \in BOOLEAN
    BY DEF PCs, HandleOrNone
  <2> QED
    BY <1>2, <2>1, EditPc, ConnTypes DEF SameCall, Edited, Goto
<1>4. StepOf(worker[c].op, worker'[c].pc)
  BY <1>1, <1>3 DEF StepOf
<1>5. UNCHANGED <<engines, phase, state, cookie, killer, shutdown, refcount, es, core,
                  releaser, signals, clients, leaked, tapIterator>>
  BY DEF LastOut, MaybeStartShutdown, handleVars
<1>6. \A h \in Handles : Bit(c \in Counted(h)') = Bit(c \in Counted(h))
  BY <1>1, <1>3 DEF Counted, SameCall, Bit
<1>7. \A h \in Handles : clients'[h] = clients[h] + Bit(c \in Counted(h)') - Bit(c \in Counted(h))
                                       + leaked'[h] - leaked[h]
  BY <1>5, <1>6, ConnTypes DEF Bit
<1>8. pc = "start_shutdown" => Counted(worker[c].peh) = {}
  <2> SUFFICES ASSUME clients[worker[c].peh] = 0
               PROVE  Counted(worker[c].peh) = {}
    BY <1>2
  <2>1. Cardinality(Counted(worker[c].peh)) + leaked[worker[c].peh] = 0
    BY <1>1 DEF IInv, ClientsCounted
  <2>2. Counted(worker[c].peh) \subseteq Conns
    BY DEF Counted
  <2>3. IsFiniteSet(Counted(worker[c].peh))
    BY <2>2, Finiteness, FS_Subset
  <2>4. Cardinality(Counted(worker[c].peh)) \in Nat /\ leaked[worker[c].peh] \in Nat
    BY <1>1, <2>3, FS_CardinalityType, ConnTypes
  <2> QED
    BY <2>1, <2>3, <2>4, FS_EmptySet
<1>9. StepsQuietly(c) /\ (Reserving(c) => Reserving(c)')
  BY <1>1, <1>2, <1>3, <1>8 DEF StepsQuietly, Inner, SameCall, Reserving
<1> QED
  BY <1>1, <1>3, <1>4, <1>5, <1>7, <1>9, CallStep, ConnTypes DEF Calling
-----------------------------------------------------------------------------
(***************************************************************************)
(* Calls that begin, and the references that they take and give back.      *)
(***************************************************************************)

Ops == {"none", "connect", "auth", "select", "delete", "call", "tap", "ship_log", "disconnect"}

Begun(c, op, pc, h) ==
  /\ worker' \in [Conns -> WorkerType]
  /\ worker'[c].op = op /\ worker'[c].pc = pc /\ worker'[c].peh = h
  /\ worker'[c].found = None /\ worker'[c].old = None
  /\ \A d \in Conns : d # c => worker'[d] = worker[d]

\* A command begins or ends.
LEMMA Begins ==
  ASSUME NEW c \in Conns, worker \in [Conns -> WorkerType],
         NEW op \in Ops, NEW pc \in PCs, NEW h \in HandleOrNone
  PROVE
    /\ worker' = [worker EXCEPT ![c] = [Idle EXCEPT !.op = op, !.pc = pc, !.peh = h]] =>
         Begun(c, op, pc, h)
    /\ worker' = [worker EXCEPT ![c] = [Idle EXCEPT !.op = op, !.pc = pc]] => Begun(c, op, pc, None)
    /\ worker' = [worker EXCEPT ![c] = Idle] => Begun(c, "none", "idle", None)
<1> DEFINE full == [Idle EXCEPT !.op = op, !.pc = pc, !.peh = h]
           part == [Idle EXCEPT !.op = op, !.pc = pc]
<1>1. Idle \in WorkerType /\ Idle.op = "none" /\ Idle.pc = "idle" /\ Idle.peh = None
      /\ Idle.found = None /\ Idle.old = None
  BY DEF Idle, WorkerType, HandleOrNone
<1>2. /\ full \in WorkerType /\ full.op = op /\ full.pc = pc /\ full.peh = h
      /\ full.found = None /\ full.old = None
  BY ZenonT(40) DEF Idle, WorkerType, HandleOrNone, Ops, PCs
<1>3. /\ part \in WorkerType /\ part.op = op /\ part.pc = pc /\ part.peh = None
      /\ part.found = None /\ part.old = None
  BY ZenonT(60) DEF Idle, WorkerType, HandleOrNone, Ops, PCs
<1> HIDE DEF full, part
<1>4. ASSUME worker' = [worker EXCEPT ![c] = full] PROVE Begun(c, op, pc, h)
  BY <1>2, <1>4 DEF Begun
<1>5. ASSUME worker' = [worker EXCEPT ![c] = part] PROVE Begun(c, op, pc, None)
  BY <1>3, <1>5 DEF Begun
<1>6. ASSUME worker' = [worker EXCEPT ![c] = Idle] PROVE Begun(c, "none", "idle", None)
  BY <1>1, <1>6 DEF Begun
<1> QED
  BY <1>4, <1>5, <1>6 DEF full, part

\* The counter with one reference more,
LEMMA RefTaken ==
  ASSUME IInv, NEW h \in HandleOrNone
  PROVE  /\ AddRef(h) \in [Handles -> Int]
         /\ \A g \in Handles : AddRef(h)[g] = refcount[g] + Bit(g = h)
  BY ConnTypes, RolesAssumption DEF AddRef, Bit, HandleOrNone, Handles

\* and with one less.
LEMMA RefReleased ==
  ASSUME IInv, NEW h \in HandleOrNone, Release(h)
  PROVE  /\ refcount' \in [Handles -> Int] /\ signals' \subseteq Handles
         /\ \A g \in Handles : refcount'[g] = refcount[g] - Bit(g = h)
<1>1. refcount \in [Handles -> Nat] /\ signals \subseteq Handles /\ None \notin Handles
  BY ConnTypes, CallFacts, RolesAssumption DEF Handles
<1>2. CASE h = None
  BY <1>1, <1>2 DEF Release, Bit
<1>3. CASE h \in Handles
  <2>1. /\ refcount' = [refcount EXCEPT ![h] = @ - 1]
        /\ signals' = signals \cup {h} \/ signals' = signals
    BY <1>1, <1>3 DEF Release
  <2> QED
    BY <1>1, <1>3, <2>1 DEF Bit
<1> QED
  BY <1>2, <1>3 DEF HandleOrNone

\* A call counted, and one that is not.
LEMMA CallCounted ==
  ASSUME IInv, NEW h \in Handles, clients' = [clients EXCEPT ![h] = @ + 1]
  PROVE  /\ clients' \in [Handles -> Int]
         /\ \A g \in Handles : clients'[g] = clients[g] + Bit(g = h)
  BY ConnTypes DEF Bit

\* Any request, TAP_CONNECT, or another round of the TAP iterator.
LEMMA RequestOK ==
  ASSUME IInv, NEW c \in Conns, NEW op \in {"call", "tap", "ship_log"}, Request(c, op)
  PROVE  IInv'
<1> DEFINE h == es[c].peh
<1>1. /\ worker[c].pc = "idle" /\ worker[c].op = "none" /\ worker[c].found = None
      /\ worker[c].old = None /\ shutdown.pc = "no" /\ h \in Handles /\ Used(h)
      /\ ~es[c].waiting
      /\ (core[c].at = "idle" /\ op \in {"call", "tap"}) \/ (core[c].at = "tap" /\ op = "ship_log")
  <2>1. /\ worker[c].pc = "idle" /\ shutdown.pc = "no" /\ es[c].peh # None
        /\ (core[c].at = "idle" /\ op \in {"call", "tap"}) \/ (core[c].at = "tap" /\ op = "ship_log")
    BY Zenon DEF Request, WorkerReady, At
  <2>2. worker[c].op = "none" /\ worker[c].found = None /\ worker[c].old = None
    BY <2>1, CallFacts DEF WorkerOK, StepOf
  <2>3. h \in Handles /\ Used(h)
    BY <2>1, CallFacts DEF ReservedOK, Used
  <2>4. ~es[c].waiting
    BY <2>1, <2>2, CallFacts DEF WaitingOK
  <2> QED
    BY <2>1, <2>2, <2>3, <2>4
<1>2. Begun(c, op, "entered", h)
  <2>1. op \in Ops /\ "entered" \in PCs /\ h \in HandleOrNone
    BY <1>1 DEF Ops, PCs, HandleOrNone
  <2>2. worker' = [worker EXCEPT ![c] = [Idle EXCEPT !.op = op, !.pc = "entered", !.peh = h]]
    BY DEF Request
  <2> QED
    BY <2>1, <2>2, Begins, ConnTypes
<1>3. UNCHANGED <<engines, phase, state, cookie, killer, shutdown, refcount, es, core,
                  releaser, signals, leaked, tapIterator>>
  BY DEF Request, Enter
<1>4. clients' \in [Handles -> Int] /\ \A g \in Handles : clients'[g] = clients[g] + Bit(g = h)
  BY <1>1, CallCounted DEF Request, Enter
<1> HIDE DEF h
<1>5. ConnOK(c)'
  <2>1. WorkerOK(c)'
    BY <1>1, <1>2, <1>3 DEF WorkerOK, Begun, StepOf, PlaceOf, Used
  <2>2. ~Reserving(c) /\ ReservedOK(c)
    BY <1>1, CallFacts DEF Reserving
  <2>3. ReservedOK(c)'
    BY <1>2, <1>3, <2>2 DEF ReservedOK, Begun, Holds, Used, h
  <2>4. WaitingOK(c)'
    BY <1>1, <1>3, CallFacts DEF WaitingOK
  <2> QED
    BY <2>1, <2>3, <2>4 DEF ConnOK
<1>6. \A g \in Handles : /\ c \notin Counted(g)
                         /\ (c \in Counted(g)') <=> g = h
  BY <1>1, <1>2 DEF Counted, Begun
<1>7. \A g \in Handles :
        /\ refcount'[g] = refcount[g] + Holding(es'[c], worker'[c], releaser'[c], g)
                                      - Holding(es[c], worker[c], releaser[c], g)
        /\ refcount'[g] <= refcount[g]
        /\ clients'[g] = clients[g] + Bit(c \in Counted(g)') - Bit(c \in Counted(g))
                                    + leaked'[g] - leaked[g]
  <2>1. \A g \in Handles : Holding(es'[c], worker'[c], releaser'[c], g)
                             = Holding(es[c], worker[c], releaser[c], g)
                         /\ Holding(es[c], worker[c], releaser[c], g) \in Nat
    BY <1>1, <1>2, <1>3 DEF Holding, Begun, Bit
  <2>2. \A g \in Handles : clients'[g] = clients[g] + Bit(c \in Counted(g)') - Bit(c \in Counted(g))
    BY <1>4, <1>6, ConnTypes DEF Bit
  <2>3. \A g \in Handles : refcount[g] \in Nat /\ leaked[g] \in Nat /\ clients[g] \in Nat
    BY ConnTypes
  <2> QED
    BY <1>3, <2>1, <2>2, <2>3 DEF Bit
<1>8. Others(c) /\ StepsQuietly(c) /\ KeepsWaiting(c)
  BY <1>2, <1>3 DEF Others, Begun, StepsQuietly, KeepsWaiting, Inner
<1>9. /\ es' \in [Conns -> EsType] /\ core' \in [Conns -> CoreType]
      /\ worker' \in [Conns -> WorkerType] /\ releaser' \in [Conns -> ReleaserType]
      /\ refcount' \in [Handles -> Int] /\ leaked' \in [Handles -> Nat]
      /\ tapIterator' \in [Handles -> BOOLEAN] /\ signals' \subseteq Handles
  BY <1>2, <1>3, ConnTypes DEF Begun
<1> QED
  BY <1>1, <1>3, <1>4, <1>5, <1>7, <1>8, <1>9, ConnStep

\* handle_delete_bucket is counted while it stops the bucket.
LEMMA MarkClientOK ==
  ASSUME IInv, NEW c \in Conns, MarkClient(c)
  PROVE  IInv'
<1> DEFINE h == worker[c].found
<1>1. /\ worker[c].pc = "mark" /\ worker[c].op = "delete" /\ h \in Handles /\ Used(h)
      /\ worker[c].old = None /\ shutdown.pc = "no" /\ core[c].at = "idle"
      /\ ~es[c].waiting
  BY CallFacts DEF MarkClient, At, WorkerOK, StepOf, PlaceOf, WaitingOK, WorkerType, HandleOrNone
<1>2. /\ Edited(c, "stop") /\ worker'[c].peh = h /\ worker'[c].found = h /\ worker'[c].old = None
      /\ worker'[c].ok = worker[c].ok
  <2>1. /\ "stop" \in PCs /\ h \in HandleOrNone
        /\ worker' = [worker EXCEPT ![c].pc = "stop", ![c].peh = h]
    BY <1>1 DEF PCs, HandleOrNone, MarkClient
  <2>2. /\ Edited(c, "stop") /\ worker'[c].ok = worker[c].ok /\ worker'[c].peh = h
        /\ worker'[c].found = worker[c].found /\ worker'[c].old = worker[c].old
    <3> HIDE DEF h
    <3> QED
      BY <2>1, EditPeh, ConnTypes
  <2> QED
    BY <1>1, <2>2
<1>3. UNCHANGED <<engines, phase, state, cookie, killer, shutdown, refcount, es, core,
                  releaser, signals, leaked, tapIterator>>
  BY DEF MarkClient, Enter
<1>4. clients' \in [Handles -> Int] /\ \A g \in Handles : clients'[g] = clients[g] + Bit(g = h)
  BY <1>1, CallCounted DEF MarkClient, Enter
<1>5. ConnOK(c)'
  <2>1. WorkerOK(c)'
    BY <1>1, <1>2, <1>3 DEF WorkerOK, Edited, StepOf, PlaceOf, Used
  <2>2. ~Reserving(c) /\ ReservedOK(c)
    BY <1>1, CallFacts DEF Reserving
  <2>3. ReservedOK(c)'
    BY <1>1, <1>2, <1>3, <2>2 DEF ReservedOK, Edited, Holds, Used
  <2>4. WaitingOK(c)'
    BY <1>1, <1>3, CallFacts DEF WaitingOK
  <2> QED
    BY <2>1, <2>3, <2>4 DEF ConnOK
<1>6. \A g \in Handles : /\ c \notin Counted(g)
                         /\ (c \in Counted(g)') <=> g = h
  BY <1>1, <1>2 DEF Counted, Edited
<1>7. \A g \in Handles : Holding(es'[c], worker'[c], releaser'[c], g)
                           = Holding(es[c], worker[c], releaser[c], g)
                       /\ Holding(es[c], worker[c], releaser[c], g) \in Nat
  BY <1>1, <1>2, <1>3 DEF Holding, Bit
<1> HIDE DEF h
<1>8. \A g \in Handles :
        /\ refcount'[g] = refcount[g] + Holding(es'[c], worker'[c], releaser'[c], g)
                                      - Holding(es[c], worker[c], releaser[c], g)
        /\ refcount'[g] <= refcount[g]
        /\ clients'[g] = clients[g] + Bit(c \in Counted(g)') - Bit(c \in Counted(g))
                                    + leaked'[g] - leaked[g]
  <2>1. \A g \in Handles : clients'[g] = clients[g] + Bit(c \in Counted(g)') - Bit(c \in Counted(g))
    BY <1>4, <1>6, ConnTypes DEF Bit
  <2>2. \A g \in Handles : refcount[g] \in Nat /\ leaked[g] \in Nat /\ clients[g] \in Nat
    BY ConnTypes
  <2> QED
    BY <1>3, <1>7, <2>1, <2>2 DEF Bit
<1>9. Others(c) /\ StepsQuietly(c) /\ KeepsWaiting(c)
  BY <1>2, <1>3 DEF Others, Edited, StepsQuietly, KeepsWaiting, Inner
<1>10. /\ es' \in [Conns -> EsType] /\ core' \in [Conns -> CoreType]
       /\ worker' \in [Conns -> WorkerType] /\ releaser' \in [Conns -> ReleaserType]
       /\ refcount' \in [Handles -> Int] /\ leaked' \in [Handles -> Nat]
       /\ tapIterator' \in [Handles -> BOOLEAN] /\ signals' \subseteq Handles
  BY <1>2, <1>3, ConnTypes DEF Edited
<1> QED
  BY <1>1, <1>3, <1>4, <1>5, <1>8, <1>9, <1>10, ConnStep

\* What reserving and releasing change in a connection's engine_specific.
LEMMA EsReserves ==
  ASSUME NEW e \in EsType, NEW n \in Nat, NEW b \in BOOLEAN
  PROVE  [e EXCEPT !.reserved = n, !.producer = b] \in EsType
<1> DEFINE f == [e EXCEPT !.reserved = n]
<1>1. f \in EsType
  BY DEF EsType
<1> HIDE DEF f
<1>2. [f EXCEPT !.producer = b] \in EsType
  BY <1>1 DEF EsType
<1> QED
  BY <1>2 DEF f

\* The engine reserves the cookie of a TAP connection: at most once, and the handle is
\* referred to before.
LEMMA ReserveCookieOK ==
  ASSUME IInv, NEW c \in Conns, ReserveCookie(c)
  PROVE  IInv'
<1>1. /\ worker[c].pc = "reserve" /\ worker[c].op = "tap" /\ worker[c].old = None
      /\ es[c].peh \in Handles /\ es[c].peh = worker[c].peh /\ Used(es[c].peh)
      /\ shutdown.pc = "no" /\ core[c].at = "idle" /\ ~es[c].waiting
      /\ es[c].reserved = 0 /\ releaser[c].pc = "none" /\ core[c].refcount = 1
      /\ releaser[c].peh = None /\ worker[c].found = None
  <2>1. worker[c].pc = "reserve"
    BY DEF ReserveCookie, At
  <2>2. worker[c].op = "tap" /\ core[c].at = "idle" /\ worker[c].old = None /\ worker[c].found = None
    BY <2>1, CallFacts DEF WorkerOK, StepOf, PlaceOf
  <2>3. es[c].peh = worker[c].peh /\ Used(worker[c].peh) /\ worker[c].peh \in Handles
    BY <2>1, <2>2, CallFacts DEF WorkerOK, ReservedOK, Calling, Used
  <2>4. ~Holds(c)
    BY <2>1, <2>2, CallFacts DEF ReservedOK, Reserving
  <2>5. es[c].reserved = 0 /\ releaser[c].pc = "none" /\ core[c].refcount = 1 /\ releaser[c].peh = None
    BY <2>4, CallFacts DEF ReservedOK, Holds, Bit
  <2>6. shutdown.pc = "no" /\ ~es[c].waiting
    BY <2>1, <2>2, CallFacts DEF WaitingOK
  <2> QED
    BY <2>1, <2>2, <2>3, <2>5, <2>6
<1> DEFINE h == es[c].peh
<1>2. PICK ok \in BOOLEAN, accepted \in BOOLEAN :
        /\ worker' = [worker EXCEPT ![c].pc = "assign", ![c].ok = ok /\ accepted]
        /\ ok => state[h] = "RUNNING"
        /\ refcount' = IF ok THEN AddRef(h) ELSE refcount
        /\ es' = IF ok THEN [es EXCEPT ![c].reserved = @ + 1, ![c].producer = accepted] ELSE es
        /\ core' = IF ok THEN [core EXCEPT ![c].refcount = @ + 1] ELSE core
  BY Zenon DEF ReserveCookie
<1>3. /\ SameCall(c) /\ worker'[c].pc = "assign"
  <2>1. "assign" \in PCs /\ None \in HandleOrNone /\ worker \in [Conns -> WorkerType]
    BY ConnTypes DEF PCs, HandleOrNone
  <2>2. PICK fine \in BOOLEAN : worker' = [worker EXCEPT ![c].pc = "assign", ![c].ok = fine]
    BY <1>2
  <2>3. /\ Edited(c, "assign") /\ worker'[c].peh = worker[c].peh
        /\ worker'[c].found = worker[c].found /\ worker'[c].old = worker[c].old
    BY <2>1, <2>2, EditOk
  <2> QED
    BY <2>3 DEF SameCall, Edited
<1>4. UNCHANGED <<engines, phase, state, cookie, killer, shutdown, clients, releaser, signals,
                  tapIterator, leaked>>
  BY DEF ReserveCookie
<1>5. /\ es' \in [Conns -> EsType] /\ es'[c].peh = h /\ es'[c].waiting = es[c].waiting
      /\ es'[c].reserved = Bit(ok) /\ \A d \in Conns : d # c => es'[d] = es[d]
  <2>1. es \in [Conns -> EsType] /\ es[c] \in EsType
    BY ConnTypes
  <2>2. [es[c] EXCEPT !.reserved = @ + 1, !.producer = accepted] \in EsType
    <3>1. es[c].reserved + 1 \in Nat
      BY <2>1 DEF EsType
    <3> QED
      BY <1>2, <2>1, <3>1, EsReserves
  <2>3. CASE ok
    BY <1>1, <1>2, <2>1, <2>2, <2>3 DEF EsType, Bit
  <2>4. CASE ~ok
    BY <1>1, <1>2, <2>1, <2>4 DEF Bit
  <2> QED
    BY <2>3, <2>4
<1>6. /\ core' \in [Conns -> CoreType] /\ core'[c].at = "idle"
      /\ core'[c].pending = core[c].pending
      /\ core'[c].refcount = 1 + Bit(ok) /\ \A d \in Conns : d # c => core'[d] = core[d]
  <2>1. core \in [Conns -> CoreType] /\ core[c] \in CoreType
    BY ConnTypes
  <2>2. [core[c] EXCEPT !.refcount = @ + 1] \in CoreType
    BY <2>1 DEF CoreType
  <2>3. CASE ok
    BY <1>1, <1>2, <2>1, <2>2, <2>3 DEF CoreType, Bit
  <2>4. CASE ~ok
    BY <1>1, <1>2, <2>1, <2>4 DEF Bit
  <2> QED
    BY <2>3, <2>4
<1>7. /\ refcount' \in [Handles -> Int]
      /\ \A g \in Handles : refcount'[g] = refcount[g] + Bit(ok /\ g = h)
  <2>1. h \in HandleOrNone
    BY <1>1 DEF HandleOrNone
  <2> HIDE DEF h
  <2> QED
    BY <1>2, <2>1, RefTaken, ConnTypes DEF Bit
<1> HIDE DEF h
<1>8. ConnOK(c)'
  <2>1. WorkerOK(c)'
    BY <1>1, <1>3, <1>4, <1>6, CallFacts DEF WorkerOK, SameCall, StepOf, PlaceOf, Used
  <2>2. Holds(c)' <=> ok
    BY <1>1, <1>4, <1>5 DEF Holds, Bit
  <2>3. ok => Reserving(c)'
    BY <1>1, <1>3 DEF Reserving, SameCall
  <2>4. ReservedOK(c)'
    <3>1. /\ es'[c].peh \in Handles /\ phase'[es'[c].peh] # "unused"
          /\ es'[c].reserved \in 0..1 /\ releaser'[c] = releaser[c] /\ es'[c].peh # None
      BY <1>1, <1>4, <1>5, CallFacts DEF Used, Bit, h
    <3>2. core'[c].refcount = 1 + Bit(Holds(c)')
      BY <1>6, <2>2 DEF Bit
    <3>3. worker'[c].pc = "assign"
      BY <1>3
    <3> QED
      BY <1>1, <2>2, <2>3, <3>1, <3>2, <3>3 DEF ReservedOK, Used
  <2>5. WaitingOK(c)'
    BY <1>1, <1>5, <1>6, CallFacts DEF WaitingOK
  <2> QED
    BY <2>1, <2>4, <2>5 DEF ConnOK
<1>9. \A g \in Handles : Bit(c \in Counted(g)') = Bit(c \in Counted(g))
  BY <1>1, <1>3 DEF Counted, SameCall, Bit
<1>10. \A g \in Handles : Holding(es'[c], worker'[c], releaser'[c], g)
                            = Holding(es[c], worker[c], releaser[c], g) + Bit(ok /\ g = h)
  BY <1>1, <1>3, <1>4, <1>5 DEF Holding, Bit, h, SameCall
<1>11. \A g \in Handles :
        /\ refcount'[g] = refcount[g] + Holding(es'[c], worker'[c], releaser'[c], g)
                                      - Holding(es[c], worker[c], releaser[c], g)
        /\ refcount'[g] <= refcount[g] \/ state[g] = "RUNNING"
        /\ clients'[g] = clients[g] + Bit(c \in Counted(g)') - Bit(c \in Counted(g))
                                    + leaked'[g] - leaked[g]
  <2>1. \A g \in Handles : refcount[g] \in Nat /\ leaked[g] \in Nat /\ clients[g] \in Nat
    BY ConnTypes
  <2>2. \A g \in Handles : Holding(es[c], worker[c], releaser[c], g) \in Nat
    BY DEF Holding, Bit
  <2>3. \A g \in Handles : clients'[g] = clients[g] + Bit(c \in Counted(g)') - Bit(c \in Counted(g))
                                    + leaked'[g] - leaked[g]
    BY <1>4, <1>9, <2>1 DEF Bit
  <2>4. \A g \in Handles : refcount'[g] <= refcount[g] \/ state[g] = "RUNNING"
    BY <1>2, <1>7, <2>1 DEF Bit
  <2> QED
    BY <1>7, <1>10, <2>1, <2>2, <2>3, <2>4 DEF Bit
<1>12. Others(c) /\ StepsQuietly(c) /\ KeepsWaiting(c)
  BY <1>1, <1>3, <1>4, <1>5, <1>6 DEF Others, SameCall, StepsQuietly, KeepsWaiting, Inner
<1>13. /\ worker' \in [Conns -> WorkerType] /\ releaser' \in [Conns -> ReleaserType]
       /\ clients' \in [Handles -> Int] /\ leaked' \in [Handles -> Nat]
       /\ tapIterator' \in [Handles -> BOOLEAN] /\ signals' \subseteq Handles
  BY <1>3, <1>4, ConnTypes DEF SameCall
<1> QED
  BY <1>1, <1>4, <1>5, <1>6, <1>7, <1>8, <1>11, <1>12, <1>13, ConnStep
-----------------------------------------------------------------------------
(***************************************************************************)
(* Choosing a bucket: steps that move references and count no call.        *)
(***************************************************************************)

CountedPCs == {"entered", "inside", "reserve", "assign", "stop", "leave"}
Uncounted(c) ==
  \/ worker'[c] = worker[c]
  \/ /\ worker[c].pc \notin CountedPCs
     /\ worker'[c].pc \notin CountedPCs \cup {"start_shutdown"}

\* A step that changes what one connection holds, with the counter following.
LEMMA HeldStep ==
  ASSUME IInv, NEW c \in Conns,
         UNCHANGED <<engines, phase, state, cookie, killer, shutdown, clients, leaked, tapIterator>>,
         Others(c), Uncounted(c), KeepsWaiting(c), ConnOK(c)',
         es' \in [Conns -> EsType], core' \in [Conns -> CoreType],
         worker' \in [Conns -> WorkerType], releaser' \in [Conns -> ReleaserType],
         refcount' \in [Handles -> Int], signals' \subseteq Handles,
         shutdown.pc = "no" \/ worker'[c].pc = "idle",
         \A h \in Handles :
           /\ refcount'[h] = refcount[h] + Holding(es'[c], worker'[c], releaser'[c], h)
                                         - Holding(es[c], worker[c], releaser[c], h)
           /\ refcount'[h] <= refcount[h] \/ state[h] = "RUNNING"
  PROVE  IInv'
<1>1. StepsQuietly(c)
  BY DEF Uncounted, StepsQuietly, CountedPCs, Inner
<1>2. \A h \in Handles : Bit(c \in Counted(h)') = Bit(c \in Counted(h))
  BY DEF Uncounted, Counted, CountedPCs, Bit
<1>3. \A h \in Handles : clients'[h] = clients[h] + Bit(c \in Counted(h)') - Bit(c \in Counted(h))
                                       + leaked'[h] - leaked[h]
  BY <1>2, ConnTypes DEF Bit
<1>4. clients' \in [Handles -> Int] /\ leaked' \in [Handles -> Nat] /\ tapIterator' \in [Handles -> BOOLEAN]
  BY ConnTypes
<1> QED
  BY <1>1, <1>3, <1>4, ConnStep

\* What is held is counted by a natural number.
LEMMA HoldingNat ==
  ASSUME NEW e, NEW w, NEW r, NEW h
  PROVE  Holding(e, w, r, h) \in Nat
  BY DEF Holding, Bit

\* A connection that waits for its next command, and one that chooses a bucket, holds
\* nothing else.
LEMMA Free ==
  ASSUME IInv, NEW c \in Conns, core[c].at \in {"closed", "idle"}, worker[c].op # "tap"
  PROVE  ~Holds(c) /\ es[c].reserved = 0 /\ releaser[c].pc = "none" /\ releaser[c].peh = None
         /\ core[c].refcount = 1
<1>1. ~Holds(c)
  BY CallFacts DEF ReservedOK, Reserving
<1> QED
  BY <1>1, CallFacts DEF Holds, ReservedOK, Bit

\* handle_connect.
LEMMA ConnectOK ==
  ASSUME IInv, NEW c \in Conns, Connect(c)
  PROVE  IInv'
<1>1. worker[c].pc = "idle" /\ shutdown.pc = "no" /\ core[c].at = "closed"
  BY DEF Connect, WorkerReady, At
<1>2. worker[c].op = "none" /\ worker[c].found = None /\ worker[c].old = None /\ ~es[c].waiting
  BY <1>1, CallFacts DEF WorkerOK, StepOf, WaitingOK
<1>3. Begun(c, "connect", "find", None)
  <2>1. "connect" \in Ops /\ "find" \in PCs /\ None \in HandleOrNone
    BY DEF Ops, PCs, HandleOrNone
  <2>2. worker' = [worker EXCEPT ![c] = [Idle EXCEPT !.op = "connect", !.pc = "find"]]
    BY DEF Connect, Call
  <2> QED
    BY <2>1, <2>2, Begins, ConnTypes
<1>4. UNCHANGED <<engines, phase, state, cookie, killer, shutdown, clients, leaked, tapIterator,
                  refcount, releaser, signals>>
  BY DEF Connect, handleVars
<1>5. /\ es' \in [Conns -> EsType] /\ es'[c].peh = es[c].peh /\ es'[c].waiting = es[c].waiting
      /\ es'[c].reserved = es[c].reserved /\ \A d \in Conns : d # c => es'[d] = es[d]
  <2>1. es \in [Conns -> EsType] /\ es[c] \in EsType /\ es' = [es EXCEPT ![c].connected = TRUE]
    BY ConnTypes DEF Connect
  <2>2. [es[c] EXCEPT !.connected = TRUE] \in EsType
    BY <2>1 DEF EsType
  <2> QED
    BY <2>1, <2>2 DEF EsType
<1>6. /\ core' \in [Conns -> CoreType] /\ core'[c].at = "idle"
      /\ core'[c].pending = core[c].pending
      /\ core'[c].refcount = core[c].refcount /\ \A d \in Conns : d # c => core'[d] = core[d]
  <2>1. core \in [Conns -> CoreType] /\ core[c] \in CoreType /\ core' = [core EXCEPT ![c].at = "idle"]
    BY ConnTypes DEF Connect
  <2>2. [core[c] EXCEPT !.at = "idle"] \in CoreType
    BY <2>1 DEF CoreType
  <2> QED
    BY <2>1, <2>2 DEF CoreType
<1>7. ConnOK(c)'
  <2>1. WorkerOK(c)'
    BY <1>3, <1>6, RolesAssumption DEF WorkerOK, Begun, StepOf, PlaceOf, Calling
  <2>2. ReservedOK(c) /\ ~Holds(c) /\ es[c].reserved = 0 /\ releaser[c].pc = "none"
    BY <1>1, <1>2, CallFacts, Free
  <2>3. ~Holds(c)'
    BY <2>2, <1>4, <1>5 DEF Holds
  <2>4. ReservedOK(c)'
    BY <1>3, <1>4, <1>5, <1>6, <2>2, <2>3 DEF ReservedOK, Begun, Used, Bit
  <2>5. WaitingOK(c)'
    BY <1>1, <1>2, <1>5, <1>6, CallFacts DEF WaitingOK
  <2> QED
    BY <2>1, <2>4, <2>5 DEF ConnOK
<1>8. \A h \in Handles : Holding(es'[c], worker'[c], releaser'[c], h)
                           = Holding(es[c], worker[c], releaser[c], h)
  BY <1>2, <1>3, <1>4, <1>5 DEF Holding, Begun
<1>9. \A h \in Handles :
         /\ refcount'[h] = refcount[h] + Holding(es'[c], worker'[c], releaser'[c], h)
                                       - Holding(es[c], worker[c], releaser[c], h)
         /\ refcount'[h] <= refcount[h]
  BY <1>4, <1>8, HoldingNat, ConnTypes
<1>10. Others(c) /\ Uncounted(c) /\ KeepsWaiting(c)
  BY <1>1, <1>3, <1>4, <1>5, <1>6 DEF Others, Begun, Uncounted, KeepsWaiting, CountedPCs
<1>11. /\ worker' \in [Conns -> WorkerType] /\ releaser' \in [Conns -> ReleaserType]
       /\ refcount' \in [Handles -> Int] /\ signals' \subseteq Handles
  BY <1>3, <1>4, ConnTypes DEF Begun
<1> QED
  BY <1>1, <1>4, <1>5, <1>6, <1>7, <1>9, <1>10, <1>11, HeldStep

\* handle_auth, handle_select_bucket, handle_delete_bucket.
LEMMA CommandOK ==
  ASSUME IInv, NEW c \in Conns, NEW op \in {"auth", "select", "delete"}, Command(c, op)
  PROVE  IInv'
<1>1. worker[c].pc = "idle" /\ shutdown.pc = "no" /\ core[c].at = "idle"
  BY DEF Command, WorkerReady, At
<1>2. worker[c].op = "none" /\ worker[c].found = None /\ worker[c].old = None /\ ~es[c].waiting
  BY <1>1, CallFacts DEF WorkerOK, StepOf, WaitingOK
<1>3. Begun(c, op, "find", None)
  <2>1. op \in Ops /\ "find" \in PCs /\ None \in HandleOrNone
    BY DEF Ops, PCs, HandleOrNone
  <2>2. worker' = [worker EXCEPT ![c] = [Idle EXCEPT !.op = op, !.pc = "find"]]
    BY DEF Command, Call
  <2> QED
    BY <2>1, <2>2, Begins, ConnTypes
<1>4. UNCHANGED <<engines, phase, state, cookie, killer, shutdown, clients, leaked, tapIterator,
                  refcount, releaser, signals, es, core>>
  BY DEF Command, handleVars
<1>5. ConnOK(c)'
  <2>1. WorkerOK(c)'
    BY <1>1, <1>3, <1>4, RolesAssumption DEF WorkerOK, Begun, StepOf, PlaceOf, Calling
  <2>2. ReservedOK(c) /\ ~Holds(c)
    BY <1>1, <1>2, CallFacts, Free
  <2>3. ReservedOK(c)'
    BY <1>3, <1>4, <2>2 DEF ReservedOK, Begun, Used, Holds
  <2>4. WaitingOK(c)'
    BY <1>1, <1>2, <1>4, CallFacts DEF WaitingOK
  <2> QED
    BY <2>1, <2>3, <2>4 DEF ConnOK
<1>6. \A h \in Handles : Holding(es'[c], worker'[c], releaser'[c], h)
                           = Holding(es[c], worker[c], releaser[c], h)
  BY <1>2, <1>3, <1>4 DEF Holding, Begun
<1>7. \A h \in Handles :
         /\ refcount'[h] = refcount[h] + Holding(es'[c], worker'[c], releaser'[c], h)
                                       - Holding(es[c], worker[c], releaser[c], h)
         /\ refcount'[h] <= refcount[h]
  BY <1>4, <1>6, HoldingNat, ConnTypes
<1>8. Others(c) /\ Uncounted(c) /\ KeepsWaiting(c)
  BY <1>1, <1>3, <1>4 DEF Others, Begun, Uncounted, KeepsWaiting, CountedPCs
<1>9. /\ worker' \in [Conns -> WorkerType] /\ releaser' \in [Conns -> ReleaserType]
      /\ es' \in [Conns -> EsType] /\ core' \in [Conns -> CoreType]
      /\ refcount' \in [Handles -> Int] /\ signals' \subseteq Handles
  BY <1>3, <1>4, ConnTypes DEF Begun
<1> QED
  BY <1>1, <1>4, <1>5, <1>7, <1>8, <1>9, HeldStep

\* find_bucket gives a handle that runs, with a reference.
LEMMA RetainedRuns ==
  ASSUME IInv, NEW h \in HandleOrNone
  PROVE  /\ Retained(h) \in HandleOrNone
         /\ Retained(h) # None => Retained(h) = h /\ h \in Handles /\ state[h] = "RUNNING" /\ Used(h)
<1>1. h \in Handles /\ state[h] = "RUNNING" => Used(h)
  BY DEF IInv, HandleOK, LifeOK, Untouched, Used
<1> QED
  BY <1>1 DEF Retained, HandleOrNone

\* What an operation that chooses a bucket knows before it chooses.
LEMMA ChoosingFacts ==
  ASSUME IInv, NEW c \in Conns,
         worker[c].pc \in {"find", "auto_create", "set", "release_old", "release_found"}
  PROVE  /\ worker[c].op \in {"connect", "auth", "select", "delete"}
         /\ core[c].at = "idle" /\ shutdown.pc = "no"
         /\ ~Holds(c) /\ es[c].reserved = 0 /\ releaser[c].pc = "none" /\ releaser[c].peh = None
         /\ core[c].refcount = 1
         /\ worker[c].pc \in {"find", "auto_create"} => worker[c].found = None
         /\ worker[c].pc # "release_old" => worker[c].old = None
<1>1. worker[c].op \in {"connect", "auth", "select", "delete"}
  BY CallFacts DEF WorkerOK, StepOf
<1>2. core[c].at = "idle"
  BY <1>1, CallFacts DEF WorkerOK, PlaceOf
<1>3. /\ worker[c].pc \in {"find", "auto_create"} => worker[c].found = None
      /\ worker[c].pc # "release_old" => worker[c].old = None
      /\ shutdown.pc = "no"
  BY <1>1, CallFacts DEF WorkerOK
<1> QED
  BY <1>1, <1>2, <1>3, Free

\* find_bucket takes a reference under the lock.
LEMMA FindBucketOK ==
  ASSUME IInv, NEW c \in Conns, NEW n \in Names, FindBucket(c, n)
  PROVE  IInv'
<1>1. worker[c].pc = "find"
  BY DEF FindBucket, At
<1>2. /\ worker[c].op \in {"connect", "auth", "select", "delete"}
      /\ core[c].at = "idle" /\ shutdown.pc = "no" /\ ~Holds(c) /\ releaser[c].pc = "none"
      /\ worker[c].found = None /\ worker[c].old = None /\ ~es[c].waiting
  <2>1. ~es[c].waiting
    BY <1>1, ChoosingFacts, CallFacts DEF WaitingOK
  <2> QED
    BY <1>1, <2>1, ChoosingFacts
<1>3. engines[n] \in HandleOrNone
  BY DEF IInv, TypeOK
<1>4. PICK found \in HandleOrNone, pc \in {"auto_create", "release_found", "mark", "set"} :
        /\ found = Retained(engines[n])
        /\ refcount' = AddRef(found)
        /\ worker' = [worker EXCEPT ![c].found = found, ![c].pc = pc]
        /\ pc = "auto_create" => found = None /\ worker[c].op \in {"connect", "auth"}
        /\ pc = "mark" => found # None /\ worker[c].op = "delete"
  <2> DEFINE f == Retained(engines[n])
  <2>1. f \in HandleOrNone
    BY <1>3, RetainedRuns
  <2>2. /\ refcount' = AddRef(f)
        /\ worker' = [worker EXCEPT ![c].found = f,
              ![c].pc = CASE f = None /\ MayCreate(worker[c].op) -> "auto_create"
                          [] worker[c].op = "delete" -> IF f = None THEN "release_found" ELSE "mark"
                          [] OTHER -> "set"]
    BY DEF FindBucket
  <2>3. CASE f = None /\ MayCreate(worker[c].op)
    <3>1. worker' = [worker EXCEPT ![c].found = f, ![c].pc = "auto_create"]
      BY <2>2, <2>3, <1>2, Zenon DEF MayCreate
    <3> QED
      BY <2>1, <2>2, <2>3, <3>1, Zenon DEF MayCreate
  <2>4. CASE ~(f = None /\ MayCreate(worker[c].op)) /\ worker[c].op = "delete" /\ f = None
    <3>1. worker' = [worker EXCEPT ![c].found = f, ![c].pc = "release_found"]
      BY <2>2, <2>4, Zenon
    <3> QED
      BY <2>1, <2>2, <2>4, <3>1, Zenon
  <2>5. CASE ~(f = None /\ MayCreate(worker[c].op)) /\ worker[c].op = "delete" /\ f # None
    <3>1. worker' = [worker EXCEPT ![c].found = f, ![c].pc = "mark"]
      BY <2>2, <2>5, Zenon
    <3> QED
      BY <2>1, <2>2, <2>5, <3>1, Zenon
  <2>6. CASE ~(f = None /\ MayCreate(worker[c].op)) /\ worker[c].op # "delete"
    <3>1. worker' = [worker EXCEPT ![c].found = f, ![c].pc = "set"]
      BY <2>2, <2>6, Zenon
    <3> QED
      BY <2>1, <2>2, <2>6, <3>1, Zenon
  <2> QED
    BY <2>3, <2>4, <2>5, <2>6
<1>5. /\ Edited(c, pc) /\ worker'[c].found = found /\ worker'[c].old = None
      /\ worker'[c].ok = worker[c].ok /\ worker'[c].peh = worker[c].peh
  <2>1. /\ worker' = [worker EXCEPT ![c].found = found, ![c].pc = pc]
        /\ pc \in PCs /\ TRUE \in BOOLEAN /\ worker \in [Conns -> WorkerType]
    BY <1>4, ConnTypes DEF PCs
  <2>2. /\ Edited(c, pc) /\ worker'[c].found = found /\ worker'[c].old = worker[c].old
        /\ worker'[c].ok = worker[c].ok /\ worker'[c].peh = worker[c].peh
    BY <2>1, EditFound
  <2> QED
    BY <1>2, <2>2
<1>6. found # None => found \in Handles /\ state[found] = "RUNNING" /\ Used(found)
  BY <1>3, <1>4, RetainedRuns
<1>7. UNCHANGED <<engines, phase, state, cookie, killer, shutdown, clients, leaked, tapIterator,
                  releaser, signals, es, core>>
  BY DEF FindBucket
<1>8. ConnOK(c)'
  <2>1. WorkerOK(c)'
    BY <1>2, <1>4, <1>5, <1>6, <1>7 DEF WorkerOK, Edited, StepOf, PlaceOf, Calling, Used
  <2>2. ReservedOK(c)'
    BY <1>2, <1>5, <1>7, CallFacts DEF ReservedOK, Edited, Used, Holds
  <2>3. WaitingOK(c)'
    BY <1>2, <1>7, CallFacts DEF WaitingOK
  <2> QED
    BY <2>1, <2>2, <2>3 DEF ConnOK
<1>9. \A h \in Handles : Holding(es'[c], worker'[c], releaser'[c], h)
                           = Holding(es[c], worker[c], releaser[c], h) + Bit(h = found)
  BY <1>2, <1>5, <1>7, RolesAssumption DEF Holding, Bit, Handles
<1>10. /\ refcount' \in [Handles -> Int]
       /\ \A h \in Handles : refcount'[h] = refcount[h] + Bit(h = found)
  BY <1>4, RefTaken
<1>11. \A h \in Handles :
         /\ refcount'[h] = refcount[h] + Holding(es'[c], worker'[c], releaser'[c], h)
                                       - Holding(es[c], worker[c], releaser[c], h)
         /\ refcount'[h] <= refcount[h] \/ state[h] = "RUNNING"
  <2> TAKE h \in Handles
  <2>1. Bit(h = found) \in Nat /\ refcount[h] \in Nat
        /\ (Bit(h = found) = 0 \/ state[h] = "RUNNING")
    BY <1>6, ConnTypes, CallFacts DEF Bit
  <2> QED
    BY <1>9, <1>10, <2>1, HoldingNat DEF Bit
<1>12. Others(c) /\ Uncounted(c) /\ KeepsWaiting(c)
  BY <1>1, <1>4, <1>5, <1>7 DEF Others, Edited, Uncounted, KeepsWaiting, CountedPCs
<1>13. /\ worker' \in [Conns -> WorkerType] /\ releaser' \in [Conns -> ReleaserType]
       /\ es' \in [Conns -> EsType] /\ core' \in [Conns -> CoreType] /\ signals' \subseteq Handles
  BY <1>5, <1>7, ConnTypes DEF Edited
<1> QED
  BY <1>2, <1>7, <1>8, <1>10, <1>11, <1>12, <1>13, HeldStep

\* handle_connect and handle_auth go on without a bucket of their own.
LEMMA NotCreatedOK ==
  ASSUME IInv, NEW c \in Conns, At(c, "auto_create"), Goto(c, "set"),
         UNCHANGED <<engines, phase, state, cookie, killer, shutdown, clients, leaked, tapIterator,
                     releaser, signals, es, core, refcount>>
  PROVE  IInv'
<1>1. worker[c].pc = "auto_create"
  BY DEF At
<1>2. /\ worker[c].op \in {"connect", "auth", "select"}
      /\ core[c].at = "idle" /\ shutdown.pc = "no" /\ ~Holds(c)
      /\ worker[c].found = None /\ worker[c].old = None
  <2>1. worker[c].op \in {"connect", "auth", "select"}
    BY <1>1, CallFacts DEF WorkerOK, StepOf
  <2> QED
    BY <1>1, <2>1, ChoosingFacts
<1>3. /\ Edited(c, "set") /\ worker'[c].ok = worker[c].ok /\ worker'[c].peh = worker[c].peh
      /\ worker'[c].found = worker[c].found /\ worker'[c].old = worker[c].old
  <2>1. /\ "set" \in PCs /\ None \in HandleOrNone /\ TRUE \in BOOLEAN
        /\ worker' = [worker EXCEPT ![c].pc = "set"] /\ worker \in [Conns -> WorkerType]
    BY ConnTypes DEF PCs, HandleOrNone, Goto
  <2> QED
    BY <2>1, EditPc
<1>4. ConnOK(c)'
  <2>1. WorkerOK(c)'
    BY <1>2, <1>3, RolesAssumption DEF WorkerOK, Edited, StepOf, PlaceOf, Calling
  <2>2. ReservedOK(c)'
    BY <1>2, <1>3, CallFacts DEF ReservedOK, Edited, Used, Holds
  <2>3. WaitingOK(c)'
    BY <1>2, <1>3, CallFacts DEF WaitingOK, Edited, Holds
  <2> QED
    BY <2>1, <2>2, <2>3 DEF ConnOK
<1>5. \A h \in Handles : Holding(es'[c], worker'[c], releaser'[c], h)
                           = Holding(es[c], worker[c], releaser[c], h)
  BY <1>3 DEF Holding
<1>6. \A h \in Handles :
         /\ refcount'[h] = refcount[h] + Holding(es'[c], worker'[c], releaser'[c], h)
                                       - Holding(es[c], worker[c], releaser[c], h)
         /\ refcount'[h] <= refcount[h]
  BY <1>5, HoldingNat, ConnTypes
<1>7. Others(c) /\ Uncounted(c) /\ KeepsWaiting(c)
  BY <1>1, <1>3 DEF Others, Edited, Uncounted, KeepsWaiting, CountedPCs
<1>8. /\ worker' \in [Conns -> WorkerType] /\ releaser' \in [Conns -> ReleaserType]
      /\ es' \in [Conns -> EsType] /\ core' \in [Conns -> CoreType]
      /\ signals' \subseteq Handles /\ refcount' \in [Handles -> Int]
  BY <1>3, ConnTypes DEF Edited
<1> QED
  BY <1>2, <1>4, <1>6, <1>7, <1>8, HeldStep

\* set_engine_handle: in with the new...
LEMMA SetEngineHandleOK ==
  ASSUME IInv, NEW c \in Conns, SetEngineHandle(c)
  PROVE  IInv'
<1>1. worker[c].pc = "set"
  BY DEF SetEngineHandle, At
<1>2. /\ worker[c].op \in {"connect", "auth", "select", "delete"}
      /\ core[c].at = "idle" /\ shutdown.pc = "no" /\ ~Holds(c) /\ es[c].reserved = 0
      /\ releaser[c].pc = "none" /\ releaser[c].peh = None /\ worker[c].old = None
  BY <1>1, ChoosingFacts
<1>3. es[c].peh \in HandleOrNone /\ worker[c].found \in HandleOrNone
      /\ (es[c].peh = None \/ Used(es[c].peh))
  BY CallFacts DEF EsType, WorkerType, ReservedOK
<1>4. PICK new \in HandleOrNone :
        /\ es' = [es EXCEPT ![c].peh = new]
        /\ refcount' = AddRef(new)
        /\ new # None => new = worker[c].found /\ new \in Handles /\ state[new] = "RUNNING" /\ Used(new)
  <2>1. CASE worker[c].op = "delete"
    <3>1. es' = [es EXCEPT ![c].peh = None] /\ refcount' = AddRef(None)
      BY <2>1 DEF SetEngineHandle
    <3> QED
      BY <3>1, Zenon DEF HandleOrNone
  <2>2. CASE worker[c].op # "delete"
    <3> DEFINE new == Retained(worker[c].found)
    <3>1. es' = [es EXCEPT ![c].peh = new] /\ refcount' = AddRef(new)
      BY <2>2 DEF SetEngineHandle
    <3>2. /\ new \in HandleOrNone
          /\ new # None => new = worker[c].found /\ new \in Handles /\ state[new] = "RUNNING" /\ Used(new)
      BY <1>3, RetainedRuns
    <3> HIDE DEF new
    <3> QED
      BY <3>1, <3>2, Zenon
  <2> QED
    BY <2>1, <2>2
<1>5. /\ Edited(c, "release_old") /\ worker'[c].old = es[c].peh /\ worker'[c].found = worker[c].found
      /\ worker'[c].ok = worker[c].ok /\ worker'[c].peh = worker[c].peh
  <2>1. worker' = [worker EXCEPT ![c].old = es[c].peh, ![c].pc = "release_old"]
    BY DEF SetEngineHandle
  <2>2. PICK h \in HandleOrNone :
          h = es[c].peh /\ worker' = [worker EXCEPT ![c].old = h, ![c].pc = "release_old"]
    BY <1>3, <2>1, Zenon
  <2>3. "release_old" \in PCs /\ worker \in [Conns -> WorkerType]
    BY ConnTypes DEF PCs
  <2>4. /\ Edited(c, "release_old") /\ worker'[c].old = h /\ worker'[c].found = worker[c].found
        /\ worker'[c].ok = worker[c].ok /\ worker'[c].peh = worker[c].peh
    BY <2>2, <2>3, EditOld, ZenonT(40)
  <2> QED
    BY <2>2, <2>4
<1>6. UNCHANGED <<engines, phase, state, cookie, killer, shutdown, clients, leaked, tapIterator,
                  releaser, signals, core>>
  BY DEF SetEngineHandle
<1>7. /\ es' \in [Conns -> EsType] /\ es'[c].peh = new /\ es'[c].waiting = es[c].waiting
      /\ es'[c].reserved = es[c].reserved /\ \A d \in Conns : d # c => es'[d] = es[d]
  <2>1. es \in [Conns -> EsType] /\ es[c] \in EsType
    BY ConnTypes
  <2>2. [es[c] EXCEPT !.peh = new] \in EsType
    BY <2>1 DEF EsType
  <2> QED
    BY <1>4, <2>1, <2>2 DEF EsType
<1>8. ConnOK(c)'
  <2>1. WorkerOK(c)'
    <3>1. /\ \A h \in {worker[c].found, es[c].peh} : h = None \/ Used(h)
      BY <1>3, CallFacts DEF WorkerOK
    <3> QED
      BY <1>2, <1>5, <1>6, <3>1 DEF WorkerOK, Edited, StepOf, PlaceOf, Calling, Used
  <2>2. ~Holds(c)' /\ core'[c].refcount = 1
    BY <1>2, <1>6, <1>7, CallFacts DEF Holds, ReservedOK, Bit
  <2>3. ReservedOK(c)'
    BY <1>2, <1>4, <1>5, <1>6, <1>7, <2>2 DEF ReservedOK, Edited, Used, Bit
  <2>4. WaitingOK(c)'
    BY <1>1, <1>2, <1>5, <1>6, <1>7, <2>2, CallFacts DEF WaitingOK, Edited
  <2> QED
    BY <2>1, <2>3, <2>4 DEF ConnOK
<1>9. \A h \in Handles : Holding(es'[c], worker'[c], releaser'[c], h)
                           = Holding(es[c], worker[c], releaser[c], h) + Bit(h = new)
  BY <1>2, <1>5, <1>6, <1>7, CallFacts DEF Holding, Bit
<1>10. /\ refcount' \in [Handles -> Int]
       /\ \A h \in Handles : refcount'[h] = refcount[h] + Bit(h = new)
  BY <1>4, RefTaken
<1>11. \A h \in Handles :
         /\ refcount'[h] = refcount[h] + Holding(es'[c], worker'[c], releaser'[c], h)
                                       - Holding(es[c], worker[c], releaser[c], h)
         /\ refcount'[h] <= refcount[h] \/ state[h] = "RUNNING"
  <2> TAKE h \in Handles
  <2>1. Bit(h = new) \in Nat /\ refcount[h] \in Nat
        /\ (Bit(h = new) = 0 \/ state[h] = "RUNNING")
    BY <1>4, ConnTypes, CallFacts DEF Bit
  <2> QED
    BY <1>9, <1>10, <2>1, HoldingNat DEF Bit
<1>12. Others(c) /\ Uncounted(c) /\ KeepsWaiting(c)
  BY <1>1, <1>5, <1>6, <1>7 DEF Others, Edited, Uncounted, KeepsWaiting, CountedPCs
<1>13. /\ worker' \in [Conns -> WorkerType] /\ releaser' \in [Conns -> ReleaserType]
       /\ core' \in [Conns -> CoreType] /\ signals' \subseteq Handles
  BY <1>5, <1>6, ConnTypes DEF Edited
<1> QED
  BY <1>2, <1>6, <1>7, <1>8, <1>10, <1>11, <1>12, <1>13, HeldStep

\* ... out with the old.
LEMMA ReleaseOldOK ==
  ASSUME IInv, NEW c \in Conns, ReleaseOld(c)
  PROVE  IInv'
<1>1. worker[c].pc = "release_old"
  BY DEF ReleaseOld, At
<1>2. /\ worker[c].op \in {"connect", "auth", "select", "delete"}
      /\ core[c].at = "idle" /\ shutdown.pc = "no"
  BY <1>1, ChoosingFacts
<1>3. UNCHANGED <<engines, phase, state, cookie, killer, shutdown, clients, leaked, tapIterator,
                  releaser, es, core>>
  BY DEF ReleaseOld
<1>4. /\ Edited(c, "release_found") /\ worker'[c].old = None /\ worker'[c].found = worker[c].found
      /\ worker'[c].ok = worker[c].ok /\ worker'[c].peh = worker[c].peh
  <2>1. /\ worker' = [worker EXCEPT ![c].old = None, ![c].pc = "release_found"]
        /\ "release_found" \in PCs /\ worker \in [Conns -> WorkerType] /\ None \in HandleOrNone
    BY ConnTypes DEF PCs, ReleaseOld, HandleOrNone
  <2> QED
    BY <2>1, EditOld, ZenonT(60)
<1>5. /\ refcount' \in [Handles -> Int] /\ signals' \subseteq Handles
      /\ \A g \in Handles : refcount'[g] = refcount[g] - Bit(g = worker[c].old)
  <2> DEFINE h == worker[c].old
  <2>1. h \in HandleOrNone /\ Release(h)
    BY CallFacts DEF WorkerType, ReleaseOld
  <2> HIDE DEF h
  <2>2. /\ refcount' \in [Handles -> Int] /\ signals' \subseteq Handles
        /\ \A g \in Handles : refcount'[g] = refcount[g] - Bit(g = h)
    BY <2>1, RefReleased
  <2> QED
    BY <2>2 DEF h
<1>6. ConnOK(c)'
  <2>1. WorkerOK(c)'
    BY <1>2, <1>3, <1>4, CallFacts DEF WorkerOK, Edited, StepOf, PlaceOf, Calling, Used
  <2>2. ReservedOK(c)'
    BY <1>2, <1>3, <1>4, CallFacts DEF ReservedOK, Edited, Used, Holds, Reserving
  <2>3. WaitingOK(c)'
    BY <1>2, <1>3, <1>4, CallFacts DEF WaitingOK, Edited, Holds
  <2> QED
    BY <2>1, <2>2, <2>3 DEF ConnOK
<1>7. \A h \in Handles : Holding(es'[c], worker'[c], releaser'[c], h)
                           = Holding(es[c], worker[c], releaser[c], h) - Bit(h = worker[c].old)
  BY <1>3, <1>4, CallFacts DEF Holding, Bit
<1>8. \A h \in Handles :
         /\ refcount'[h] = refcount[h] + Holding(es'[c], worker'[c], releaser'[c], h)
                                       - Holding(es[c], worker[c], releaser[c], h)
         /\ refcount'[h] <= refcount[h]
  BY <1>5, <1>7, HoldingNat, ConnTypes DEF Bit
<1>9. Others(c) /\ Uncounted(c) /\ KeepsWaiting(c)
  BY <1>1, <1>3, <1>4 DEF Others, Edited, Uncounted, KeepsWaiting, CountedPCs
<1>10. /\ worker' \in [Conns -> WorkerType] /\ releaser' \in [Conns -> ReleaserType]
       /\ es' \in [Conns -> EsType] /\ core' \in [Conns -> CoreType]
  BY <1>3, <1>4, ConnTypes DEF Edited
<1> QED
  BY <1>2, <1>3, <1>5, <1>6, <1>8, <1>9, <1>10, HeldStep

\* The caller of find_bucket gives its reference back; a client whose bucket is being
\* deleted waits.
LEMMA ReleaseFoundOK ==
  ASSUME IInv, NEW c \in Conns, ReleaseFound(c)
  PROVE  IInv'
<1>1. worker[c].pc = "release_found"
  BY DEF ReleaseFound, At
<1>2. /\ worker[c].op \in {"connect", "auth", "select", "delete"} /\ worker[c].old = None
      /\ core[c].at = "idle" /\ shutdown.pc = "no" /\ ~Holds(c) /\ es[c].reserved = 0
      /\ releaser[c].pc = "none" /\ core[c].refcount = 1 /\ releaser[c].peh = None
  BY <1>1, ChoosingFacts
<1>3. UNCHANGED <<engines, phase, state, cookie, killer, shutdown, clients, leaked, tapIterator,
                  releaser, es>>
  BY DEF ReleaseFound
<1>4. Begun(c, "none", "idle", None)
  <2>1. /\ worker' = [worker EXCEPT ![c] = Idle] /\ None \in HandleOrNone
        /\ "none" \in Ops /\ "idle" \in PCs
    BY DEF ReleaseFound, HandleOrNone, Ops, PCs
  <2> QED
    BY <2>1, Begins, ConnTypes
<1>5. /\ refcount' \in [Handles -> Int] /\ signals' \subseteq Handles
      /\ \A g \in Handles : refcount'[g] = refcount[g] - Bit(g = worker[c].found)
  <2> DEFINE h == worker[c].found
  <2>1. h \in HandleOrNone /\ Release(h)
    BY CallFacts DEF WorkerType, ReleaseFound
  <2> HIDE DEF h
  <2>2. /\ refcount' \in [Handles -> Int] /\ signals' \subseteq Handles
        /\ \A g \in Handles : refcount'[g] = refcount[g] - Bit(g = h)
    BY <2>1, RefReleased
  <2> QED
    BY <2>2 DEF h
<1>6. /\ core' \in [Conns -> CoreType] /\ core'[c].refcount = core[c].refcount
      /\ core'[c].pending = core[c].pending
      /\ core'[c].at = IF es[c].waiting THEN "blocked" ELSE "idle"
      /\ \A d \in Conns : d # c => core'[d] = core[d]
  <2>1. core \in [Conns -> CoreType] /\ core[c] \in CoreType
    BY ConnTypes
  <2>2. [core[c] EXCEPT !.at = "blocked"] \in CoreType
    BY <2>1 DEF CoreType
  <2>3. CASE es[c].waiting
    <3>1. core' = [core EXCEPT ![c].at = "blocked"]
      BY <2>3 DEF ReleaseFound
    <3> QED
      BY <2>1, <2>2, <2>3, <3>1 DEF CoreType
  <2>4. CASE ~es[c].waiting
    BY <1>2, <2>1, <2>4 DEF ReleaseFound
  <2> QED
    BY <2>3, <2>4
<1>7. ConnOK(c)'
  <2>1. WorkerOK(c)'
    BY <1>4, <1>6, RolesAssumption DEF WorkerOK, Begun, StepOf, PlaceOf, Calling
  <2>2. ~Holds(c)'
    BY <1>2, <1>3 DEF Holds
  <2>3. ReservedOK(c)'
    BY <1>2, <1>3, <1>4, <1>6, <2>2, CallFacts DEF ReservedOK, Begun, Used, Bit
  <2>4. WaitingOK(c)'
    BY <1>2, <1>3, <1>4, <1>6, <2>2, CallFacts DEF WaitingOK
  <2> QED
    BY <2>1, <2>3, <2>4 DEF ConnOK
<1>8. \A h \in Handles : Holding(es'[c], worker'[c], releaser'[c], h)
                           = Holding(es[c], worker[c], releaser[c], h) - Bit(h = worker[c].found)
  BY <1>2, <1>3, <1>4, CallFacts DEF Holding, Bit, Begun
<1>9. \A h \in Handles :
         /\ refcount'[h] = refcount[h] + Holding(es'[c], worker'[c], releaser'[c], h)
                                       - Holding(es[c], worker[c], releaser[c], h)
         /\ refcount'[h] <= refcount[h]
  BY <1>5, <1>8, HoldingNat, ConnTypes DEF Bit
<1>10. Others(c) /\ Uncounted(c) /\ KeepsWaiting(c)
  BY <1>1, <1>3, <1>4, <1>6 DEF Others, Begun, Uncounted, KeepsWaiting, CountedPCs
<1>11. /\ worker' \in [Conns -> WorkerType] /\ releaser' \in [Conns -> ReleaserType]
       /\ es' \in [Conns -> EsType]
  BY <1>3, <1>4, ConnTypes DEF Begun
<1> QED
  BY <1>2, <1>3, <1>5, <1>6, <1>7, <1>9, <1>10, <1>11, HeldStep
-----------------------------------------------------------------------------
(***************************************************************************)
(* Closing a connection.                                                   *)
(***************************************************************************)

\* handle_disconnect begins: the connection is counted in its bucket, if it has one.
LEMMA DisconnectStep ==
  ASSUME IInv, NEW c \in Conns, HandleDisconnect(c),
         UNCHANGED <<engines, phase, state, cookie, killer, shutdown, leaked, tapIterator, releaser>>,
         shutdown.pc = "no", worker[c].pc \notin CountedPCs, KeepsWaiting(c),
         es' \in [Conns -> EsType], es'[c].peh = es[c].peh, es'[c].reserved = es[c].reserved,
         ~es'[c].waiting, \A d \in Conns : d # c => es'[d] = es[d],
         core' \in [Conns -> CoreType], core'[c].refcount = core[c].refcount,
         core'[c].at \in {"pending_close", "immediate_close"},
         Holds(c) => core'[c].at = "pending_close",
         \A d \in Conns : d # c => core'[d] = core[d],
         refcount' \in [Handles -> Int], signals' \subseteq Handles,
         \A g \in Handles : refcount'[g] = refcount[g] - Bit(g = worker[c].found) - Bit(g = worker[c].old)
  PROVE  IInv'
<1> DEFINE h == es[c].peh
<1>1. h \in HandleOrNone /\ (h = None \/ Used(h)) /\ ReservedOK(c) /\ None \notin Handles
  BY CallFacts DEF EsType, ReservedOK
<1>2. PICK pc \in {"free_es", "entered"} :
        /\ Begun(c, "disconnect", pc, h)
        /\ (pc = "entered") <=> (h # None)
  <2>1. PICK pc \in {"free_es", "entered"} :
          /\ worker' = [worker EXCEPT ![c] = [Idle EXCEPT !.op = "disconnect", !.pc = pc, !.peh = h]]
          /\ (pc = "entered") <=> (h # None)
    <3>1. CASE h = None
      BY <3>1, Zenon DEF HandleDisconnect
    <3>2. CASE h # None
      BY <3>2, Zenon DEF HandleDisconnect
    <3> QED
      BY <3>1, <3>2
  <2>2. pc \in PCs /\ "disconnect" \in Ops
    BY DEF PCs, Ops
  <2> HIDE DEF h
  <2> QED
    BY <1>1, <2>1, <2>2, Begins, ConnTypes
<1>3. /\ clients' \in [Handles -> Int]
      /\ \A g \in Handles : clients'[g] = clients[g] + Bit(g = h)
  <2>1. CASE h = None
    BY <1>1, <2>1, ConnTypes DEF HandleDisconnect, Bit
  <2>2. CASE h # None
    <3>1. h \in Handles /\ clients' = [clients EXCEPT ![h] = @ + 1]
      BY <1>1, <2>2 DEF HandleDisconnect, HandleOrNone
    <3> QED
      BY <3>1, CallCounted
  <2> QED
    BY <2>1, <2>2
<1>4. ConnOK(c)'
  <2>1. WorkerOK(c)'
    BY <1>1, <1>2 DEF WorkerOK, Begun, StepOf, PlaceOf, Calling, Used
  <2>2. Holds(c)' <=> Holds(c)
    BY DEF Holds
  <2>3. ReservedOK(c)'
    BY <1>1, <1>2, <2>2 DEF ReservedOK, Begun, Used, Bit
  <2>4. WaitingOK(c)'
    BY DEF WaitingOK
  <2> QED
    BY <2>1, <2>3, <2>4 DEF ConnOK
<1>5. \A g \in Handles : Holding(es'[c], worker'[c], releaser'[c], g)
        = Holding(es[c], worker[c], releaser[c], g) - Bit(g = worker[c].found) - Bit(g = worker[c].old)
  BY <1>1, <1>2 DEF Holding, Bit, Begun
<1> HIDE DEF h
<1>6. \A g \in Handles : /\ c \notin Counted(g)
                         /\ (c \in Counted(g)') <=> g = h
  BY <1>1, <1>2 DEF Counted, Begun, CountedPCs
<1>7. \A g \in Handles :
        /\ refcount'[g] = refcount[g] + Holding(es'[c], worker'[c], releaser'[c], g)
                                      - Holding(es[c], worker[c], releaser[c], g)
        /\ refcount'[g] <= refcount[g]
        /\ clients'[g] = clients[g] + Bit(c \in Counted(g)') - Bit(c \in Counted(g))
                                    + leaked'[g] - leaked[g]
  <2>1. \A g \in Handles : clients'[g] = clients[g] + Bit(c \in Counted(g)') - Bit(c \in Counted(g))
    BY <1>3, <1>6, ConnTypes DEF Bit
  <2>2. \A g \in Handles : refcount[g] \in Nat /\ leaked[g] \in Nat /\ clients[g] \in Nat
    BY ConnTypes
  <2>3. \A g \in Handles :
          /\ refcount'[g] = refcount[g] + Holding(es'[c], worker'[c], releaser'[c], g)
                                        - Holding(es[c], worker[c], releaser[c], g)
          /\ refcount'[g] <= refcount[g]
    BY <1>5, <2>2, HoldingNat DEF Bit
  <2> QED
    BY <2>1, <2>2, <2>3 DEF Bit
<1>8. Others(c) /\ StepsQuietly(c)
  BY <1>2 DEF Others, Begun, StepsQuietly, Inner
<1>9. /\ worker' \in [Conns -> WorkerType] /\ releaser' \in [Conns -> ReleaserType]
      /\ leaked' \in [Handles -> Nat] /\ tapIterator' \in [Handles -> BOOLEAN]
  BY <1>2, ConnTypes DEF Begun
<1> QED
  BY <1>3, <1>4, <1>7, <1>8, <1>9, ConnStep

\* conn_closing keeps a connection that the engine refers to.
LEMMA ClosingFacts ==
  ASSUME IInv, NEW c \in Conns, core' = Closing(c)
  PROVE  /\ core' \in [Conns -> CoreType] /\ core'[c].refcount = core[c].refcount
         /\ core'[c].at \in {"pending_close", "immediate_close"}
         /\ Holds(c) => core'[c].at = "pending_close"
         /\ core'[c].pending = core[c].pending
         /\ \A d \in Conns : d # c => core'[d] = core[d]
<1>1. core \in [Conns -> CoreType] /\ core[c] \in CoreType
  BY ConnTypes
<1>2. PICK at \in {"pending_close", "immediate_close"} :
        core' = [core EXCEPT ![c].at = at] /\ (core[c].refcount > 1 => at = "pending_close")
  <2>1. CASE core[c].refcount > 1
    BY <2>1, Zenon DEF Closing
  <2>2. CASE ~(core[c].refcount > 1)
    BY <2>2, Zenon DEF Closing
  <2> QED
    BY <2>1, <2>2
<1>3. [core[c] EXCEPT !.at = at] \in CoreType
  BY <1>1, <1>2 DEF CoreType
<1>4. Holds(c) => core[c].refcount > 1
  BY CallFacts DEF ReservedOK, Bit
<1> QED
  BY <1>1, <1>2, <1>3, <1>4 DEF CoreType

\* The client hangs up.
LEMMA HangUpOK ==
  ASSUME IInv, NEW c \in Conns, HangUp(c)
  PROVE  IInv'
<1>1. worker[c].pc = "idle" /\ shutdown.pc = "no" /\ core[c].at \in {"idle", "tap"}
  BY DEF HangUp, WorkerReady, At
<1>2. worker[c].op = "none" /\ worker[c].found = None /\ worker[c].old = None
  BY <1>1, CallFacts DEF WorkerOK, StepOf
<1>3. ~es[c].waiting
  BY <1>1, <1>2, CallFacts DEF WaitingOK
<1>4. /\ UNCHANGED <<engines, phase, state, cookie, killer, shutdown, leaked, tapIterator, releaser,
                     es, refcount, signals>>
      /\ HandleDisconnect(c) /\ core' = Closing(c)
  BY DEF HangUp
<1>5. /\ es' \in [Conns -> EsType] /\ refcount' \in [Handles -> Int] /\ signals' \subseteq Handles
      /\ worker[c].pc \notin CountedPCs /\ KeepsWaiting(c)
  BY <1>1, <1>3, <1>4, ConnTypes DEF CountedPCs, KeepsWaiting
<1>6. \A g \in Handles : refcount'[g] = refcount[g] - Bit(g = worker[c].found) - Bit(g = worker[c].old)
  BY <1>2, <1>4, ConnTypes, CallFacts DEF Bit
<1> QED
  BY <1>1, <1>3, <1>4, <1>5, <1>6, ClosingFacts, DisconnectStep

\* The call returns to memcached.
LEMMA ReturnedOK ==
  ASSUME IInv, NEW c \in Conns, Returned(c)
  PROVE  IInv'
<1>1. /\ worker[c].pc = "returned" /\ shutdown.pc = "no" /\ worker[c].old = None
      /\ worker[c].op \in {"delete", "call", "tap", "ship_log", "disconnect"}
  BY CallFacts DEF Returned, At, WorkerOK, StepOf
<1>2. UNCHANGED <<engines, phase, state, refcount, cookie, tapIterator, es, releaser, killer,
                  signals, shutdown, leaked>>
  BY DEF Returned
<1>3. CASE worker[c].op \in {"delete", "disconnect"}
  <2>1. PICK pc \in {"set", "release_found", "free_es"} :
          /\ Goto(c, pc) /\ UNCHANGED <<clients, core>>
          /\ (pc = "free_es") <=> (worker[c].op = "disconnect")
    <3>1. CASE worker[c].op = "delete"
      BY <3>1, Zenon DEF Returned
    <3>2. CASE worker[c].op = "disconnect"
      BY <3>2, Zenon DEF Returned
    <3> QED
      BY <1>3, <3>1, <3>2
  <2>2. /\ Edited(c, pc) /\ worker'[c].ok = worker[c].ok /\ worker'[c].peh = worker[c].peh
        /\ worker'[c].found = worker[c].found /\ worker'[c].old = worker[c].old
    <3>1. worker' = [worker EXCEPT ![c].pc = pc] /\ pc \in PCs /\ worker \in [Conns -> WorkerType]
      BY <2>1, ConnTypes DEF Goto, PCs
    <3> QED
      BY <3>1, EditPc
  <2>3. SameCall(c) /\ worker'[c].pc = pc
    BY <2>2 DEF SameCall, Edited
  <2>4. StepOf(worker[c].op, worker'[c].pc)
    BY <1>3, <2>1, <2>3 DEF StepOf
  <2>5. \A h \in Handles : c \notin Counted(h) /\ c \notin Counted(h)'
    BY <1>1, <2>1, <2>3 DEF Counted
  <2>6. \A h \in Handles : clients'[h] = clients[h] + Bit(c \in Counted(h)') - Bit(c \in Counted(h))
                                          + leaked'[h] - leaked[h]
    BY <1>2, <2>1, <2>5, ConnTypes DEF Bit
  <2>7. StepsQuietly(c) /\ ~Reserving(c)
    BY <1>3, <2>1, <2>3 DEF StepsQuietly, Inner, Reserving
  <2>8. clients' \in [Handles -> Int] /\ leaked' \in [Handles -> Nat] /\ tapIterator' \in [Handles -> BOOLEAN]
    BY <1>2, <2>1, ConnTypes
  <2> QED
    BY <1>1, <1>2, <2>1, <2>3, <2>4, <2>6, <2>7, <2>8, CallStep DEF Calling
<1>4. CASE worker[c].op \in {"call", "tap", "ship_log"}
  <2>1. worker[c].found = None /\ core[c].at \in {"idle", "tap"}
    BY <1>1, <1>4, CallFacts DEF WorkerOK, PlaceOf
  <2>2. ~es[c].waiting
    BY <1>4, <2>1, CallFacts DEF WaitingOK
  <2>3. CASE worker[c].ok
    <3>1. PICK at \in {"idle", "tap"} :
            /\ worker' = [worker EXCEPT ![c] = Idle]
            /\ core' = [core EXCEPT ![c].at = at]
            /\ clients' = clients
            /\ (at = "idle") <=> (worker[c].op = "call")
      <4>1. CASE worker[c].op = "call"
        BY <2>3, <4>1, Zenon DEF Returned
      <4>2. CASE worker[c].op # "call"
        <5>1. worker[c].op # "delete" /\ worker[c].op # "disconnect"
          BY <1>4
        <5> QED
          BY <2>3, <4>2, <5>1, Zenon DEF Returned
      <4> QED
        BY <4>1, <4>2
    <3>2. Begun(c, "none", "idle", None)
      <4>1. None \in HandleOrNone /\ "none" \in Ops /\ "idle" \in PCs
        BY DEF HandleOrNone, Ops, PCs
      <4> QED
        BY <3>1, <4>1, Begins, ConnTypes
    <3>3. /\ core' \in [Conns -> CoreType] /\ core'[c].refcount = core[c].refcount
          /\ core'[c].pending = core[c].pending /\ core'[c].at = at
          /\ \A d \in Conns : d # c => core'[d] = core[d]
      <4>1. core \in [Conns -> CoreType] /\ core[c] \in CoreType
        BY ConnTypes
      <4>2. [core[c] EXCEPT !.at = at] \in CoreType
        BY <4>1 DEF CoreType
      <4> QED
        BY <3>1, <4>1, <4>2 DEF CoreType
    <3>4. ConnOK(c)'
      <4>1. WorkerOK(c)'
        BY <3>2, <3>3, RolesAssumption DEF WorkerOK, Begun, StepOf, PlaceOf, Calling
      <4>2. Holds(c) => core'[c].at = "tap"
        BY <1>4, <2>1, <3>1, <3>3, CallFacts DEF ReservedOK, Reserving, WorkerOK, PlaceOf
      <4>3. ReservedOK(c)'
        BY <1>2, <3>2, <3>3, <4>2, CallFacts DEF ReservedOK, Begun, Used, Holds
      <4>4. WaitingOK(c)'
        BY <1>2, <1>4, <2>2, <3>1, <3>3, CallFacts DEF WaitingOK, WorkerOK, PlaceOf
      <4> QED
        BY <4>1, <4>3, <4>4 DEF ConnOK
    <3>5. \A h \in Handles : Holding(es'[c], worker'[c], releaser'[c], h)
                               = Holding(es[c], worker[c], releaser[c], h)
      BY <1>1, <1>2, <2>1, <3>2 DEF Holding, Begun
    <3>6. \A h \in Handles :
             /\ refcount'[h] = refcount[h] + Holding(es'[c], worker'[c], releaser'[c], h)
                                           - Holding(es[c], worker[c], releaser[c], h)
             /\ refcount'[h] <= refcount[h]
      BY <1>2, <3>5, HoldingNat, ConnTypes
    <3>7. Others(c) /\ Uncounted(c) /\ KeepsWaiting(c)
      BY <1>1, <1>2, <3>2, <3>3 DEF Others, Begun, Uncounted, KeepsWaiting, CountedPCs
    <3>8. /\ worker' \in [Conns -> WorkerType] /\ releaser' \in [Conns -> ReleaserType]
          /\ es' \in [Conns -> EsType] /\ refcount' \in [Handles -> Int] /\ signals' \subseteq Handles
      BY <1>2, <3>2, ConnTypes DEF Begun
    <3> QED
      BY <1>1, <1>2, <3>1, <3>3, <3>4, <3>6, <3>7, <3>8, HeldStep
  <2>4. CASE ~worker[c].ok
    <3>1. core' = Closing(c) /\ HandleDisconnect(c)
      <4>1. worker[c].op # "delete" /\ worker[c].op # "disconnect"
        BY <1>4
      <4> QED
        BY <2>4, <4>1, Zenon DEF Returned
    <3>2. /\ es' \in [Conns -> EsType] /\ refcount' \in [Handles -> Int] /\ signals' \subseteq Handles
          /\ worker[c].pc \notin CountedPCs /\ KeepsWaiting(c)
      BY <1>1, <1>2, <2>2, ConnTypes DEF CountedPCs, KeepsWaiting
    <3>3. \A g \in Handles : refcount'[g] = refcount[g] - Bit(g = worker[c].found) - Bit(g = worker[c].old)
      BY <1>1, <1>2, <2>1, ConnTypes, CallFacts DEF Bit
    <3> QED
      BY <1>1, <1>2, <2>2, <3>1, <3>2, <3>3, ClosingFacts, DisconnectStep
  <2> QED
    BY <2>3, <2>4
<1> QED
  BY <1>1, <1>3, <1>4

\* The rest of handle_disconnect: the section goes unless the engine holds a reservation.
LEMMA FreeESOK ==
  ASSUME IInv, NEW c \in Conns, FreeES(c)
  PROVE  IInv'
<1>1. /\ worker[c].pc = "free_es" /\ worker[c].op = "disconnect" /\ shutdown.pc = "no"
      /\ worker[c].found = None /\ worker[c].old = None
      /\ core[c].at \in {"pending_close", "immediate_close"}
  BY CallFacts DEF FreeES, At, WorkerOK, StepOf, PlaceOf
<1>2. ~es[c].waiting
  BY <1>1, CallFacts DEF WaitingOK
<1>3. UNCHANGED <<engines, phase, state, cookie, killer, shutdown, clients, leaked, tapIterator,
                  refcount, releaser, signals, core>>
  BY DEF FreeES, handleVars
<1>4. PICK old \in HandleOrNone :
        /\ worker' = [worker EXCEPT ![c].pc = "close", ![c].old = old]
        /\ \/ es' = [es EXCEPT ![c] = NoES] /\ es[c].reserved = 0 /\ old = es[c].peh
           \/ es' = es /\ old = None
  <2>1. es[c].peh \in HandleOrNone /\ None \in HandleOrNone
    BY CallFacts DEF EsType, HandleOrNone
  <2>2. CASE es[c].connected /\ es[c].reserved = 0
    BY <2>1, <2>2, Zenon DEF FreeES
  <2>3. CASE ~(es[c].connected /\ es[c].reserved = 0)
    BY <2>1, <2>3, Zenon DEF FreeES
  <2> QED
    BY <2>2, <2>3
<1>5. /\ Edited(c, "close") /\ worker'[c].old = old /\ worker'[c].found = None
      /\ worker'[c].ok = worker[c].ok /\ worker'[c].peh = worker[c].peh
  <2>1. "close" \in PCs /\ worker \in [Conns -> WorkerType]
        /\ worker' = [worker EXCEPT ![c].pc = "close", ![c].old = old]
    BY <1>4, ConnTypes DEF PCs
  <2>2. /\ Edited(c, "close") /\ worker'[c].old = old /\ worker'[c].found = worker[c].found
        /\ worker'[c].ok = worker[c].ok /\ worker'[c].peh = worker[c].peh
    BY <2>1, EditPcOld, ZenonT(60)
  <2> QED
    BY <1>1, <2>2
<1>6. /\ es' \in [Conns -> EsType] /\ ~es'[c].waiting /\ es'[c].reserved = es[c].reserved
      /\ \/ es'[c].peh = None /\ es[c].reserved = 0 /\ old = es[c].peh
         \/ es'[c].peh = es[c].peh /\ old = None
      /\ \A d \in Conns : d # c => es'[d] = es[d]
  <2>1. es \in [Conns -> EsType]
    BY ConnTypes
  <2>2. NoES \in EsType /\ NoES.reserved = 0 /\ NoES.peh = None /\ ~NoES.waiting
    BY DEF NoES, EsType, HandleOrNone
  <2> HIDE DEF NoES
  <2> QED
    BY <1>2, <1>4, <2>1, <2>2
<1>7. ConnOK(c)'
  <2>1. WorkerOK(c)'
    <3>1. old = None \/ Used(old)
      BY <1>6, CallFacts DEF ReservedOK
    <3> QED
      BY <1>1, <1>3, <1>5, <3>1 DEF WorkerOK, Edited, StepOf, PlaceOf, Calling, Used
  <2>2. Holds(c)' <=> Holds(c)
    BY <1>3, <1>6 DEF Holds
  <2>3. Holds(c) => core[c].at \in {"tap", "pending_close"}
    BY <1>1, CallFacts DEF ReservedOK, Reserving
  <2>4. ReservedOK(c)'
    BY <1>1, <1>3, <1>5, <1>6, <2>2, <2>3, CallFacts DEF ReservedOK, Edited, Used, Bit
  <2>5. WaitingOK(c)'
    BY <1>1, <1>3, <1>6 DEF WaitingOK
  <2> QED
    BY <2>1, <2>4, <2>5 DEF ConnOK
<1>8. \A h \in Handles : Holding(es'[c], worker'[c], releaser'[c], h)
                           = Holding(es[c], worker[c], releaser[c], h)
  BY <1>1, <1>3, <1>5, <1>6, CallFacts DEF Holding, Bit
<1>9. \A h \in Handles :
         /\ refcount'[h] = refcount[h] + Holding(es'[c], worker'[c], releaser'[c], h)
                                       - Holding(es[c], worker[c], releaser[c], h)
         /\ refcount'[h] <= refcount[h]
  BY <1>3, <1>8, HoldingNat, ConnTypes
<1>10. Others(c) /\ Uncounted(c) /\ KeepsWaiting(c)
  BY <1>1, <1>2, <1>3, <1>5, <1>6 DEF Others, Edited, Uncounted, KeepsWaiting, CountedPCs
<1>11. /\ worker' \in [Conns -> WorkerType] /\ releaser' \in [Conns -> ReleaserType]
       /\ core' \in [Conns -> CoreType] /\ refcount' \in [Handles -> Int] /\ signals' \subseteq Handles
  BY <1>3, <1>5, ConnTypes DEF Edited
<1> QED
  BY <1>1, <1>3, <1>6, <1>7, <1>9, <1>10, <1>11, HeldStep

\* memcached closes a connection.
LEMMA CloseConnectionOK ==
  ASSUME IInv, NEW c \in Conns, CloseConnection(c)
  PROVE  IInv'
<1>1. /\ worker[c].pc = "close" /\ worker[c].op = "disconnect" /\ shutdown.pc = "no"
      /\ worker[c].found = None /\ core[c].at \in {"pending_close", "immediate_close"}
  BY CallFacts DEF CloseConnection, At, WorkerOK, StepOf, PlaceOf
<1>2. ~es[c].waiting
  BY <1>1, CallFacts DEF WaitingOK
<1>3. UNCHANGED <<engines, phase, state, cookie, tapIterator, es, releaser, killer, shutdown, leaked>>
  BY DEF CloseConnection
<1>4. /\ refcount' \in [Handles -> Int] /\ signals' \subseteq Handles
      /\ \A g \in Handles : refcount'[g] = refcount[g] - Bit(g = worker[c].old)
  <2> DEFINE h == worker[c].old
  <2>1. h \in HandleOrNone /\ Release(h)
    BY CallFacts DEF WorkerType, CloseConnection
  <2> HIDE DEF h
  <2>2. /\ refcount' \in [Handles -> Int] /\ signals' \subseteq Handles
        /\ \A g \in Handles : refcount'[g] = refcount[g] - Bit(g = h)
    BY <2>1, RefReleased
  <2> QED
    BY <2>2 DEF h
<1>5. /\ Holds(c) => core[c].refcount > 1 /\ core[c].at = "pending_close"
      /\ core \in [Conns -> CoreType] /\ core[c] \in CoreType /\ es' \in [Conns -> EsType]
  BY <1>1, <1>3, CallFacts, ConnTypes DEF ReservedOK, Reserving, Bit
<1>6. ASSUME worker' = [worker EXCEPT ![c] = Idle], UNCHANGED clients,
             \/ core' = [core EXCEPT ![c] = Closed] /\ core[c].at = "immediate_close"
             \/ core' = core /\ core[c].at = "pending_close"
      PROVE  IInv'
  <2>1. Begun(c, "none", "idle", None)
    <3>1. None \in HandleOrNone /\ "none" \in Ops /\ "idle" \in PCs
      BY DEF HandleOrNone, Ops, PCs
    <3> QED
      BY <1>6, <3>1, Begins, ConnTypes
  <2>2. /\ core' \in [Conns -> CoreType] /\ \A d \in Conns : d # c => core'[d] = core[d]
        /\ core'[c].at \in {"closed", "pending_close"}
        /\ core'[c].refcount = 1 + Bit(Holds(c))
        /\ core'[c].at = "closed" => ~core'[c].pending
        /\ Holds(c) => core'[c].at = "pending_close"
    <3>1. Closed \in CoreType /\ Closed.at = "closed" /\ Closed.refcount = 1
          /\ ~Closed.pending
      BY DEF Closed, CoreType
    <3>2. core[c].refcount = 1 + Bit(Holds(c))
      BY CallFacts DEF ReservedOK
    <3> HIDE DEF Closed
    <3> QED
      BY <1>5, <1>6, <3>1, <3>2 DEF Bit
  <2>3. ConnOK(c)'
    <3>1. WorkerOK(c)'
      BY <2>1, <2>2, RolesAssumption DEF WorkerOK, Begun, StepOf, PlaceOf, Calling
    <3>2. ReservedOK(c)'
      BY <1>3, <2>1, <2>2, CallFacts DEF ReservedOK, Begun, Used, Holds
    <3>3. WaitingOK(c)'
      BY <1>2, <1>3, <2>2 DEF WaitingOK
    <3> QED
      BY <3>1, <3>2, <3>3 DEF ConnOK
  <2>4. \A h \in Handles : Holding(es'[c], worker'[c], releaser'[c], h)
                             = Holding(es[c], worker[c], releaser[c], h) - Bit(h = worker[c].old)
    BY <1>1, <1>3, <2>1, CallFacts DEF Holding, Bit, Begun
  <2>5. \A h \in Handles :
           /\ refcount'[h] = refcount[h] + Holding(es'[c], worker'[c], releaser'[c], h)
                                         - Holding(es[c], worker[c], releaser[c], h)
           /\ refcount'[h] <= refcount[h]
    BY <1>4, <2>4, HoldingNat, ConnTypes DEF Bit
  <2>6. Others(c) /\ Uncounted(c) /\ KeepsWaiting(c)
    BY <1>1, <1>2, <1>3, <2>1, <2>2 DEF Others, Begun, Uncounted, KeepsWaiting, CountedPCs
  <2>7. worker' \in [Conns -> WorkerType] /\ releaser' \in [Conns -> ReleaserType]
    BY <1>3, <2>1, ConnTypes DEF Begun
  <2> QED
    BY <1>1, <1>3, <1>4, <1>5, <1>6, <2>2, <2>3, <2>5, <2>6, <2>7, HeldStep
<1>7. CASE core[c].at = "immediate_close"
  <2>1. /\ core' = [core EXCEPT ![c] = Closed]
        /\ worker' = [worker EXCEPT ![c] = Idle] /\ UNCHANGED clients
    <3>1. ~(core[c].refcount > 1)
      BY <1>5, <1>7, CallFacts DEF ReservedOK, Bit
    <3> QED
      BY <1>7, <3>1, Zenon DEF CloseConnection
  <2> QED
    BY <1>6, <1>7, <2>1
<1>8. CASE core[c].at # "immediate_close" /\ core[c].refcount > 1
  <2>1. worker' = [worker EXCEPT ![c] = Idle] /\ UNCHANGED <<clients, core>>
    BY <1>8, Zenon DEF CloseConnection
  <2> QED
    BY <1>1, <1>6, <1>8, <2>1
<1>9. CASE core[c].at # "immediate_close" /\ ~(core[c].refcount > 1)
  <2>1. core' = [core EXCEPT ![c].at = "immediate_close"] /\ HandleDisconnect(c)
    BY <1>9, Zenon DEF CloseConnection
  <2>2. /\ core' \in [Conns -> CoreType] /\ core'[c].refcount = core[c].refcount
        /\ core'[c].at = "immediate_close" /\ core'[c].pending = core[c].pending
        /\ \A d \in Conns : d # c => core'[d] = core[d]
    <3>1. [core[c] EXCEPT !.at = "immediate_close"] \in CoreType
      BY <1>5 DEF CoreType
    <3> QED
      BY <1>5, <2>1, <3>1 DEF CoreType
  <2>3. KeepsWaiting(c) /\ worker[c].pc \notin CountedPCs /\ ~Holds(c)
    BY <1>1, <1>2, <1>5, <1>9 DEF KeepsWaiting, CountedPCs
  <2>4. \A g \in Handles : refcount'[g] = refcount[g] - Bit(g = worker[c].found) - Bit(g = worker[c].old)
    BY <1>1, <1>4, ConnTypes, CallFacts DEF Bit
  <2> QED
    BY <1>1, <1>2, <1>3, <1>4, <1>5, <2>1, <2>2, <2>3, <2>4, DisconnectStep
<1> QED
  BY <1>7, <1>8, <1>9

\* A connection of pending_io: it tries again to close, or the client has its answer.
LEMMA ServePendingOK ==
  ASSUME IInv, NEW c \in Conns, ServePending(c)
  PROVE  IInv'
<1>1. worker[c].pc = "idle" /\ shutdown.pc = "no" /\ core[c].pending
  BY DEF ServePending, WorkerReady, At
<1>2. worker[c].op = "none" /\ worker[c].found = None /\ worker[c].old = None
  BY <1>1, CallFacts DEF WorkerOK, StepOf
<1>3. UNCHANGED <<engines, phase, state, refcount, cookie, tapIterator, releaser, killer, signals,
                  shutdown, leaked>>
  BY DEF ServePending
<1>4. /\ es' \in [Conns -> EsType] /\ es'[c].peh = es[c].peh /\ ~es'[c].waiting
      /\ es'[c].reserved = es[c].reserved /\ \A d \in Conns : d # c => es'[d] = es[d]
  <2>1. es \in [Conns -> EsType] /\ es[c] \in EsType /\ es' = [es EXCEPT ![c].waiting = FALSE]
    BY ConnTypes DEF ServePending
  <2>2. [es[c] EXCEPT !.waiting = FALSE] \in EsType
    BY <2>1 DEF EsType
  <2> QED
    BY <2>1, <2>2 DEF EsType
<1>5. /\ core' \in [Conns -> CoreType] /\ core'[c].refcount = core[c].refcount /\ ~core'[c].pending
      /\ core'[c].at = IF core[c].at = "blocked" THEN "idle" ELSE core[c].at
      /\ \A d \in Conns : d # c => core'[d] = core[d]
  <2>1. core \in [Conns -> CoreType] /\ core[c] \in CoreType
    BY ConnTypes
  <2> DEFINE new == [core[c] EXCEPT !.pending = FALSE, !.at = IF @ = "blocked" THEN "idle" ELSE @]
  <2>2. core' = [core EXCEPT ![c] = new]
    BY <2>1 DEF ServePending, CoreType
  <2>3. /\ new \in CoreType /\ new.refcount = core[c].refcount /\ ~new.pending
        /\ new.at = IF core[c].at = "blocked" THEN "idle" ELSE core[c].at
    BY <2>1 DEF CoreType
  <2> HIDE DEF new
  <2> QED
    BY <2>1, <2>2, <2>3
<1>6. KeepsWaiting(c)
  BY <1>1 DEF KeepsWaiting
<1>7. /\ refcount' \in [Handles -> Int] /\ signals' \subseteq Handles
  BY <1>3, ConnTypes
<1>8. CASE core[c].at = "pending_close"
  <2>1. HandleDisconnect(c) /\ worker[c].pc \notin CountedPCs
    BY <1>1, <1>8 DEF ServePending, CountedPCs
  <2>2. \A g \in Handles : refcount'[g] = refcount[g] - Bit(g = worker[c].found) - Bit(g = worker[c].old)
    BY <1>2, <1>3, ConnTypes, CallFacts DEF Bit
  <2> QED
    BY <1>1, <1>3, <1>4, <1>5, <1>6, <1>7, <1>8, <2>1, <2>2, DisconnectStep
<1>9. CASE core[c].at # "pending_close"
  <2>1. UNCHANGED <<clients, worker>>
    BY <1>9 DEF ServePending
  <2>2. ConnOK(c)'
    <3>1. WorkerOK(c)'
      BY <1>1, <1>2, <1>3, <1>5, <1>9, <2>1, CallFacts DEF WorkerOK, StepOf, PlaceOf, Calling, Used
    <3>2. Holds(c)' <=> Holds(c)
      BY <1>3, <1>4 DEF Holds
    <3>3. Holds(c) => core'[c].at = "tap"
      BY <1>2, <1>5, <1>9, CallFacts DEF ReservedOK, Reserving
    <3>4. ReservedOK(c)'
      BY <1>2, <1>3, <1>4, <1>5, <2>1, <3>2, <3>3, CallFacts DEF ReservedOK, Used, Bit
    <3>5. WaitingOK(c)'
      BY <1>4, <1>5, CallFacts DEF WaitingOK, WorkerOK
    <3> QED
      BY <3>1, <3>4, <3>5 DEF ConnOK
  <2>3. \A h \in Handles : Holding(es'[c], worker'[c], releaser'[c], h)
                             = Holding(es[c], worker[c], releaser[c], h)
    BY <1>3, <1>4, <2>1 DEF Holding
  <2>4. \A h \in Handles :
           /\ refcount'[h] = refcount[h] + Holding(es'[c], worker'[c], releaser'[c], h)
                                         - Holding(es[c], worker[c], releaser[c], h)
           /\ refcount'[h] <= refcount[h]
    BY <1>3, <2>3, HoldingNat, ConnTypes
  <2>5. Others(c) /\ Uncounted(c)
    BY <1>3, <1>4, <1>5, <2>1 DEF Others, Uncounted
  <2>6. worker' \in [Conns -> WorkerType] /\ releaser' \in [Conns -> ReleaserType]
    BY <1>3, <2>1, ConnTypes
  <2> QED
    BY <1>1, <1>3, <1>4, <1>5, <1>6, <1>7, <2>1, <2>2, <2>4, <2>5, <2>6, HeldStep
<1> QED
  BY <1>8, <1>9
-----------------------------------------------------------------------------
(***************************************************************************)
(* bucket_engine_release_cookie.                                           *)
(***************************************************************************)

\* The releasing thread changes what its connection's reservation holds, whatever the
\* worker thread does meanwhile.
LEMMA ReleasingFacts ==
  ASSUME IInv, NEW c \in Conns, Holds(c)
  PROVE  /\ es[c].reserved \in 0..1 /\ (es[c].reserved = 0 \/ releaser[c].pc = "none")
         /\ es[c].reserved > 0 => es[c].peh # None
         /\ core[c].refcount = 2 /\ ~es[c].waiting
         /\ worker[c].pc = "idle" => core[c].at \in {"tap", "pending_close"}
         /\ shutdown.pc = "no" \/ worker[c].pc = "idle"
  BY CallFacts DEF ReservedOK, WaitingOK, WorkerOK, StepOf, Reserving, Bit

\* The release of a reserved cookie, first half,
LEMMA DropReservationOK ==
  ASSUME IInv, NEW c \in Conns, DropReservation(c)
  PROVE  IInv'
<1>1. es[c].reserved > 0 /\ releaser[c].pc = "none" /\ Holds(c)
  BY DEF DropReservation, Holds
<1>2. es[c].reserved = 1 /\ es[c].peh \in Handles /\ Used(es[c].peh) /\ releaser[c].peh = None
  BY <1>1, CallFacts, ReleasingFacts DEF ReservedOK, Used
<1>3. UNCHANGED <<engines, phase, state, cookie, killer, shutdown, clients, leaked, tapIterator,
                  refcount, signals, core, worker>>
  BY DEF DropReservation, handleVars
<1>4. /\ es' \in [Conns -> EsType] /\ es'[c].peh = es[c].peh /\ es'[c].waiting = es[c].waiting
      /\ es'[c].reserved = 0 /\ \A d \in Conns : d # c => es'[d] = es[d]
  <2>1. es \in [Conns -> EsType] /\ es[c] \in EsType
        /\ es' = [es EXCEPT ![c].reserved = @ - 1, ![c].producer = FALSE]
    BY ConnTypes DEF DropReservation
  <2>2. [es[c] EXCEPT !.reserved = @ - 1, !.producer = FALSE] \in EsType
    <3>1. es[c].reserved - 1 \in Nat
      BY <1>2
    <3> QED
      BY <2>1, <3>1, EsReserves
  <2> QED
    BY <1>2, <2>1, <2>2 DEF EsType
<1>5. /\ releaser' \in [Conns -> ReleaserType] /\ releaser'[c].pc = "decremented"
      /\ releaser'[c].peh = es[c].peh /\ \A d \in Conns : d # c => releaser'[d] = releaser[d]
  <2>1. releaser' = [releaser EXCEPT ![c] = [pc |-> "decremented", peh |-> es[c].peh]]
    BY DEF DropReservation
  <2>2. [pc |-> "decremented", peh |-> es[c].peh] \in ReleaserType
    BY <1>2 DEF ReleaserType, HandleOrNone
  <2> QED
    BY <2>1, <2>2, ConnTypes
<1>6. ConnOK(c)'
  <2>1. WorkerOK(c)'
    BY <1>3, CallFacts DEF WorkerOK, Used
  <2>2. Holds(c)'
    BY <1>5 DEF Holds
  <2>3. ReservedOK(c)'
    BY <1>1, <1>2, <1>3, <1>4, <1>5, <2>2, CallFacts DEF ReservedOK, Reserving, Used, Bit
  <2>4. WaitingOK(c)'
    BY <1>1, <1>3, <1>4, CallFacts, ReleasingFacts DEF WaitingOK
  <2> QED
    BY <2>1, <2>3, <2>4 DEF ConnOK
<1>7. \A h \in Handles : Holding(es'[c], worker'[c], releaser'[c], h)
                           = Holding(es[c], worker[c], releaser[c], h)
  BY <1>2, <1>3, <1>4, <1>5, CallFacts DEF Holding, Bit
<1>8. \A h \in Handles :
         /\ refcount'[h] = refcount[h] + Holding(es'[c], worker'[c], releaser'[c], h)
                                       - Holding(es[c], worker[c], releaser[c], h)
         /\ refcount'[h] <= refcount[h]
  BY <1>3, <1>7, HoldingNat, ConnTypes
<1>9. Others(c) /\ Uncounted(c) /\ KeepsWaiting(c)
  BY <1>3, <1>4, <1>5 DEF Others, Uncounted, KeepsWaiting
<1>10. /\ worker' \in [Conns -> WorkerType] /\ core' \in [Conns -> CoreType]
       /\ refcount' \in [Handles -> Int] /\ signals' \subseteq Handles
       /\ shutdown.pc = "no" \/ worker'[c].pc = "idle"
  BY <1>1, <1>3, ConnTypes, ReleasingFacts
<1> QED
  BY <1>3, <1>4, <1>5, <1>6, <1>8, <1>9, <1>10, HeldStep

\* and second half.
LEMMA DropReferenceOK ==
  ASSUME IInv, NEW c \in Conns, DropReference(c)
  PROVE  IInv'
<1>1. releaser[c].pc = "decremented" /\ Holds(c)
  BY DEF DropReference, Holds
<1>2. es[c].reserved = 0
  BY <1>1, ReleasingFacts
<1>3. UNCHANGED <<engines, phase, state, cookie, killer, shutdown, clients, leaked, tapIterator,
                  es, core, worker>>
  BY DEF DropReference
<1>4. /\ refcount' \in [Handles -> Int] /\ signals' \subseteq Handles
      /\ \A g \in Handles : refcount'[g] = refcount[g] - Bit(g = releaser[c].peh)
  <2> DEFINE h == releaser[c].peh
  <2>1. h \in HandleOrNone /\ Release(h)
    BY CallFacts DEF ReleaserType, DropReference
  <2> HIDE DEF h
  <2>2. /\ refcount' \in [Handles -> Int] /\ signals' \subseteq Handles
        /\ \A g \in Handles : refcount'[g] = refcount[g] - Bit(g = h)
    BY <2>1, RefReleased
  <2> QED
    BY <2>2 DEF h
<1>5. /\ releaser' \in [Conns -> ReleaserType] /\ releaser'[c].pc = "released"
      /\ releaser'[c].peh = None /\ \A d \in Conns : d # c => releaser'[d] = releaser[d]
  <2>1. releaser' = [releaser EXCEPT ![c] = [pc |-> "released", peh |-> None]]
    BY DEF DropReference
  <2>2. [pc |-> "released", peh |-> None] \in ReleaserType
    BY DEF ReleaserType, HandleOrNone
  <2> QED
    BY <2>1, <2>2, ConnTypes
<1>6. ConnOK(c)'
  <2>1. WorkerOK(c)'
    BY <1>3, CallFacts DEF WorkerOK, Used
  <2>2. Holds(c)'
    BY <1>5 DEF Holds
  <2>3. ReservedOK(c)'
    BY <1>1, <1>2, <1>3, <1>5, <2>2, CallFacts DEF ReservedOK, Reserving, Used, Bit
  <2>4. WaitingOK(c)'
    BY <1>1, <1>3, CallFacts, ReleasingFacts DEF WaitingOK
  <2> QED
    BY <2>1, <2>3, <2>4 DEF ConnOK
<1>7. \A h \in Handles : Holding(es'[c], worker'[c], releaser'[c], h)
                           = Holding(es[c], worker[c], releaser[c], h) - Bit(h = releaser[c].peh)
  BY <1>3, <1>5, CallFacts DEF Holding, Bit
<1>8. \A h \in Handles :
         /\ refcount'[h] = refcount[h] + Holding(es'[c], worker'[c], releaser'[c], h)
                                       - Holding(es[c], worker[c], releaser[c], h)
         /\ refcount'[h] <= refcount[h]
  BY <1>4, <1>7, HoldingNat, ConnTypes DEF Bit
<1>9. Others(c) /\ Uncounted(c) /\ KeepsWaiting(c)
  BY <1>3, <1>5 DEF Others, Uncounted, KeepsWaiting
<1>10. /\ worker' \in [Conns -> WorkerType] /\ core' \in [Conns -> CoreType]
       /\ es' \in [Conns -> EsType]
       /\ shutdown.pc = "no" \/ worker'[c].pc = "idle"
  BY <1>1, <1>3, ConnTypes, ReleasingFacts
<1> QED
  BY <1>3, <1>4, <1>5, <1>6, <1>8, <1>9, <1>10, HeldStep

\* The reservation's reference was the engine's only one.
LEMMA DropConnectionOK ==
  ASSUME IInv, NEW c \in Conns, DropConnection(c)
  PROVE  IInv'
<1>1. releaser[c].pc = "released" /\ worker[c].pc = "idle" /\ Holds(c)
  BY DEF DropConnection, Holds, At
<1>2. es[c].reserved = 0 /\ releaser[c].peh = None /\ core[c].refcount = 2 /\ ~es[c].waiting
      /\ core[c].at \in {"tap", "pending_close"}
  BY <1>1, ReleasingFacts, CallFacts DEF ReservedOK
<1>3. UNCHANGED <<engines, phase, state, cookie, killer, shutdown, clients, leaked, tapIterator,
                  refcount, signals, es, worker>>
  BY DEF DropConnection, handleVars
<1>4. /\ core' \in [Conns -> CoreType] /\ core'[c].refcount = 1 /\ core'[c].at = core[c].at
      /\ \A d \in Conns : d # c => core'[d] = core[d]
  <2>1. core \in [Conns -> CoreType] /\ core[c] \in CoreType
    BY ConnTypes
  <2> DEFINE new == [core[c] EXCEPT !.refcount = @ - 1, !.pending = TRUE]
  <2>2. core' = [core EXCEPT ![c] = new]
    BY <2>1 DEF DropConnection, CoreType
  <2>3. new \in CoreType /\ new.refcount = 1 /\ new.at = core[c].at
    <3>1. new = [core[c] EXCEPT !.refcount = 1, !.pending = TRUE]
      <4>1. core[c].refcount - 1 = 1
        BY <1>2
      <4> QED
        BY <4>1, Zenon
    <3> HIDE DEF new
    <3> QED
      BY <2>1, <3>1 DEF CoreType
  <2> HIDE DEF new
  <2> QED
    BY <2>1, <2>2, <2>3
<1>5. /\ releaser' \in [Conns -> ReleaserType] /\ releaser'[c].pc = "none"
      /\ releaser'[c].peh = None /\ \A d \in Conns : d # c => releaser'[d] = releaser[d]
  <2>1. releaser' = [releaser EXCEPT ![c] = NoRelease]
    BY DEF DropConnection
  <2>2. NoRelease \in ReleaserType /\ NoRelease.pc = "none" /\ NoRelease.peh = None
    BY DEF NoRelease, ReleaserType, HandleOrNone
  <2> HIDE DEF NoRelease
  <2> QED
    BY <2>1, <2>2, ConnTypes
<1>6. ConnOK(c)'
  <2>1. WorkerOK(c)'
    BY <1>3, <1>4, CallFacts DEF WorkerOK, Used
  <2>2. ~Holds(c)'
    BY <1>2, <1>3, <1>5 DEF Holds
  <2>3. ReservedOK(c)'
    BY <1>1, <1>2, <1>3, <1>4, <1>5, <2>2, CallFacts DEF ReservedOK, Used, Bit
  <2>4. WaitingOK(c)'
    BY <1>2, <1>3, <1>4 DEF WaitingOK
  <2> QED
    BY <2>1, <2>3, <2>4 DEF ConnOK
<1>7. \A h \in Handles : Holding(es'[c], worker'[c], releaser'[c], h)
                           = Holding(es[c], worker[c], releaser[c], h)
  BY <1>2, <1>3, <1>5 DEF Holding
<1>8. \A h \in Handles :
         /\ refcount'[h] = refcount[h] + Holding(es'[c], worker'[c], releaser'[c], h)
                                       - Holding(es[c], worker[c], releaser[c], h)
         /\ refcount'[h] <= refcount[h]
  BY <1>3, <1>7, HoldingNat, ConnTypes
<1>9. Others(c) /\ Uncounted(c) /\ KeepsWaiting(c)
  BY <1>2, <1>3, <1>4, <1>5 DEF Others, Uncounted, KeepsWaiting
<1>10. /\ worker' \in [Conns -> WorkerType] /\ es' \in [Conns -> EsType]
       /\ refcount' \in [Handles -> Int] /\ signals' \subseteq Handles
       /\ shutdown.pc = "no" \/ worker'[c].pc = "idle"
  BY <1>1, <1>3, ConnTypes
<1> QED
  BY <1>3, <1>4, <1>5, <1>6, <1>8, <1>9, <1>10, HeldStep
-----------------------------------------------------------------------------
(***************************************************************************)
(* The life of a handle: created, stopped, shut down.                      *)
(***************************************************************************)

LEMMA HandleFacts ==
  ASSUME IInv, NEW h \in Handles
  PROVE  /\ HandleOK(h) /\ LifeOK(h)
         /\ cookie[h] \in Conns \cup {None} /\ None \notin Conns
         /\ engines \in [Names -> HandleOrNone]
         /\ killer \in [Handles -> {"none", "started", "destroy", "unlink", "notify", "check", "asleep",
                                    "free", "leave", "ended", "skipped"}]
         /\ shutdown \in [pc: {"no", "begin", "wait", "iterate", "done"}, inProgress: BOOLEAN, counter: Nat]
  BY RolesAssumption DEF IInv, HandleOK, TypeOK

\* Without a new reference, a call or a handle, the connections are as they were.
LEMMA SameConns ==
  ASSUME IInv, UNCHANGED <<es, core, worker, releaser>>,
         \A h \in Handles : phase[h] # "unused" => phase'[h] # "unused"
  PROVE  \A d \in Conns : ConnOK(d)'
  BY ConnFrame DEF IInv

\* Counts stay as long as nobody moves.
LEMMA SameCounts ==
  ASSUME IInv, UNCHANGED <<es, worker, releaser, clients, leaked>>
  PROVE  ClientsCounted' /\ \A h \in Handles : Held(h)' = Held(h)
<1>1. \A h \in Handles : Counted(h)' = Counted(h)
  BY DEF Counted
<1>2. \A h \in Handles : Held(h)' = Held(h)
  BY DEF Held, ConnRefs, ReservedRefs, TemporaryRefs, ReleaserRefs, Temporary
<1> QED
  BY <1>1, <1>2 DEF IInv, ClientsCounted

\* One client stops a running bucket, and waits for it.
LEMMA StopBucketOK ==
  ASSUME IInv, NEW c \in Conns, StopBucket(c)
  PROVE  IInv'
<1> DEFINE h == worker[c].peh
<1>1. /\ worker[c].pc = "stop" /\ worker[c].op = "delete" /\ h \in Handles /\ Used(h)
      /\ worker[c].old = None /\ core[c].at = "idle" /\ shutdown.pc = "no"
      /\ ~core[c].pending
  <2>1. worker[c].pc = "stop"
    BY DEF StopBucket, At
  <2>2. worker[c].op = "delete" /\ worker[c].old = None /\ h \in Handles /\ Used(h)
    BY <2>1, CallFacts DEF WorkerOK, StepOf, Calling, Used
  <2>3. core[c].at = "idle"
    BY <2>2, CallFacts DEF WorkerOK, PlaceOf
  <2>4. ~core[c].pending /\ shutdown.pc = "no"
    BY <2>1, <2>3, CallFacts DEF WaitingOK
  <2> QED
    BY <2>1, <2>2, <2>3, <2>4
<1>2. ~Holds(c) /\ ~es[c].waiting
  BY <1>1, Free, CallFacts DEF WaitingOK
<1>3. /\ SameCall(c) /\ worker'[c].pc = "leave" /\ worker'[c].ok = worker[c].ok
  <2>1. "leave" \in PCs /\ worker \in [Conns -> WorkerType] /\ worker' = [worker EXCEPT ![c].pc = "leave"]
    BY ConnTypes DEF PCs, StopBucket, Goto
  <2>2. /\ Edited(c, "leave") /\ worker'[c].ok = worker[c].ok /\ worker'[c].peh = worker[c].peh
        /\ worker'[c].found = worker[c].found /\ worker'[c].old = worker[c].old
    BY <2>1, EditPc
  <2> QED
    BY <2>2 DEF SameCall, Edited
<1>4. UNCHANGED <<engines, phase, refcount, clients, tapIterator, core, releaser, killer, signals,
                  shutdown, leaked>>
  BY DEF StopBucket
<1>5. \A g \in Handles : /\ Bit(c \in Counted(g)') = Bit(c \in Counted(g))
                         /\ Holding(es[c], worker'[c], releaser'[c], g) = Holding(es[c], worker[c], releaser[c], g)
  BY <1>1, <1>3, <1>4 DEF Counted, SameCall, Bit, Holding
<1>6. \A g \in Handles : clients'[g] = clients[g] + Bit(c \in Counted(g)') - Bit(c \in Counted(g))
                                       + leaked'[g] - leaked[g]
  BY <1>4, <1>5, ConnTypes DEF Bit
<1>7. CASE state[h] # "RUNNING"
  <2>1. UNCHANGED <<state, cookie, es>>
    BY <1>7 DEF StopBucket
  <2>2. StepOf(worker[c].op, worker'[c].pc) /\ StepsQuietly(c) /\ ~Reserving(c)
    BY <1>1, <1>3 DEF StepOf, StepsQuietly, Inner, Reserving
  <2>3. clients' \in [Handles -> Int] /\ leaked' \in [Handles -> Nat] /\ tapIterator' \in [Handles -> BOOLEAN]
    BY <1>4, ConnTypes
  <2> QED
    BY <1>1, <1>3, <1>4, <1>6, <2>1, <2>2, <2>3, CallStep DEF Calling
<1>8. CASE state[h] = "RUNNING"
  <2>1. /\ state' = [state EXCEPT ![h] = "STOPPING"] /\ cookie' = [cookie EXCEPT ![h] = c]
        /\ es' = [es EXCEPT ![c].waiting = TRUE]
    BY <1>8 DEF StopBucket
  <2> HIDE DEF h
  <2>2. /\ es' \in [Conns -> EsType] /\ es'[c].peh = es[c].peh /\ es'[c].waiting
        /\ es'[c].reserved = es[c].reserved /\ \A d \in Conns : d # c => es'[d] = es[d]
    <3>1. es \in [Conns -> EsType] /\ es[c] \in EsType
      BY ConnTypes
    <3>2. [es[c] EXCEPT !.waiting = TRUE] \in EsType
      BY <3>1 DEF EsType
    <3> QED
      BY <2>1, <3>1, <3>2 DEF EsType
  <2>3. Others(c)
    BY <1>3, <1>4, <2>2 DEF Others, SameCall
  <2>4. ConnOK(c)'
    <3>1. WorkerOK(c)'
      BY <1>1, <1>3, <1>4, CallFacts DEF WorkerOK, SameCall, StepOf, PlaceOf, Used, h
    <3>2. ~Holds(c)'
      BY <1>2, <1>4, <2>2 DEF Holds
    <3>3. ReservedOK(c)'
      BY <1>1, <1>2, <1>3, <1>4, <2>2, <3>2, CallFacts DEF ReservedOK, SameCall, Used, Bit
    <3>4. WaitingOK(c)'
      BY <1>1, <1>3, <1>4, <2>2, <3>2 DEF WaitingOK, SameCall
    <3> QED
      BY <3>1, <3>3, <3>4 DEF ConnOK
  <2>5. \A d \in Conns : ConnOK(d)'
    <3> SUFFICES ASSUME NEW d \in Conns, d # c PROVE ConnOK(d)'
      BY <2>4
    <3> QED
      BY <1>4, <2>3, ConnFrame DEF IInv, Others
  <2>6. ClientsCounted' /\ RefcountExact'
    <3>1. \A g \in Handles : refcount'[g] = refcount[g] + Holding(es'[c], worker'[c], releaser'[c], g)
                                      - Holding(es[c], worker[c], releaser[c], g)
      <4>1. \A g \in Handles : Holding(es'[c], worker'[c], releaser'[c], g) = Holding(es[c], worker[c], releaser[c], g)
        BY <1>1, <1>3, <1>4, <2>2 DEF Holding, SameCall
      <4> QED
        BY <1>4, <4>1, HoldingNat, ConnTypes
    <3>2. refcount' \in [Handles -> Int] /\ clients' \in [Handles -> Int] /\ leaked' \in [Handles -> Nat]
      BY <1>4, ConnTypes
    <3> QED
      BY <1>4, <1>6, <2>3, <2>4, <3>1, <3>2, CountersOK
  <2>7. /\ state[h] = "RUNNING" /\ phase[h] = "up" /\ killer[h] = "none" /\ cookie[h] = None
    <3>1. state[h] = "RUNNING"
      BY <1>8 DEF h
    <3> QED
      BY <1>1, <3>1, HandleFacts DEF LifeOK, Untouched, HandleOK
  <2>8. TypeOK'
    <3>1. /\ state' \in [Handles -> States] /\ cookie' \in [Handles -> Conns \cup {None}]
          /\ worker' \in [Conns -> WorkerType]
      BY <1>1, <1>3, <2>1 DEF IInv, TypeOK, States, SameCall
    <3> QED
      BY <1>4, <2>2, <3>1 DEF IInv, TypeOK, EsType, WorkerType
  <2>9. ASSUME NEW g \in Handles PROVE HandleOK(g)'
    <3>1. HandleOK(g) /\ (InTable(g)' <=> InTable(g))
      BY <1>4 DEF IInv, InTable
    <3>2. CASE g = h
      <4>1. /\ state'[g] = "STOPPING" /\ cookie'[g] = c /\ c # None
            /\ phase[g] = "up" /\ killer[g] = "none"
        BY <1>1, <2>1, <2>7, <3>2, HandleFacts DEF IInv, TypeOK
      <4>2. LifeOK(g)'
        BY <1>4, <4>1 DEF LifeOK, Untouched
      <4> QED
        BY <1>4, <3>1, <4>1, <4>2 DEF HandleOK
    <3>3. CASE g # h
      <4>1. state'[g] = state[g] /\ cookie'[g] = cookie[g]
        BY <2>1, <3>3 DEF IInv, TypeOK
      <4> QED
        BY <1>4, <3>1, <4>1, HandleFrame
    <3> QED
      BY <3>2, <3>3
  <2>10. QuietOK'
    <3> SUFFICES ASSUME NEW g \in Handles, killer[g] # "none" \/ Leaves(g)'
                 PROVE  state'[g] # "RUNNING" /\ Inners(g)' = {}
      BY <1>4 DEF QuietOK
    <3>1. Leaves(g)' => Leaves(g)
      BY <1>1, <1>3 DEF Leaves, SameCall
    <3>2. state[g] # "RUNNING" /\ Inners(g) = {}
      BY <3>1 DEF IInv, QuietOK
    <3>3. Inners(g)' = {}
      BY <1>1, <1>3, <3>2 DEF Inners, SameCall
    <3> QED
      BY <2>1, <3>2, <3>3 DEF IInv, TypeOK
  <2>11. ShutdownOK' /\ FreedOK' /\ TableOK'
    <3>1. ShutdownOK'
      BY <1>1, <1>4, <2>3, ShutdownStep
    <3> QED
      BY <1>4, <3>1 DEF IInv, FreedOK, TableOK
  <2>12. AnswersOK'
    <3>1. ASSUME NEW g \in Handles, Unanswered(g)'
          PROVE  /\ g # h => Unanswered(g) /\ cookie'[g] = cookie[g] /\ cookie[g] # c
                 /\ es'[cookie'[g]].waiting /\ ~core'[cookie'[g]].pending
      <4>1. CASE g = h
        <5>1. cookie'[g] = c
          BY <1>1, <2>1, <4>1 DEF IInv, TypeOK
        <5> QED
          BY <1>1, <1>4, <2>2, <4>1, <5>1
      <4>2. CASE g # h
        <5>1. cookie'[g] = cookie[g] /\ Unanswered(g)
          BY <1>4, <2>1, <3>1, <4>2 DEF IInv, TypeOK, Unanswered
        <5>2. es[cookie[g]].waiting /\ ~core[cookie[g]].pending /\ cookie[g] \in Conns
          BY <5>1, HandleFacts DEF IInv, AnswersOK, Unanswered
        <5>3. cookie[g] # c
          BY <1>2, <5>2
        <5> QED
          BY <1>4, <2>2, <4>2, <5>1, <5>2, <5>3
      <4> QED
        BY <4>1, <4>2
    <3>2. cookie'[h] = c
      BY <1>1, <2>1 DEF IInv, TypeOK
    <3>3. ASSUME NEW f \in Handles, NEW g \in Handles,
                 Unanswered(f)', Unanswered(g)', cookie'[f] = cookie'[g]
          PROVE  f = g
      <4>1. (f = h /\ g = h) \/ (f # h /\ g # h)
        BY <3>1, <3>2, <3>3
      <4>2. f # h /\ g # h => f = g
        BY <3>1, <3>3 DEF IInv, AnswersOK
      <4> QED
        BY <4>1, <4>2
    <3> QED
      BY <3>1, <3>3 DEF AnswersOK
  <2> QED
    BY <2>5, <2>6, <2>8, <2>9, <2>10, <2>11, <2>12 DEF IInv
<1> QED
  BY <1>7, <1>8

\* The last one out of a stopping bucket starts the thread that shuts it down.
LEMMA StartShutdownOK ==
  ASSUME IInv, NEW c \in Conns, StartShutdown(c)
  PROVE  IInv'
<1>1. PICK h \in Handles : h = worker[c].peh /\ Used(h)
  BY CallFacts DEF StartShutdown, At, WorkerOK, Calling, Used
<1>2. /\ worker[c].pc = "start_shutdown" /\ worker[c].old = None /\ shutdown.pc = "no"
      /\ worker[c].op \in {"call", "tap", "ship_log", "disconnect", "delete"}
  BY CallFacts DEF StartShutdown, At, WorkerOK, StepOf
<1>3. /\ SameCall(c) /\ worker'[c].pc = "returned" /\ worker'[c].ok = worker[c].ok
  <2>1. "returned" \in PCs /\ worker \in [Conns -> WorkerType] /\ worker' = [worker EXCEPT ![c].pc = "returned"]
    BY ConnTypes DEF PCs, StartShutdown, Goto
  <2>2. /\ Edited(c, "returned") /\ worker'[c].ok = worker[c].ok /\ worker'[c].peh = worker[c].peh
        /\ worker'[c].found = worker[c].found /\ worker'[c].old = worker[c].old
    BY <2>1, EditPc
  <2> QED
    BY <2>2 DEF SameCall, Edited
<1>4. UNCHANGED <<engines, phase, refcount, clients, cookie, tapIterator, es, core, releaser,
                  signals, shutdown, leaked>>
  BY DEF StartShutdown
<1>5. \A g \in Handles : /\ Bit(c \in Counted(g)') = Bit(c \in Counted(g))
                         /\ Holding(es'[c], worker'[c], releaser'[c], g) = Holding(es[c], worker[c], releaser[c], g)
  BY <1>2, <1>3, <1>4 DEF Counted, SameCall, Bit, Holding
<1>6. \A g \in Handles : clients'[g] = clients[g] + Bit(c \in Counted(g)') - Bit(c \in Counted(g))
                                       + leaked'[g] - leaked[g]
  BY <1>4, <1>5, ConnTypes DEF Bit
<1>7. StepOf(worker[c].op, worker'[c].pc) /\ (Reserving(c) => Reserving(c)')
  BY <1>2, <1>3 DEF StepOf, Reserving, SameCall
<1>8. CASE state[h] # "STOPPING"
  <2>1. UNCHANGED <<state, killer>>
    BY <1>1, <1>8 DEF StartShutdown
  <2>2. StepsQuietly(c)
    BY <1>3 DEF StepsQuietly, Inner
  <2>3. clients' \in [Handles -> Int] /\ leaked' \in [Handles -> Nat] /\ tapIterator' \in [Handles -> BOOLEAN]
    BY <1>4, ConnTypes
  <2> QED
    BY <1>2, <1>3, <1>4, <1>6, <1>7, <2>1, <2>2, <2>3, CallStep DEF Calling
<1>9. CASE state[h] = "STOPPING"
  <2>1. state' = [state EXCEPT ![h] = "STOPPED"] /\ killer' = [killer EXCEPT ![h] = "started"]
    BY <1>1, <1>9 DEF StartShutdown
  <2>2. state \in [Handles -> States] /\ killer[h] = "none" /\ phase[h] = "up" /\ Inners(h) = {}
    <3>1. Untouched(h) /\ killer[h] = "none"
      BY <1>9, HandleFacts DEF LifeOK
    <3>2. Leaves(h)
      BY <1>1, <1>2 DEF Leaves
    <3> QED
      BY <1>2, <3>1, <3>2 DEF Untouched, IInv, QuietOK, TypeOK
  <2>3. Others(c)
    BY <1>3, <1>4 DEF Others, SameCall
  <2>4. ConnOK(c)'
    <3>1. WorkerOK(c)'
      BY <1>2, <1>3, <1>4, <1>7, CallFacts DEF WorkerOK, SameCall, Used, Calling
    <3>2. ReservedOK(c)'
      BY <1>2, <1>3, <1>4, <1>7, CallFacts DEF ReservedOK, SameCall, Used, Holds
    <3>3. WaitingOK(c)'
      BY <1>2, <1>3, <1>4, CallFacts DEF WaitingOK, SameCall, Holds
    <3> QED
      BY <3>1, <3>2, <3>3 DEF ConnOK
  <2>5. \A d \in Conns : ConnOK(d)'
    <3> SUFFICES ASSUME NEW d \in Conns, d # c PROVE ConnOK(d)'
      BY <2>4
    <3> QED
      BY <1>4, <2>3, ConnFrame DEF IInv, Others
  <2>6. ClientsCounted' /\ RefcountExact'
    <3>1. \A g \in Handles : refcount'[g] = refcount[g] + Holding(es'[c], worker'[c], releaser'[c], g)
                                      - Holding(es[c], worker[c], releaser[c], g)
      BY <1>4, <1>5, HoldingNat, ConnTypes
    <3>2. refcount' \in [Handles -> Int] /\ clients' \in [Handles -> Int] /\ leaked' \in [Handles -> Nat]
      BY <1>4, ConnTypes
    <3> QED
      BY <1>4, <1>6, <2>3, <2>4, <3>1, <3>2, CountersOK
  <2>7. TypeOK'
    <3>1. /\ state' \in [Handles -> States] /\ worker' \in [Conns -> WorkerType]
          /\ killer' \in [Handles -> {"none", "started", "destroy", "unlink", "notify", "check", "asleep",
                                      "free", "leave", "ended", "skipped"}]
      BY <1>3, <2>1, <2>2, HandleFacts DEF States, SameCall
    <3> QED
      BY <1>4, <3>1 DEF IInv, TypeOK, WorkerType
  <2>8. ASSUME NEW g \in Handles PROVE HandleOK(g)'
    <3>1. HandleOK(g) /\ (InTable(g)' <=> InTable(g))
      BY <1>4 DEF IInv, InTable
    <3>2. CASE g = h
      <4>1. state'[g] = "STOPPED" /\ killer'[g] = "started" /\ phase[g] = "up"
        BY <2>1, <2>2, <3>2, HandleFacts
      <4>2. LifeOK(g)'
        BY <1>4, <4>1 DEF LifeOK, Untouched
      <4> QED
        BY <1>4, <1>9, <2>2, <3>1, <3>2, <4>1, <4>2 DEF HandleOK, Unlinked
    <3>3. CASE g # h
      <4>1. state'[g] = state[g] /\ killer'[g] = killer[g]
        BY <2>1, <2>2, <3>3, HandleFacts
      <4> QED
        BY <1>4, <3>1, <4>1, HandleFrame
    <3> QED
      BY <3>2, <3>3
  <2>9. QuietOK'
    <3> SUFFICES ASSUME NEW g \in Handles, killer'[g] # "none" \/ Leaves(g)'
                 PROVE  state'[g] # "RUNNING" /\ Inners(g)' = {}
      BY DEF QuietOK
    <3>1. Leaves(g)' => Leaves(g)
      BY <1>2, <1>3 DEF Leaves, SameCall
    <3>2. Inners(g)' = Inners(g)
      BY <1>2, <1>3 DEF Inners, SameCall
    <3>3. state[g] # "RUNNING" /\ Inners(g) = {}
      BY <1>9, <2>1, <2>2, <3>1, HandleFacts DEF IInv, QuietOK
    <3> QED
      BY <2>1, <2>2, <3>2, <3>3
  <2>10. ShutdownOK'
    <3>1. {g \in Handles : killer'[g] \in Counting} = {g \in Handles : killer[g] \in Counting}
      BY <2>1, <2>2, HandleFacts DEF Counting
    <3> QED
      BY <1>2, <1>4, <3>1 DEF IInv, ShutdownOK
  <2>11. FreedOK' /\ TableOK'
    BY <1>4, <2>1, <2>2, HandleFacts DEF IInv, FreedOK, TableOK
  <2>12. AnswersOK'
    <3>1. \A g \in Handles : Unanswered(g)' <=> Unanswered(g)
      BY <1>4, <2>1, <2>2, HandleFacts DEF Unanswered
    <3> QED
      BY <1>4, <3>1 DEF IInv, AnswersOK
  <2> QED
    BY <2>5, <2>6, <2>7, <2>8, <2>9, <2>10, <2>11, <2>12 DEF IInv
<1> QED
  BY <1>8, <1>9

\* A new handle: nothing refers to it but the table and, perhaps, its creator.
LEMMA CreatedOK ==
  ASSUME IInv, NEW c \in Conns, NEW n \in Names, NEW h \in Handles, NEW keep \in BOOLEAN,
         CreateBucket(n, h, keep), shutdown.pc = "no",
         UNCHANGED <<clients, cookie, tapIterator, es, core, releaser, killer, signals, shutdown, leaked>>,
         \/ ~keep /\ worker' = worker
         \/ /\ keep /\ At(c, "auto_create")
            /\ worker' = [worker EXCEPT ![c].found = h, ![c].pc = "set"]
  PROVE  IInv'
<1>1. /\ engines[n] = None /\ phase[h] = "unused"
      /\ engines' = [engines EXCEPT ![n] = h] /\ phase' = [phase EXCEPT ![h] = "up"]
      /\ state' = [state EXCEPT ![h] = "RUNNING"]
      /\ refcount' = [refcount EXCEPT ![h] = IF keep THEN 2 ELSE 1]
  BY DEF CreateBucket
<1>2. /\ refcount[h] = 0 /\ killer[h] = "none" /\ cookie[h] = None /\ ~InTable(h)
  BY <1>1, HandleFacts DEF HandleOK, LifeOK, Untouched
<1>3. /\ worker' \in [Conns -> WorkerType]
      /\ \A d \in Conns : d # c => worker'[d] = worker[d]
      /\ \/ ~keep /\ worker' = worker
         \/ /\ keep /\ worker[c].pc = "auto_create" /\ worker[c].found = None
            /\ worker[c].op \in {"connect", "auth", "select"} /\ core[c].at = "idle"
            /\ ~Holds(c) /\ worker[c].old = None
            /\ Edited(c, "set") /\ worker'[c].found = h /\ worker'[c].ok = worker[c].ok
            /\ worker'[c].peh = worker[c].peh /\ worker'[c].old = worker[c].old
  <2>1. CASE ~keep /\ worker' = worker
    BY <2>1, ConnTypes
  <2>2. CASE keep /\ At(c, "auto_create") /\ worker' = [worker EXCEPT ![c].found = h, ![c].pc = "set"]
    <3>1. worker[c].pc = "auto_create"
      BY <2>2 DEF At
    <3>2. worker[c].op \in {"connect", "auth", "select"}
      BY <3>1, CallFacts DEF WorkerOK, StepOf
    <3>3. worker[c].found = None /\ core[c].at = "idle" /\ ~Holds(c) /\ worker[c].old = None
      BY <3>1, ChoosingFacts
    <3>4. "set" \in PCs /\ h \in HandleOrNone /\ worker \in [Conns -> WorkerType]
          /\ worker' = [worker EXCEPT ![c].found = h, ![c].pc = "set"]
      BY <2>2, ConnTypes DEF PCs, HandleOrNone
    <3>5. /\ Edited(c, "set") /\ worker'[c].found = h /\ worker'[c].ok = worker[c].ok
          /\ worker'[c].peh = worker[c].peh /\ worker'[c].old = worker[c].old
      BY <3>4, EditFound, ZenonT(40)
    <3> QED
      BY <2>2, <3>1, <3>2, <3>3, <3>5 DEF Edited
  <2> QED
    BY <2>1, <2>2
<1>4. Others(c) /\ \A g \in Handles : phase[g] # "unused" => phase'[g] # "unused"
  BY <1>1, <1>3, ConnTypes DEF Others
<1>5. phase'[h] = "up" /\ state'[h] = "RUNNING" /\ engines'[n] = h
      /\ engines \in [Names -> HandleOrNone]
  BY <1>1, ConnTypes, HandleFacts
<1>6. ConnOK(c)'
  <2>1. CASE worker' = worker
    BY <1>4, <2>1, ConnFrame DEF IInv
  <2>2. CASE worker' # worker
    <3>1. WorkerOK(c)'
      BY <1>3, <1>4, <1>5, <2>2, CallFacts DEF WorkerOK, Edited, StepOf, PlaceOf, Calling, Used
    <3>2. ReservedOK(c)'
      BY <1>3, <1>4, <2>2, CallFacts DEF ReservedOK, Edited, Used, Holds
    <3>3. WaitingOK(c)'
      BY <1>3, <2>2, CallFacts DEF WaitingOK, Edited, Holds
    <3> QED
      BY <3>1, <3>2, <3>3 DEF ConnOK
  <2> QED
    BY <2>1, <2>2
<1>7. \A d \in Conns : ConnOK(d)'
  <2> SUFFICES ASSUME NEW d \in Conns, d # c PROVE ConnOK(d)'
    BY <1>6
  <2> QED
    BY <1>4, ConnFrame DEF IInv, Others
<1>8. ClientsCounted'
  <2>1. \A g \in Handles : Counted(g)' = Counted(g)
    BY <1>3 DEF Counted, Edited
  <2> QED
    BY <2>1 DEF IInv, ClientsCounted
<1>9. RefcountExact'
  <2> SUFFICES ASSUME NEW g \in Handles PROVE refcount'[g] = References(g)'
    BY DEF RefcountExact
  <2>1. Holding(es'[c], worker'[c], releaser'[c], g)
          = Holding(es[c], worker[c], releaser[c], g) + Bit(keep /\ g = h)
    BY <1>3, HandleFacts, CallFacts DEF Holding, Edited, Bit
  <2>2. /\ Held(g) \in Nat /\ Held(g)' \in Nat
        /\ Held(g)' = Held(g) + Weight(c, g)' - Weight(c, g)
        /\ Weight(c, g) = Holding(es[c], worker[c], releaser[c], g)
        /\ Weight(c, g)' = Holding(es'[c], worker'[c], releaser'[c], g)
    BY <1>4, <1>6, HeldChange, WeightIsHolding DEF IInv
  <2>3. Held(g)' = Held(g) + Bit(keep /\ g = h)
    BY <2>1, <2>2, HoldingNat DEF Bit
  <2>4. Cardinality(TableRefs(g)') = Cardinality(TableRefs(g)) + Bit(g = h)
    <3>1. /\ TableRefs(g) \subseteq Names /\ TableRefs(g)' \subseteq Names
          /\ \A y \in Names : y # n => (y \in TableRefs(g) <=> y \in TableRefs(g)')
          /\ n \notin TableRefs(g) /\ (n \in TableRefs(g)' <=> g = h)
      BY <1>1, <1>5, CallFacts DEF TableRefs
    <3>2. Cardinality(TableRefs(g)') = Cardinality(TableRefs(g)) + Bit(n \in TableRefs(g)') - Bit(n \in TableRefs(g))
          /\ Cardinality(TableRefs(g)) \in Nat
      BY <3>1, Finiteness, CountChange
    <3> QED
      BY <3>1, <3>2 DEF Bit
  <2>5. refcount[g] = References(g) /\ refcount[g] \in Nat
    BY ConnTypes DEF IInv, RefcountExact
  <2>6. References(g)' = References(g) + Bit(g = h) + Bit(keep /\ g = h)
    BY <2>2, <2>3, <2>4, RefSplit DEF Bit
  <2> QED
    BY <1>1, <1>2, <2>5, <2>6, ConnTypes DEF Bit
<1>10. TypeOK'
  <2>1. /\ engines' \in [Names -> HandleOrNone] /\ state' \in [Handles -> States]
        /\ phase' \in [Handles -> {"unused", "up", "destroyed", "freed"}]
        /\ refcount' \in [Handles -> Nat]
    BY <1>1, <1>5, ConnTypes DEF HandleOrNone, States
  <2> QED
    BY <1>3, <2>1 DEF IInv, TypeOK, WorkerType
<1>11. \A m \in Names : m # n => engines[m] # h
  BY <1>2 DEF InTable
<1>12. TableOK'
  BY <1>1, <1>5, <1>11 DEF IInv, TableOK
<1>13. ASSUME NEW g \in Handles PROVE HandleOK(g)'
  <2>1. CASE g = h
    <3>1. LifeOK(g)' /\ InTable(g)'
      BY <1>2, <1>5, <2>1 DEF LifeOK, Untouched, InTable
    <3> QED
      BY <1>2, <1>5, <2>1, <3>1 DEF HandleOK, Unlinked
  <2>2. CASE g # h
    <3>1. HandleOK(g) /\ phase'[g] = phase[g] /\ state'[g] = state[g] /\ refcount'[g] = refcount[g]
      BY <1>1, <2>2, ConnTypes DEF IInv
    <3>2. InTable(g)' <=> InTable(g)
      BY <1>1, <1>5, <2>2, CallFacts DEF InTable
    <3> QED
      BY <3>1, <3>2, HandleFrame
  <2> QED
    BY <2>1, <2>2
<1>14. QuietOK'
  <2> SUFFICES ASSUME NEW g \in Handles, killer[g] # "none" \/ Leaves(g)'
               PROVE  state'[g] # "RUNNING" /\ Inners(g)' = {}
    BY DEF QuietOK
  <2>1. Leaves(g)' => Leaves(g)
    BY <1>3 DEF Leaves, Edited
  <2>2. Inners(g)' = Inners(g)
    BY <1>3 DEF Inners, Edited
  <2>3. state[g] # "RUNNING" /\ Inners(g) = {}
    BY <2>1 DEF IInv, QuietOK
  <2>4. ~Leaves(h)
    BY <1>1, CallFacts DEF Leaves, WorkerOK, Calling, Used
  <2> QED
    BY <1>1, <1>2, <2>1, <2>2, <2>3, <2>4, ConnTypes
<1>15. ShutdownOK' /\ AnswersOK'
  BY DEF IInv, ShutdownOK, AnswersOK, Unanswered
<1>16. FreedOK'
  BY <1>1, <1>2, ConnTypes DEF IInv, FreedOK
<1> QED
  BY <1>7, <1>8, <1>9, <1>10, <1>12, <1>13, <1>14, <1>15, <1>16 DEF IInv
-----------------------------------------------------------------------------
(***************************************************************************)
(* engine_shutdown_thread.                                                 *)
(***************************************************************************)

KillerPCs == {"none", "started", "destroy", "unlink", "notify", "check", "asleep", "free", "leave",
              "ended", "skipped"}

\* A shutdown thread that has started goes on.
Moves(h, from, to) ==
  /\ killer[h] = from /\ killer' = [killer EXCEPT ![h] = to]
  /\ UNCHANGED <<es, worker, releaser, clients, cookie, leaked, tapIterator>>
  /\ shutdown'.pc = shutdown.pc /\ shutdown'.inProgress = shutdown.inProgress

\* The process counts the threads that are between their two sections.
LEMMA CountingStep ==
  ASSUME IInv, NEW h \in Handles, NEW from \in KillerPCs, NEW to \in KillerPCs, Moves(h, from, to),
         shutdown'.counter = shutdown.counter + Bit(to \in Counting) - Bit(from \in Counting),
         from \notin Counting /\ to \in Counting => ~shutdown.inProgress
  PROVE  ShutdownOK' /\ shutdown'.counter \in Nat
<1> DEFINE K == {g \in Handles : killer[g] \in Counting}
           L == {g \in Handles : killer'[g] \in Counting}
<1>1. /\ K \subseteq Handles /\ L \subseteq Handles
      /\ \A g \in Handles : g # h => (g \in K <=> g \in L)
      /\ (h \in K <=> from \in Counting) /\ (h \in L <=> to \in Counting)
  BY HandleFacts DEF Moves
<1>2. /\ shutdown.counter = Cardinality(K)
      /\ shutdown.inProgress <=> shutdown.pc \in {"wait", "iterate", "done"}
      /\ shutdown.pc # "no" => \A c \in Conns : worker[c].pc = "idle"
      /\ shutdown.pc \in {"iterate", "done"} => shutdown.counter = 0
  BY DEF IInv, ShutdownOK
<1> HIDE DEF K, L
<1>3. /\ Cardinality(K) \in Nat /\ Cardinality(L) \in Nat /\ Cardinality(K) >= Bit(h \in K)
      /\ Cardinality(L) = Cardinality(K) + Bit(h \in L) - Bit(h \in K)
  BY <1>1, Finiteness, CountChange
<1>4. shutdown'.counter = Cardinality(L)
  BY <1>1, <1>2, <1>3 DEF Bit
<1>5. ASSUME shutdown.pc \in {"iterate", "done"} PROVE shutdown'.counter = 0
  <2>1. shutdown.inProgress /\ Cardinality(K) = 0
    BY <1>2, <1>5
  <2> QED
    BY <1>1, <1>3, <1>4, <2>1 DEF Bit
<1> QED
  BY <1>2, <1>3, <1>4, <1>5 DEF ShutdownOK, Moves, L

\* A step of a bucket's shutdown thread.
LEMMA KillerMoves ==
  ASSUME IInv, NEW h \in Handles, NEW from \in KillerPCs, NEW to \in KillerPCs, Moves(h, from, to),
         from # "none", to # "none", state'[h] # "RUNNING",
         \A g \in Handles : g # h =>
           phase'[g] = phase[g] /\ state'[g] = state[g] /\ refcount'[g] = refcount[g]
           /\ (InTable(g)' <=> InTable(g)),
         to \in {"free", "leave", "ended"} /\ ~shutdown.inProgress => refcount'[h] = 0,
         TypeOK', \A d \in Conns : ConnOK(d)', TableOK', HandleOK(h)', AnswersOK', RefcountExact', ShutdownOK'
  PROVE  IInv'
<1>1. ClientsCounted'
  BY SameCounts DEF Moves
<1>2. killer'[h] = to /\ \A g \in Handles : g # h => killer'[g] = killer[g]
  BY HandleFacts DEF Moves
<1>3. ASSUME NEW g \in Handles PROVE HandleOK(g)'
  <2>1. CASE g = h
    BY <2>1
  <2>2. CASE g # h
    BY <1>2, <2>2, HandleFacts, HandleFrame DEF Moves
  <2> QED
    BY <2>1, <2>2
<1>4. QuietOK'
  <2> SUFFICES ASSUME NEW g \in Handles, killer'[g] # "none" \/ Leaves(g)'
               PROVE  state'[g] # "RUNNING" /\ Inners(g)' = {}
    BY DEF QuietOK
  <2>1. Leaves(g)' = Leaves(g) /\ Inners(g)' = Inners(g)
    BY DEF Leaves, Inners, Moves
  <2>2. killer[g] # "none" \/ Leaves(g)
    BY <1>2, <2>1 DEF Moves
  <2> QED
    BY <2>1, <2>2 DEF IInv, QuietOK
<1>5. FreedOK'
  BY <1>2 DEF IInv, FreedOK, Moves
<1> QED
  BY <1>1, <1>3, <1>4, <1>5 DEF IInv

Answered(k) == k \notin {"none", "started", "skipped", "destroy", "unlink", "notify"}

\* Most of its steps change nothing but the phase of the handle.
LEMMA KillerStepsOn ==
  ASSUME IInv, NEW h \in Handles, NEW from \in KillerPCs, NEW to \in KillerPCs, Moves(h, from, to),
         from # "none", to # "none", UNCHANGED <<engines, state, refcount, core, signals>>,
         NEW p \in {"up", "destroyed", "freed"}, phase' = [phase EXCEPT ![h] = p],
         shutdown' \in [pc: {"no", "begin", "wait", "iterate", "done"}, inProgress: BOOLEAN, counter: Int],
         shutdown'.counter = shutdown.counter + Bit(to \in Counting) - Bit(from \in Counting),
         from \notin Counting /\ to \in Counting => ~shutdown.inProgress,
         to \in {"free", "leave", "ended"} /\ ~shutdown.inProgress => refcount[h] = 0,
         Answered(from) <=> Answered(to), from \in Unlinked <=> to \in Unlinked, LifeOK(h)'
  PROVE  IInv'
<1>1. killer'[h] = to /\ \A g \in Handles : g # h => killer'[g] = killer[g]
  BY HandleFacts DEF Moves
<1>2. phase'[h] = p /\ \A g \in Handles : g # h => phase'[g] = phase[g]
  BY ConnTypes
<1>3. state[h] # "RUNNING"
  BY DEF IInv, QuietOK, Moves
<1>4. ShutdownOK' /\ shutdown'.counter \in Nat
  BY CountingStep
<1>5. TypeOK'
  <2>1. /\ killer' \in [Handles -> KillerPCs]
        /\ phase' \in [Handles -> {"unused", "up", "destroyed", "freed"}]
        /\ shutdown' \in [pc: {"no", "begin", "wait", "iterate", "done"}, inProgress: BOOLEAN, counter: Nat]
    BY <1>4, HandleFacts, ConnTypes DEF Moves, KillerPCs
  <2> QED
    BY <2>1 DEF IInv, TypeOK, Moves, KillerPCs
<1>6. \A d \in Conns : ConnOK(d)'
  BY <1>2, SameConns DEF Moves
<1>7. phase[h] # "unused"
  BY HandleFacts DEF LifeOK, Untouched, Moves
<1>8. TableOK' /\ (\A g \in Handles : InTable(g)' <=> InTable(g)) /\ HandleOK(h)'
  BY <1>1, <1>2, <1>3, <1>7, HandleFacts DEF IInv, TableOK, InTable, HandleOK, Moves
<1>9. AnswersOK'
  <2>1. \A g \in Handles : Unanswered(g)' <=> Unanswered(g)
    BY <1>1 DEF Unanswered, Answered, Moves
  <2> QED
    BY <2>1 DEF IInv, AnswersOK, Moves
<1>10. RefcountExact'
  <2> SUFFICES ASSUME NEW g \in Handles PROVE refcount[g] = References(g)'
    BY DEF RefcountExact
  <2>1. Held(g)' = Held(g) /\ TableRefs(g)' = TableRefs(g)
    BY SameCounts DEF Moves, TableRefs
  <2> QED
    BY <2>1, RefSplit DEF IInv, RefcountExact
<1> QED
  BY <1>2, <1>3, <1>4, <1>5, <1>6, <1>8, <1>9, <1>10, KillerMoves

\* The sections that the thread is in decide what the bucket is.
LEMMA KillerStartsOK ==
  ASSUME IInv, NEW h \in Handles, KillerStarts(h)
  PROVE  IInv'
<1>1. /\ killer[h] = "started" /\ Untouched(h) /\ state[h] = "STOPPED"
  BY HandleFacts DEF KillerStarts, Killer, LifeOK
<1>2. /\ UNCHANGED <<es, worker, releaser, clients, cookie, leaked, tapIterator, engines, state,
                     refcount, core, signals, phase>>
  BY DEF KillerStarts, handleVars
<1>3. phase \in [Handles -> {"unused", "up", "destroyed", "freed"}] /\ phase' = [phase EXCEPT ![h] = phase[h]]
      /\ phase[h] \in {"up", "destroyed", "freed"}
  BY <1>1, <1>2, ConnTypes DEF Untouched
<1>4. CASE shutdown.inProgress
  <2>1. Moves(h, "started", "skipped") /\ shutdown' = shutdown
    BY <1>2, <1>4 DEF KillerStarts, Killer, Moves
  <2>2. LifeOK(h)'
    BY <1>1, <1>2, <2>1, HandleFacts DEF LifeOK, Untouched, Moves
  <2>3. shutdown'.counter = shutdown.counter + Bit("skipped" \in Counting) - Bit("started" \in Counting)
        /\ shutdown' \in [pc: {"no", "begin", "wait", "iterate", "done"}, inProgress: BOOLEAN, counter: Int]
    BY <2>1, HandleFacts DEF Bit, Counting
  <2> QED
    BY <1>2, <1>3, <2>1, <2>2, <2>3, KillerStepsOn, ZenonT(40) DEF KillerPCs, Counting, Answered, Unlinked
<1>5. CASE ~shutdown.inProgress
  <2>1. shutdown' = [shutdown EXCEPT !.counter = @ + 1] /\ killer' = [killer EXCEPT ![h] = "destroy"]
    BY <1>5 DEF KillerStarts, Killer
  <2>2. Moves(h, "started", "destroy") /\ shutdown'.counter = shutdown.counter + 1
        /\ shutdown' \in [pc: {"no", "begin", "wait", "iterate", "done"}, inProgress: BOOLEAN, counter: Int]
    BY <1>1, <1>2, <2>1, HandleFacts DEF Moves
  <2>3. phase[h] = "up"
    BY <1>1, <1>5 DEF Untouched, IInv, ShutdownOK
  <2>4. LifeOK(h)'
    BY <1>1, <1>2, <2>1, <2>3, HandleFacts DEF LifeOK
  <2>5. shutdown'.counter = shutdown.counter + Bit("destroy" \in Counting) - Bit("started" \in Counting)
    BY <2>2, HandleFacts DEF Bit, Counting
  <2> QED
    BY <1>2, <1>3, <1>5, <2>2, <2>4, <2>5, KillerStepsOn DEF KillerPCs, Counting, Answered, Unlinked
<1> QED
  BY <1>4, <1>5

\* The shutdown thread destroys the engine.
LEMMA DestroyEngineOK ==
  ASSUME IInv, NEW h \in Handles, DestroyEngine(h)
  PROVE  IInv'
<1>1. /\ killer[h] = "destroy" /\ state[h] = "STOPPED"
  BY HandleFacts DEF DestroyEngine, Killer, LifeOK
<1>2. UNCHANGED <<engines, state, refcount, core, signals, shutdown>> /\ Moves(h, "destroy", "unlink")
      /\ phase' = [phase EXCEPT ![h] = "destroyed"]
  BY DEF DestroyEngine, Killer, Moves
<1>3. LifeOK(h)'
  BY <1>1, <1>2, HandleFacts, ConnTypes DEF LifeOK, Moves
<1>4. shutdown'.counter = shutdown.counter + Bit("unlink" \in Counting) - Bit("destroy" \in Counting)
      /\ shutdown' \in [pc: {"no", "begin", "wait", "iterate", "done"}, inProgress: BOOLEAN, counter: Int]
  BY <1>2, HandleFacts DEF Bit, Counting
<1> QED
  BY <1>2, <1>3, <1>4, KillerStepsOn DEF KillerPCs, Counting, Answered, Unlinked

\* It looks at the reference counter.
LEMMA CheckReferencesOK ==
  ASSUME IInv, NEW h \in Handles, CheckReferences(h)
  PROVE  IInv'
<1>1. /\ killer[h] = "check" /\ phase[h] = "destroyed" /\ state[h] = "NULL"
  BY HandleFacts DEF CheckReferences, Killer, LifeOK
<1>2. PICK to \in {"asleep", "free"} :
        /\ killer' = [killer EXCEPT ![h] = to]
        /\ to = "free" => ~(refcount[h] > 0 /\ ~shutdown.inProgress)
  BY Zenon DEF CheckReferences, Killer
<1>3. UNCHANGED <<engines, state, refcount, core, signals, shutdown, phase>> /\ Moves(h, "check", to)
  BY <1>1, <1>2 DEF CheckReferences, handleVars, Moves
<1>4. LifeOK(h)'
  BY <1>1, <1>2, <1>3, HandleFacts DEF LifeOK
<1>5. shutdown'.counter = shutdown.counter + Bit(to \in Counting) - Bit("check" \in Counting)
      /\ shutdown' \in [pc: {"no", "begin", "wait", "iterate", "done"}, inProgress: BOOLEAN, counter: Int]
  BY <1>3, HandleFacts DEF Bit, Counting
<1>6. to = "free" /\ ~shutdown.inProgress => refcount[h] = 0
  BY <1>2, ConnTypes
<1>7. phase' = [phase EXCEPT ![h] = "destroyed"]
  BY <1>1, <1>3, ConnTypes
<1>8. /\ to \in KillerPCs /\ "check" \in KillerPCs /\ to # "none"
      /\ (Answered("check") <=> Answered(to)) /\ ("check" \in Unlinked <=> to \in Unlinked)
      /\ "check" \in Counting
      /\ to \in {"free", "leave", "ended"} /\ ~shutdown.inProgress => refcount[h] = 0
  BY <1>6 DEF KillerPCs, Counting, Answered, Unlinked
<1> QED
  BY <1>3, <1>4, <1>5, <1>7, <1>8, KillerStepsOn

\* It frees the handle.
LEMMA FreeHandleOK ==
  ASSUME IInv, NEW h \in Handles, FreeHandle(h)
  PROVE  IInv'
<1>1. /\ killer[h] = "free" /\ state[h] = "NULL"
  BY HandleFacts DEF FreeHandle, Killer, LifeOK
<1>2. UNCHANGED <<engines, state, refcount, core, signals, shutdown>> /\ Moves(h, "free", "leave")
      /\ phase' = [phase EXCEPT ![h] = "freed"]
  BY DEF FreeHandle, Killer, Moves
<1>3. LifeOK(h)'
  BY <1>1, <1>2, HandleFacts, ConnTypes DEF LifeOK, Moves
<1>4. shutdown'.counter = shutdown.counter + Bit("leave" \in Counting) - Bit("free" \in Counting)
      /\ shutdown' \in [pc: {"no", "begin", "wait", "iterate", "done"}, inProgress: BOOLEAN, counter: Int]
  BY <1>2, HandleFacts DEF Bit, Counting
<1>5. ~shutdown.inProgress => refcount[h] = 0
  BY <1>1 DEF IInv, FreedOK
<1> QED
  BY <1>2, <1>3, <1>4, <1>5, KillerStepsOn DEF KillerPCs, Counting, Answered, Unlinked

\* It ends.
LEMMA KillerEndsOK ==
  ASSUME IInv, NEW h \in Handles, KillerEnds(h)
  PROVE  IInv'
<1>1. /\ killer[h] = "leave" /\ state[h] = "NULL" /\ phase[h] = "freed"
  BY HandleFacts DEF KillerEnds, Killer, LifeOK
<1>2. UNCHANGED <<engines, state, refcount, core, signals, phase>> /\ Moves(h, "leave", "ended")
      /\ shutdown' = [shutdown EXCEPT !.counter = @ - 1]
  BY HandleFacts DEF KillerEnds, Killer, Moves, handleVars
<1>3. LifeOK(h)'
  BY <1>1, <1>2, HandleFacts DEF LifeOK, Moves
<1>4. shutdown'.counter = shutdown.counter + Bit("ended" \in Counting) - Bit("leave" \in Counting)
      /\ shutdown' \in [pc: {"no", "begin", "wait", "iterate", "done"}, inProgress: BOOLEAN, counter: Int]
  BY <1>2, HandleFacts DEF Bit, Counting
<1>5. ~shutdown.inProgress => refcount[h] = 0
  BY <1>1 DEF IInv, FreedOK
<1>6. phase' = [phase EXCEPT ![h] = "freed"]
  BY <1>1, <1>2, ConnTypes
<1> QED
  BY <1>2, <1>3, <1>4, <1>5, <1>6, KillerStepsOn DEF KillerPCs, Counting, Answered, Unlinked

\* The bucket leaves the table, which lets go of the handle.
LEMMA UnlinkOK ==
  ASSUME IInv, NEW h \in Handles, Unlink(h)
  PROVE  IInv'
<1>1. /\ killer[h] = "unlink" /\ state[h] = "STOPPED" /\ phase[h] = "destroyed" /\ InTable(h)
      /\ cookie[h] # None
  BY HandleFacts DEF Unlink, Killer, LifeOK, HandleOK, Unlinked
<1>2. /\ Moves(h, "unlink", "notify") /\ UNCHANGED <<phase, core, shutdown>>
      /\ engines' = [n \in Names |-> IF engines[n] = h THEN None ELSE engines[n]]
      /\ state' = [state EXCEPT ![h] = "NULL"] /\ Release(h)
  BY DEF Unlink, Killer, Moves
<1>3. /\ refcount' \in [Handles -> Int] /\ signals' \subseteq Handles
      /\ \A g \in Handles : refcount'[g] = refcount[g] - Bit(g = h)
  BY <1>2, RefReleased DEF HandleOrNone
<1>4. /\ killer'[h] = "notify" /\ state'[h] = "NULL"
      /\ \A g \in Handles : g # h => killer'[g] = killer[g] /\ state'[g] = state[g]
  BY <1>2, HandleFacts, ConnTypes DEF Moves
<1>5. h # None /\ engines \in [Names -> HandleOrNone]
  BY HandleFacts, CallFacts, RolesAssumption DEF Handles
<1>6. \A g \in Handles : g # h => (InTable(g)' <=> InTable(g)) /\ TableRefs(g)' = TableRefs(g)
  BY <1>2, RolesAssumption DEF InTable, TableRefs, Handles
<1>7. ~InTable(h)' /\ TableOK'
  BY <1>2, <1>5 DEF InTable, IInv, TableOK
<1>8. Cardinality(TableRefs(h)) = 1 /\ Cardinality(TableRefs(h)') = 0
  <2>1. PICK n \in Names : engines[n] = h
    BY <1>1 DEF InTable
  <2>2. TableRefs(h) = {n} /\ TableRefs(h)' = {}
    BY <1>2, <1>5, <2>1 DEF TableRefs, IInv, TableOK
  <2> QED
    BY <2>2, FS_EmptySet, FS_Singleton
<1>9. ASSUME NEW g \in Handles
      PROVE  refcount'[g] = References(g)' /\ refcount'[g] \in Nat
  <2>1. Held(g)' = Held(g)
    BY <1>2, SameCounts DEF Moves
  <2>2. refcount[g] = Cardinality(TableRefs(g)) + Held(g) /\ refcount[g] \in Nat
    BY RefSplit, ConnTypes DEF IInv, RefcountExact
  <2>3. Held(g) \in Nat
    <3>1. PICK c \in Conns : TRUE
      BY <1>1, HandleFacts
    <3>2. Others(c)
      BY <1>2 DEF Others, Moves
    <3> QED
      BY <3>1, <3>2, HeldChange
  <2>4. References(g)' = Cardinality(TableRefs(g)') + Held(g)
    BY <2>1, RefSplit
  <2>5. CASE g = h
    BY <1>3, <1>8, <2>2, <2>3, <2>4, <2>5 DEF Bit
  <2>6. CASE g # h
    BY <1>3, <1>6, <2>2, <2>4, <2>6 DEF Bit
  <2> QED
    BY <2>5, <2>6
<1>10. RefcountExact' /\ refcount' \in [Handles -> Nat]
  BY <1>3, <1>9 DEF RefcountExact
<1>11. TypeOK'
  <2>1. /\ engines' \in [Names -> HandleOrNone] /\ state' \in [Handles -> States]
        /\ killer' \in [Handles -> KillerPCs]
    BY <1>2, <1>5, HandleFacts, ConnTypes DEF States, HandleOrNone, Moves, KillerPCs
  <2> QED
    BY <1>2, <1>3, <1>10, <2>1 DEF IInv, TypeOK, Moves, KillerPCs
<1>12. HandleOK(h)'
  <2>1. phase'[h] = "destroyed" /\ cookie'[h] # None
    BY <1>1, <1>2 DEF Moves
  <2>2. LifeOK(h)'
    BY <1>4, <2>1 DEF LifeOK
  <2> QED
    BY <1>4, <1>7, <2>1, <2>2 DEF HandleOK, Unlinked
<1>13. AnswersOK'
  <2>1. \A g \in Handles : Unanswered(g)' <=> Unanswered(g)
    BY <1>1, <1>2, <1>4 DEF Unanswered, Moves
  <2> QED
    BY <1>2, <2>1 DEF IInv, AnswersOK, Moves
<1>14. ShutdownOK'
  <2>1. shutdown'.counter = shutdown.counter + Bit("notify" \in Counting) - Bit("unlink" \in Counting)
    BY <1>2, HandleFacts DEF Bit, Counting
  <2> QED
    BY <1>2, <2>1, CountingStep DEF KillerPCs, Counting
<1>15. /\ \A d \in Conns : ConnOK(d)'
       /\ \A g \in Handles : g # h =>
            phase'[g] = phase[g] /\ state'[g] = state[g] /\ refcount'[g] = refcount[g]
            /\ (InTable(g)' <=> InTable(g))
  <2>1. \A g \in Handles : g # h => refcount'[g] = refcount[g]
    BY <1>3, ConnTypes DEF Bit
  <2> QED
    BY <1>2, <1>4, <1>6, <2>1, SameConns DEF Moves
<1> QED
  BY <1>2, <1>4, <1>7, <1>10, <1>11, <1>12, <1>13, <1>14, <1>15, KillerMoves DEF KillerPCs

\* The client that waits for the bucket gets its answer.
LEMMA NotifyDeletedOK ==
  ASSUME IInv, NEW h \in Handles, NotifyDeleted(h)
  PROVE  IInv'
<1>1. /\ killer[h] = "notify" /\ state[h] = "NULL" /\ phase[h] = "destroyed" /\ ~InTable(h)
      /\ cookie[h] # None /\ cookie[h] \in Conns
  BY HandleFacts DEF NotifyDeleted, Killer, LifeOK, HandleOK, Unlinked
<1>2. PICK c \in Conns : c = cookie[h]
  BY <1>1
<1>3. /\ Moves(h, "notify", "check") /\ UNCHANGED <<engines, phase, state, refcount, signals, shutdown>>
      /\ core' = [core EXCEPT ![c].pending = TRUE] /\ worker[c].pc = "idle"
  BY <1>2 DEF NotifyDeleted, Killer, Moves, handleVars, At
<1>4. killer'[h] = "check" /\ \A g \in Handles : g # h => killer'[g] = killer[g]
  BY <1>3, HandleFacts DEF Moves
<1>5. Unanswered(h) /\ es[c].waiting /\ core[c].at = "blocked" /\ ~Holds(c)
  <2>1. Unanswered(h) /\ es[c].waiting
    BY <1>1, <1>2 DEF Unanswered, IInv, AnswersOK
  <2>2. worker[c].op = "none"
    BY <1>3, CallFacts DEF WorkerOK, StepOf
  <2> QED
    BY <2>1, <2>2, CallFacts DEF WaitingOK
<1>6. /\ core' \in [Conns -> CoreType] /\ core'[c].at = core[c].at /\ core'[c].refcount = core[c].refcount
      /\ \A d \in Conns : d # c => core'[d] = core[d]
  <2>1. core \in [Conns -> CoreType] /\ core[c] \in CoreType
    BY ConnTypes
  <2>2. [core[c] EXCEPT !.pending = TRUE] \in CoreType
    BY <2>1 DEF CoreType
  <2> QED
    BY <1>3, <2>1, <2>2 DEF CoreType
<1>7. ASSUME NEW d \in Conns PROVE ConnOK(d)'
  <2>1. /\ UNCHANGED <<es, worker, releaser, phase>>
    BY <1>3 DEF Moves
  <2>2. CASE d # c
    BY <1>6, <2>1, <2>2, ConnFrame DEF IInv
  <2>3. CASE d = c
    <3>1. WorkerOK(c)'
      BY <1>6, <2>1, CallFacts DEF WorkerOK, Used
    <3>2. ReservedOK(c)'
      BY <1>6, <2>1, CallFacts DEF ReservedOK, Used, Holds, Reserving
    <3>3. WaitingOK(c)'
      BY <1>5, <1>6, <2>1, CallFacts DEF WaitingOK, Holds
    <3> QED
      BY <2>3, <3>1, <3>2, <3>3 DEF ConnOK
  <2> QED
    BY <2>2, <2>3
<1>8. TypeOK'
  <2>1. killer' \in [Handles -> KillerPCs]
    BY <1>3, HandleFacts DEF Moves, KillerPCs
  <2> QED
    BY <1>3, <1>6, <2>1 DEF IInv, TypeOK, Moves, KillerPCs, CoreType
<1>9. TableOK' /\ \A g \in Handles : InTable(g)' <=> InTable(g)
  BY <1>3 DEF IInv, TableOK, InTable
<1>10. HandleOK(h)'
  <2>1. LifeOK(h)' /\ ~InTable(h)' /\ cookie'[h] # None /\ phase'[h] = "destroyed" /\ state'[h] = "NULL"
    BY <1>1, <1>3, <1>4, <1>9 DEF LifeOK, Moves
  <2> QED
    BY <1>4, <2>1 DEF HandleOK, Unlinked
<1>11. AnswersOK'
  <2>1. ASSUME NEW g \in Handles, Unanswered(g)'
        PROVE  Unanswered(g) /\ cookie[g] # c
    BY <1>2, <1>3, <1>4, <1>5, <2>1 DEF Unanswered, Moves, IInv, AnswersOK
  <2>2. ASSUME NEW g \in Handles, Unanswered(g)'
        PROVE  es'[cookie'[g]].waiting /\ ~core'[cookie'[g]].pending
    <3>1. /\ es[cookie[g]].waiting /\ ~core[cookie[g]].pending
          /\ cookie[g] \in Conns /\ cookie[g] # c
      BY <2>1, <2>2, HandleFacts DEF IInv, AnswersOK, Unanswered
    <3> QED
      BY <1>3, <1>6, <3>1 DEF Moves
  <2>3. \A f, g \in Handles : Unanswered(f)' /\ Unanswered(g)' /\ cookie'[f] = cookie'[g] => f = g
    BY <1>3, <2>1 DEF Moves, IInv, AnswersOK
  <2> QED
    BY <2>2, <2>3 DEF AnswersOK
<1>12. RefcountExact'
  <2> SUFFICES ASSUME NEW g \in Handles PROVE refcount'[g] = References(g)'
    BY DEF RefcountExact
  <2>1. Held(g)' = Held(g) /\ TableRefs(g)' = TableRefs(g)
    BY <1>3, SameCounts DEF Moves, TableRefs
  <2> QED
    BY <1>3, <2>1, RefSplit DEF IInv, RefcountExact
<1>13. ShutdownOK'
  <2>1. shutdown'.counter = shutdown.counter + Bit("check" \in Counting) - Bit("notify" \in Counting)
    BY <1>3, HandleFacts DEF Bit, Counting
  <2> QED
    BY <1>3, <2>1, CountingStep DEF KillerPCs, Counting
<1> QED
  BY <1>1, <1>3, <1>7, <1>8, <1>9, <1>10, <1>11, <1>12, <1>13, KillerMoves DEF KillerPCs
-----------------------------------------------------------------------------
(***************************************************************************)
(* Broadcasts and the shutdown of memcached.                               *)
(***************************************************************************)

ShutdownType ==
  [pc: {"no", "begin", "wait", "iterate", "done"}, inProgress: BOOLEAN, counter: Nat]

\* Shutdown threads wake up, and the shutdown of the process goes on.
LEMMA HandlesStay ==
  ASSUME IInv, UNCHANGED <<handleVars, es, core, worker, releaser, leaked>>,
         killer' \in [Handles -> KillerPCs], signals' \subseteq Handles, shutdown' \in ShutdownType,
         \A h \in Handles : killer'[h] = killer[h] \/ (killer[h] = "asleep" /\ killer'[h] = "check"),
         shutdown'.counter = shutdown.counter, shutdown.inProgress => shutdown'.inProgress,
         shutdown.pc = "done" => shutdown'.pc = "done",
         shutdown'.inProgress <=> shutdown'.pc \in {"wait", "iterate", "done"},
         shutdown'.pc # "no" => \A c \in Conns : worker[c].pc = "idle",
         shutdown'.pc \in {"iterate", "done"} => shutdown.counter = 0
  PROVE  IInv'
<1>1. TypeOK'
  BY DEF IInv, TypeOK, handleVars, KillerPCs, ShutdownType
<1>2. /\ UNCHANGED <<engines, phase, state, refcount, clients, cookie, tapIterator>>
  BY DEF handleVars
<1>3. \A d \in Conns : ConnOK(d)'
  BY <1>2, SameConns
<1>4. ClientsCounted' /\ \A h \in Handles : Held(h)' = Held(h)
  BY <1>2, SameCounts
<1>5. RefcountExact'
  <2> SUFFICES ASSUME NEW g \in Handles PROVE refcount[g] = References(g)'
    BY <1>2 DEF RefcountExact
  <2>1. Held(g)' = Held(g) /\ TableRefs(g)' = TableRefs(g)
    BY <1>2, <1>4 DEF TableRefs
  <2> QED
    BY <2>1, RefSplit DEF IInv, RefcountExact
<1>6. TableOK'
  BY <1>2 DEF IInv, TableOK
<1>7. ASSUME NEW h \in Handles PROVE HandleOK(h)'
  <2>1. HandleOK(h) /\ (InTable(h)' <=> InTable(h))
    BY <1>2 DEF IInv, InTable
  <2>2. LifeOK(h)'
    BY <1>2, <2>1 DEF HandleOK, LifeOK, Untouched
  <2> QED
    BY <1>2, <2>1, <2>2 DEF HandleOK, Unlinked
<1>8. QuietOK'
  <2>1. \A h \in Handles : (Leaves(h)' <=> Leaves(h)) /\ Inners(h)' = Inners(h)
    BY DEF Leaves, Inners
  <2> QED
    BY <1>2, <2>1 DEF IInv, QuietOK
<1>9. ShutdownOK'
  <2>1. {h \in Handles : killer'[h] \in Counting} = {h \in Handles : killer[h] \in Counting}
    BY DEF Counting
  <2> QED
    BY <2>1 DEF IInv, ShutdownOK
<1>10. FreedOK'
  BY <1>2 DEF IInv, FreedOK
<1>11. AnswersOK'
  <2>1. \A h \in Handles : Unanswered(h)' <=> Unanswered(h)
    BY <1>2 DEF Unanswered
  <2> QED
    BY <1>2, <2>1 DEF IInv, AnswersOK
<1> QED
  BY <1>1, <1>3, <1>4, <1>5, <1>6, <1>7, <1>8, <1>9, <1>10, <1>11 DEF IInv

\* What a broadcast does to the threads that wait.
LEMMA AwakeFacts ==
  ASSUME IInv
  PROVE  /\ killer \in [Handles -> KillerPCs] /\ Awake \in [Handles -> KillerPCs]
         /\ \A h \in Handles : Awake[h] = killer[h] \/ (killer[h] = "asleep" /\ Awake[h] = "check")
         /\ shutdown \in ShutdownType /\ signals \subseteq Handles
         /\ shutdown.inProgress <=> shutdown.pc \in {"wait", "iterate", "done"}
         /\ shutdown.pc # "no" => \A c \in Conns : worker[c].pc = "idle"
         /\ shutdown.pc \in {"iterate", "done"} => shutdown.counter = 0
  BY DEF IInv, TypeOK, ShutdownOK, KillerPCs, ShutdownType, Awake

\* A release wakes the shutdown thread.
LEMMA BroadcastOK ==
  ASSUME IInv, NEW h \in Handles, Broadcast(h)
  PROVE  IInv'
<1>1. /\ UNCHANGED <<handleVars, es, core, worker, releaser, leaked, shutdown>>
      /\ killer' = Awake /\ signals' \subseteq Handles
  BY AwakeFacts DEF Broadcast
<1> QED
  BY <1>1, AwakeFacts, HandlesStay

\* The process shuts down when the worker threads are idle...
LEMMA StopWorkersOK ==
  ASSUME IInv, StopWorkers
  PROVE  IInv'
<1>1. /\ UNCHANGED <<handleVars, es, core, worker, releaser, leaked, killer, signals>>
      /\ shutdown.pc = "no" /\ \A c \in Conns : worker[c].pc = "idle"
  BY DEF StopWorkers, At
<1>2. /\ shutdown' \in ShutdownType /\ shutdown'.pc = "begin" /\ shutdown'.inProgress = shutdown.inProgress
      /\ shutdown'.counter = shutdown.counter
  BY AwakeFacts DEF StopWorkers, ShutdownType
<1> QED
  BY <1>1, <1>2, AwakeFacts, HandlesStay

\* ... lets no more threads start, and wakes those that sleep...
LEMMA BeginShutdownOK ==
  ASSUME IInv, BeginShutdown
  PROVE  IInv'
<1>1. /\ UNCHANGED <<handleVars, es, core, worker, releaser, leaked, signals>>
      /\ shutdown.pc = "begin" /\ killer' = Awake
  BY DEF BeginShutdown
<1>2. /\ shutdown' \in ShutdownType /\ shutdown'.pc = "wait" /\ shutdown'.inProgress
      /\ shutdown'.counter = shutdown.counter
  BY AwakeFacts DEF BeginShutdown, ShutdownType
<1> QED
  BY <1>1, <1>2, AwakeFacts, HandlesStay

\* ... waits for those that count themselves...
LEMMA AwaitKillersOK ==
  ASSUME IInv, AwaitKillers
  PROVE  IInv'
<1>1. /\ UNCHANGED <<handleVars, es, core, worker, releaser, leaked, killer, signals>>
      /\ shutdown.pc = "wait" /\ shutdown.counter = 0
  BY DEF AwaitKillers
<1>2. /\ shutdown' \in ShutdownType /\ shutdown'.pc = "iterate"
      /\ shutdown'.inProgress = shutdown.inProgress
      /\ shutdown'.counter = shutdown.counter
  BY AwakeFacts DEF AwaitKillers, ShutdownType
<1> QED
  BY <1>1, <1>2, AwakeFacts, HandlesStay

\* When the shutdown of the process goes through the table, no shutdown thread is
\* between its two sections.
LEMMA NobodyCounts ==
  ASSUME IInv, shutdown.pc \in {"iterate", "done"}
  PROVE  \A h \in Handles : killer[h] \notin Counting
<1> DEFINE K == {h \in Handles : killer[h] \in Counting}
<1>1. Cardinality(K) = 0
  BY DEF IInv, ShutdownOK
<1>2. IsFiniteSet(K)
  BY Finiteness, FS_Subset
<1>3. K = {}
  <2> HIDE DEF K
  <2> QED
    BY <1>1, <1>2, FS_EmptySet
<1> QED
  BY <1>3

\* ... and destroys what is in the table.
LEMMA DestroyAllOK ==
  ASSUME IInv, DestroyAll
  PROVE  IInv'
<1>1. /\ UNCHANGED <<engines, state, refcount, clients, cookie, tapIterator, es, core, worker, releaser,
                     killer, signals, leaked>>
      /\ shutdown.pc = "iterate"
      /\ phase' = [h \in Handles |-> IF InTable(h) THEN "destroyed" ELSE phase[h]]
  BY DEF DestroyAll, InTable
<1>2. /\ shutdown' \in ShutdownType /\ shutdown'.pc = "done" /\ shutdown'.inProgress = shutdown.inProgress
      /\ shutdown'.counter = shutdown.counter
  BY AwakeFacts DEF DestroyAll, ShutdownType
<1>3. \A h \in Handles : InTable(h)' <=> InTable(h)
  BY <1>1 DEF InTable
<1>4. \A h \in Handles : /\ InTable(h) => phase'[h] = "destroyed" /\ phase[h] # "unused"
                         /\ ~InTable(h) => phase'[h] = phase[h]
  BY <1>1, HandleFacts DEF HandleOK
<1>5. TypeOK'
  <2>1. phase' \in [Handles -> {"unused", "up", "destroyed", "freed"}]
    BY <1>1, ConnTypes
  <2> QED
    BY <1>1, <1>2, <2>1 DEF IInv, TypeOK, ShutdownType
<1>6. \A d \in Conns : ConnOK(d)'
  <2>1. \A h \in Handles : phase[h] # "unused" => phase'[h] # "unused"
    BY <1>4
  <2> QED
    BY <1>1, <2>1, SameConns
<1>7. ClientsCounted' /\ \A h \in Handles : Held(h)' = Held(h)
  BY <1>1, SameCounts
<1>8. RefcountExact'
  <2> SUFFICES ASSUME NEW g \in Handles PROVE refcount[g] = References(g)'
    BY <1>1 DEF RefcountExact
  <2>1. Held(g)' = Held(g) /\ TableRefs(g)' = TableRefs(g)
    BY <1>1, <1>7 DEF TableRefs
  <2> QED
    BY <2>1, RefSplit DEF IInv, RefcountExact
<1>9. ASSUME NEW h \in Handles PROVE HandleOK(h)'
  <2>1. HandleOK(h) /\ LifeOK(h) /\ killer[h] \notin Counting
    BY <1>1, HandleFacts, NobodyCounts
  <2>2. CASE InTable(h)
    <3>1. phase[h] # "unused" /\ killer[h] \notin Unlinked /\ phase'[h] = "destroyed" /\ InTable(h)'
      BY <1>3, <1>4, <2>1, <2>2 DEF HandleOK
    <3>2. LifeOK(h)'
      BY <1>1, <1>2, <2>1, <3>1 DEF LifeOK, Untouched, Counting, Unlinked
    <3> QED
      BY <1>1, <2>1, <3>1, <3>2 DEF HandleOK
  <2>3. CASE ~InTable(h)
    <3>1. phase'[h] = phase[h] /\ ~InTable(h)'
      BY <1>3, <1>4, <2>3
    <3>2. LifeOK(h)'
      BY <1>1, <1>2, <2>1, <3>1 DEF LifeOK, Untouched
    <3> QED
      BY <1>1, <2>1, <2>3, <3>1, <3>2 DEF HandleOK
  <2> QED
    BY <2>2, <2>3
<1>10. QuietOK' /\ TableOK' /\ AnswersOK'
  <2>1. \A h \in Handles : /\ (Leaves(h)' <=> Leaves(h)) /\ Inners(h)' = Inners(h)
                           /\ (Unanswered(h)' <=> Unanswered(h))
    BY <1>1 DEF Leaves, Inners, Unanswered
  <2> QED
    BY <1>1, <2>1 DEF IInv, QuietOK, TableOK, AnswersOK
<1>11. ShutdownOK' /\ FreedOK'
  BY <1>1, <1>2 DEF IInv, ShutdownOK, FreedOK
<1> QED
  BY <1>5, <1>6, <1>7, <1>8, <1>9, <1>10, <1>11 DEF IInv
-----------------------------------------------------------------------------
(***************************************************************************)
(* All steps.                                                              *)
(***************************************************************************)

LEMMA InitOK ==
  ASSUME Init
  PROVE  IInv
<1>1. IsFiniteSet({}) /\ Cardinality({}) = 0
  BY FS_EmptySet
<1>2. None \notin Handles /\ MaxHandles \in Nat
  BY RolesAssumption DEF Handles
<1>3. TypeOK
  BY DEF Init, TypeOK, HandleOrNone, NoES, Closed, Idle, NoRelease, States
<1>4. ASSUME NEW c \in Conns PROVE ConnOK(c)
  <2>1. es[c] = NoES /\ core[c] = Closed /\ worker[c] = Idle /\ releaser[c] = NoRelease
    BY DEF Init
  <2>2. WorkerOK(c)
    BY <2>1 DEF WorkerOK, Idle, Closed, StepOf, PlaceOf, Calling
  <2>3. ~Holds(c)
    BY <2>1 DEF Holds, NoES, NoRelease
  <2>4. ReservedOK(c)
    BY <2>1, <2>3 DEF ReservedOK, NoES, NoRelease, Closed, Idle, Bit
  <2>5. WaitingOK(c)
    BY <2>1 DEF WaitingOK, NoES, Closed
  <2> QED
    BY <2>2, <2>4, <2>5 DEF ConnOK
<1>5. TableOK /\ \A h \in Handles : ~InTable(h)
  BY <1>2 DEF Init, TableOK, InTable
<1>6. \A h \in Handles : HandleOK(h)
  BY <1>5 DEF Init, HandleOK, LifeOK
<1>7. QuietOK
  BY DEF Init, QuietOK, Leaves, Idle
<1>8. ShutdownOK
  <2>1. {h \in Handles : killer[h] \in Counting} = {}
    BY DEF Init, Counting
  <2> QED
    BY <1>1, <2>1 DEF Init, ShutdownOK
<1>9. FreedOK /\ AnswersOK
  BY DEF Init, FreedOK, AnswersOK, Unanswered
<1>10. ClientsCounted
  <2>1. \A h \in Handles : Cardinality(Counted(h)) = 0
    <3>1. \A h \in Handles : Counted(h) = {}
      BY DEF Init, Counted, Idle
    <3> QED
      BY <1>1, <3>1
  <2>2. \A h \in Handles : clients[h] = 0 /\ leaked[h] = 0
    BY DEF Init
  <2> QED
    BY <2>1, <2>2 DEF ClientsCounted
<1>11. RefcountExact
  <2> SUFFICES ASSUME NEW h \in Handles PROVE References(h) = 0
    BY DEF Init, RefcountExact
  <2>1. /\ TableRefs(h) = {} /\ ConnRefs(h) = {} /\ ReleaserRefs(h) = {} /\ ReservedRefs(h) = {}
    BY <1>2 DEF Init, TableRefs, ConnRefs, ReleaserRefs, ReservedRefs, NoES, NoRelease
  <2>2. TemporaryRefs(h) = {}
    BY <1>2 DEF Init, TemporaryRefs, Temporary, Idle
  <2> QED
    BY <1>1, <2>1, <2>2, RefSplit DEF Held
<1> QED
  BY <1>3, <1>4, <1>5, <1>6, <1>7, <1>8, <1>9, <1>10, <1>11 DEF IInv

\* A step that changes nothing.
LEMMA StutterOK ==
  ASSUME IInv, UNCHANGED vars
  PROVE  IInv'
<1>1. UNCHANGED <<handleVars, es, core, worker, releaser, leaked, killer, signals, shutdown>>
  BY DEF vars
<1> QED
  BY <1>1, AwakeFacts, HandlesStay

\* A bucket is created, by command or for a connection.
LEMMA CreatesOK ==
  ASSUME IInv, NEW c \in Conns, NEW n \in Names,
         (\E h \in Handles : Create(c, n, h)) \/ AutoCreateBucket(c, n)
  PROVE  IInv'
<1>1. ASSUME NEW h \in Handles, Create(c, n, h) PROVE IInv'
  <2>1. CreateBucket(n, h, FALSE) /\ shutdown.pc = "no" /\ worker' = worker
        /\ UNCHANGED <<clients, cookie, tapIterator, es, core, releaser, killer, signals, shutdown, leaked>>
    BY <1>1 DEF Create, WorkerReady
  <2> QED
    BY <2>1, CreatedOK
<1>2. ASSUME AutoCreateBucket(c, n) PROVE IInv'
  <2>1. /\ At(c, "auto_create")
        /\ UNCHANGED <<clients, cookie, tapIterator, es, core, releaser, killer, signals, shutdown, leaked>>
    BY <1>2 DEF AutoCreateBucket
  <2>2. shutdown.pc = "no"
    BY <2>1, CallFacts DEF At
  <2>3. ASSUME NEW h \in Handles, CreateBucket(n, h, TRUE),
               worker' = [worker EXCEPT ![c].found = h, ![c].pc = "set"]
        PROVE  IInv'
    BY <2>1, <2>2, <2>3, CreatedOK
  <2>4. ASSUME Goto(c, "set"), UNCHANGED <<engines, phase, state, refcount>>
        PROVE  IInv'
    BY <2>1, <2>4, NotCreatedOK
  <2> QED
    BY <1>2, <2>3, <2>4 DEF AutoCreateBucket
<1> QED
  BY <1>1, <1>2

\* Every step keeps the invariant.
LEMMA NextOK ==
  ASSUME IInv, [Next]_vars
  PROVE  IInv'
<1>1. ASSUME NEW c \in Conns, Client(c) PROVE IInv'
  BY <1>1, ConnectOK, HangUpOK, CommandOK, RequestOK, CreatesOK DEF Client
<1>2. ASSUME NEW c \in Conns, Choosing(c) PROVE IInv'
  BY <1>2, FindBucketOK, CreatesOK, SetEngineHandleOK, ReleaseOldOK, ReleaseFoundOK, MarkClientOK,
     StopBucketOK DEF Choosing
<1>3. ASSUME NEW c \in Conns, InEngine(c) PROVE IInv'
  BY <1>3, CheckStateOK, InsideOK, ReserveCookieOK, AssignIteratorOK, LeaveEngineOK, LastOutOK,
     StartShutdownOK DEF InEngine
<1>4. ASSUME NEW c \in Conns, Leaving(c) \/ ServePending(c) PROVE IInv'
  BY <1>4, ReturnedOK, FreeESOK, CloseConnectionOK, ServePendingOK DEF Leaving
<1>5. ASSUME NEW c \in Conns, DropReservation(c) \/ Releaser(c) PROVE IInv'
  BY <1>5, DropReservationOK, DropReferenceOK, DropConnectionOK DEF Releaser
<1>6. ASSUME NEW h \in Handles, KillerStep(h) \/ Broadcast(h) PROVE IInv'
  BY <1>6, KillerStartsOK, DestroyEngineOK, UnlinkOK, NotifyDeletedOK, CheckReferencesOK, FreeHandleOK,
     KillerEndsOK, BroadcastOK DEF KillerStep
<1>7. ASSUME Shutdown PROVE IInv'
  BY <1>7, StopWorkersOK, BeginShutdownOK, AwaitKillersOK, DestroyAllOK DEF Shutdown
<1> QED
  BY <1>1, <1>2, <1>3, <1>4, <1>5, <1>6, <1>7, StutterOK DEF Next, WorkerStep

\* Every reachable state satisfies the inductive invariant: the counters, the table,
\* the life of the handles and what each connection refers to fit together.
THEOREM Invariance == Spec => []IInv
<1>1. Init => IInv
  BY InitOK
<1>2. IInv /\ [Next]_vars => IInv'
  BY NextOK
<1> QED
  BY <1>1, <1>2, PTL DEF Spec

\* The state keeps its type: in particular, neither counter of a handle ever becomes
\* negative, whichever threads decrement it.
THEOREM TypeCorrect == Spec => []TypeOK
<1>1. IInv => TypeOK
  BY DEF IInv
<1> QED
  BY <1>1, Invariance, PTL

\* Nobody is inside an engine that is destroyed (get_engine_handle and
\* engine_shutdown_thread).
THEOREM EnginesOutliveCalls == Spec => []NobodyInsideDestroyed
<1>1. IInv => NobodyInsideDestroyed
  <2> SUFFICES ASSUME IInv, NEW c \in Conns, worker[c].pc \in {"inside", "reserve", "assign"}
               PROVE  phase[worker[c].peh] = "up" /\ killer[worker[c].peh] = "none"
    BY DEF NobodyInsideDestroyed
  <2>1. PICK h \in Handles : h = worker[c].peh /\ phase[h] # "unused"
    BY CallFacts DEF WorkerOK, Calling, Used
  <2>2. killer[h] = "none"
    BY <2>1 DEF IInv, QuietOK, Inners
  <2>3. shutdown.pc = "no"
    BY CallFacts
  <2> QED
    BY <2>1, <2>2, <2>3, HandleFacts DEF LifeOK, Untouched
<1> QED
  BY <1>1, Invariance, PTL

\* The clients counter of a handle counts the calls that are in its engine, and
\* those that have left it without saying so.
THEOREM CallsAreCounted == Spec => []ClientsCounted
<1>1. IInv => ClientsCounted
  BY DEF IInv
<1> QED
  BY <1>1, Invariance, PTL

\* The refcount of a handle counts the references to it: of the table, of connections,
\* of reservations, of threads that release one, and the temporary ones.
THEOREM ReferencesAreCounted == Spec => []RefcountExact
<1>1. IInv => RefcountExact
  BY DEF IInv
<1> QED
  BY <1>1, Invariance, PTL

\* A handle that engine_shutdown_thread has freed is referred to by nothing, as long
\* as memcached does not shut down.
THEOREM FreedIsUnreferenced == Spec => []NoDangling
<1>1. IInv => NoDangling
  <2> SUFFICES ASSUME IInv, NEW h \in Handles, phase[h] = "freed", ~shutdown.inProgress
               PROVE  References(h) = 0
    BY DEF NoDangling
  <2>1. killer[h] \in {"leave", "ended"}
    BY HandleFacts DEF LifeOK, Untouched
  <2> QED
    BY <2>1 DEF IInv, FreedOK, RefcountExact
<1> QED
  BY <1>1, Invariance, PTL

\* A bucket's engine is destroyed once, by its own shutdown thread or by the shutdown
\* of memcached, and the engine of a bucket's name is up only in the table.
THEOREM EnginesEndOnce == Spec => []DestroyedOnce
<1>1. IInv => DestroyedOnce
  <2> SUFFICES ASSUME IInv PROVE DestroyedOnce
    OBVIOUS
  <2>1. ASSUME NEW h \in Handles
        PROVE  /\ killer[h] = "destroy" => phase[h] = "up"
               /\ phase[h] = "up" => \E n \in Names : engines[n] = h
    BY HandleFacts DEF HandleOK, LifeOK, Untouched, Unlinked, InTable
  <2>2. ASSUME shutdown.pc = "iterate", NEW n \in Names, engines[n] # None
        PROVE  phase[engines[n]] = "up"
    <3>1. PICK h \in Handles : h = engines[n]
      <4>1. engines[n] \in HandleOrNone
        BY DEF IInv, TypeOK
      <4> QED
        BY <2>2, <4>1 DEF HandleOrNone
    <3>2. InTable(h) /\ killer[h] \notin Counting
      BY <2>2, <3>1, NobodyCounts DEF InTable
    <3> QED
      BY <2>2, <3>1, <3>2, HandleFacts DEF HandleOK, LifeOK, Untouched, Counting, Unlinked
  <2> QED
    BY <2>1, <2>2 DEF DestroyedOnce
<1> QED
  BY <1>1, Invariance, PTL

\* The client that deletes a bucket gets no answer while the bucket's engine is up.
THEOREM AnswersComeLast == Spec => []AnsweredWhenGone
<1>1. IInv => AnsweredWhenGone
  <2> SUFFICES ASSUME IInv, NEW h \in Handles, cookie[h] # None, phase[h] = "up"
               PROVE  ~core[cookie[h]].pending
    BY DEF AnsweredWhenGone
  <2>1. killer[h] \in {"none", "started", "skipped", "destroy"}
    BY HandleFacts DEF LifeOK
  <2> QED
    BY <2>1 DEF IInv, AnswersOK, Unanswered
<1> QED
  BY <1>1, Invariance, PTL
=============================================================================
