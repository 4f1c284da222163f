----------------------------- MODULE TapProducer -----------------------------
(***************************************************************************)
(* One vbucket on its way to another node: the TAP producer of ep-engine,  *)
(* the connection, and what the consumer at the other end makes of the     *)
(* stream.  The producer walks the vbucket's checkpoints with a cursor,    *)
(* keeps a log of what was sent and not yet acknowledged, sends again what *)
(* was refused or lost with the connection, and sends the whole vbucket    *)
(* (backfill) if the checkpoint that the consumer asks for is not in       *)
(* memory any more.  A takeover ends with the source dead and the copy     *)
(* active.                                                                 *)
(*                                                                         *)
(* ns_server asks the copy for its last closed checkpoint and connects     *)
(* with it, either after it made the source forget the name of the         *)
(* producer ("fresh") or, as other clients do, while the old producer is   *)
(* kept alive ("grab").                                                    *)
(*                                                                         *)
(* A mutation is a number and every mutation has a key of its own.         *)
(* CheckpointManager has what is left out here of the checkpoints.  Acks   *)
(* and checkpoint messages are supported by both sides; dump mode,         *)
(* registered clients, flush, no-ops and changes of the vbucket filter are *)
(* not modelled.  An action is a section under the producer's queueLock,   *)
(* with the part of walkTapQueue that sends the message.                   *)
(***************************************************************************)
EXTENDS Integers, Sequences, SequencesExt, FiniteSets

CONSTANTS
  Modes,        \* "replica", "takeover": what the connection is for
  Kinds,        \* "fresh", "grab": how it is opened again
  MaxItem,      \* bound on the mutations, numbered from 1
  ColdItems,    \* mutations whose value may not be in memory
  MaxChk,       \* bound on the checkpoint ids; the first is 2
  MaxNacks,     \* bound on the messages that the consumer refuses
  MaxDrops,     \* bound on the lost connections
  AckWindow,    \* tap_ack_window_size
  AckInterval,  \* tap_ack_interval
  SeqModulus,   \* 2^32
  MaxTakeoverLog, \* MAX_TAKEOVER_TAP_LOG_SIZE
  Followed      \* lapses after which a behaviour is followed further

ASSUME ModesAssumption == /\ Modes \subseteq {"replica", "takeover"} /\ Modes # {}
                          /\ Kinds \subseteq {"fresh", "grab"}
                          /\ Followed \subseteq {"late", "stale", "replayed"}
ASSUME BoundsAssumption ==
  /\ {MaxItem, MaxChk, MaxNacks, MaxDrops} \subseteq Nat
  /\ MaxTakeoverLog \in Nat \ {0, 1}
  /\ {AckWindow, AckInterval, SeqModulus} \subseteq Nat \ {0}
  /\ ColdItems \subseteq 1..MaxItem

VARIABLES
  mode,   \* what the producer is for
  src,    \* the vbucket: state, checkpoints, the oldest in memory, the cursor
  writer, \* a thread has seen the vbucket active and is yet to queue its mutation
  tap,    \* the producer
  tasks,  \* backfill tasks of the producer, and of one that had its name
  toC,    \* messages to the consumer
  toP,    \* acks and nacks to the producer
  copy,   \* the vbucket at the consumer; what it has is queued there as well
  used,   \* what is bounded: nacks and lost connections
  lapse   \* history: what happened that the protocol does not cover

vars == <<mode, src, writer, tap, tasks, toC, toP, copy, used, lapse>>
-----------------------------------------------------------------------------
(***************************************************************************)
(* The checkpoints of the source, one after the other: each has a dummy,   *)
(* its start, its mutations and, once it is closed, its end.  Every entry  *)
(* has the id of its checkpoint.                                           *)
(***************************************************************************)
Entry(ev, id, n) == [ev |-> ev, chk |-> id, n |-> n]
Opened(id) == <<Entry("dummy", id, 0), Entry("start", id, 0)>>

Written == {src.entries[i].n : i \in {j \in DOMAIN src.entries : src.entries[j].ev = "item"}}
OpenId == src.entries[Len(src.entries)].chk
Beginning(id) == CHOOSE i \in DOMAIN src.entries : src.entries[i] = Entry("dummy", id, 0)
InMemory(id) == id \in src.first..OpenId
ChkAt(i) == src.entries[i].chk

\* hasNext.
HasNext(s) == s.cursor \in 1..(Len(s.entries) - 1)

\* Where nextItem moves the cursor: a dummy is stepped over.
NextPos == IF src.entries[src.cursor + 1].ev = "dummy" THEN src.cursor + 2 ELSE src.cursor + 1

\* isLastMutationItemInCheckpoint.
IsLastItem(i) == i = Len(src.entries) \/ src.entries[i + 1].ev = "end"

\* The items in the first i entries.
ItemsUpTo(i) == {src.entries[j].n : j \in {k \in 1..i : src.entries[k].ev = "item"}}
-----------------------------------------------------------------------------
(***************************************************************************)
(* The producer.                                                           *)
(***************************************************************************)
\* The start or the end of the checkpoint n.
Message(ev, n) == [ev |-> ev, n |-> n]
Opaques == {"auto_nack", "checkpoint_sync", "initial_stream", "close_backfill"}
Highest == SeqModulus - 1
InitialSeqno == 1

\* A backfill task: its visit of the vbucket, what it takes from memory, and
\* the task it leaves behind for what is only on disk.
NewTask == [own |-> TRUE, visited |-> FALSE, completed |-> FALSE, disk |-> FALSE,
            mem |-> <<>>, cold |-> <<>>]

NoTap ==
  [exists |-> FALSE, connected |-> FALSE, reconnected |-> FALSE, disconnect |-> FALSE,
   suspended |-> FALSE,
   high |-> <<>>, low |-> <<>>, checkpointMsgs |-> <<>>, queue |-> <<>>, fetched |-> <<>>,
   jobs |-> <<>>, log |-> <<>>,
   seqno |-> InitialSeqno, seqnoReceived |-> InitialSeqno - 1,
   isLastAckSucceed |-> FALSE, isSeqNumRotated |-> FALSE,
   opaqueMsgCounter |-> 0, checkpointMsgCounter |-> 0,
   lastSeqNum |-> 0, lastItem |-> FALSE, atEnd |-> FALSE,
   doRunBackfill |-> FALSE, backfillCompleted |-> TRUE, pendingBackfill |-> 0,
   diskBackfill |-> 0, backfillVBucket |-> FALSE, takeOverCompletionPhase |-> FALSE,
   checked |-> 0]

Init ==
  /\ mode \in Modes
  /\ src = [state |-> "active", entries |-> Opened(2), first |-> 2, cursor |-> 0]
  /\ writer = FALSE
  /\ tap = NoTap
  /\ tasks = <<>>
  /\ toC = <<>> /\ toP = <<>>
  /\ copy = [state |-> "replica", open |-> 0, closed |-> FALSE, backfill |-> FALSE, has |-> {}]
  /\ used = [nacks |-> 0, drops |-> 0]
  /\ lapse = {}

Regular == lapse \subseteq Followed

BackfillQueueEmpty(t) == t.fetched = <<>> /\ t.jobs = <<>> /\ t.queue = <<>>
EmptyQueue(t, s) == BackfillQueueEmpty(t) /\ ~HasNext(s)
Idle(t, s) == /\ EmptyQueue(t, s) /\ t.log = <<>>
              /\ t.low = <<>> /\ t.high = <<>> /\ t.checkpointMsgs = <<>>
\* Mutant: what is still to come from disk is forgotten.
IsPendingInMemory(t) == t.doRunBackfill \/ t.pendingBackfill > 0
IsPendingBackfill(t) == t.doRunBackfill \/ t.pendingBackfill > 0 \/ t.diskBackfill > 0
MayCompleteTakeover(t, s) == mode = "takeover" /\ t.backfillCompleted /\ EmptyQueue(t, s)

\* checkBackfillCompletion.
CheckBackfill(t) ==
  IF ~t.backfillCompleted /\ ~IsPendingBackfill(t) /\ BackfillQueueEmpty(t) /\ t.log = <<>>
  THEN [t EXCEPT !.backfillCompleted = TRUE, !.backfillVBucket = FALSE,
                 !.high = IF t.backfillVBucket THEN Append(@, "close_backfill") ELSE @]
  ELSE t

\* Mutant: a producer in its completion phase stays connected.
DisconnectBefore(t, s) ==
  IF MayCompleteTakeover(t, s) /\ Idle(t, s) /\ ~t.takeOverCompletionPhase
  THEN [t EXCEPT !.disconnect = TRUE] ELSE t

\* completeBackfillCommon.
DisconnectIfIdle(t, s) ==
  IF MayCompleteTakeover(t, s) /\ Idle(t, s) THEN [t EXCEPT !.disconnect = TRUE] ELSE t

WindowIsFull(t) ==
  LET limit == AckWindow * AckInterval
  IN  IF t.seqno >= t.seqnoReceived THEN t.seqno - t.seqnoReceived > limit
                                    ELSE Highest - t.seqnoReceived + t.seqno > limit

\* ++seqno of an unsigned 32-bit number.
Spend(t) == [t EXCEPT !.seqno = (@ + 1) % SeqModulus]

\* addTapLogElement.
Logged(t, ev, n) == [t EXCEPT !.log = Append(@, [seqno |-> t.seqno, ev |-> ev, n |-> n])]

\* requestAck: what remains of the producer when the message has been sent...
AckRequested(t, ev) ==
  LET after == Spend([t EXCEPT !.lastSeqNum = IF ev = "item" THEN t.seqno ELSE @])
  IN  IF after.seqno = 0 THEN [after EXCEPT !.isSeqNumRotated = TRUE, !.seqno = 1] ELSE after

\* ... and whether the consumer is to answer it.
IsExplicit(t, s, ev) ==
  \/ ev # "item" \/ t.lastItem \/ t.atEnd
  \/ (AckRequested(t, ev).seqno - 1) % AckInterval = 0
  \/ ~t.backfillCompleted /\ BackfillQueueEmpty(t)
  \/ EmptyQueue(t, s)

\* The message ev is logged and sent; s is the source after the step.
Send(t, s, ev, n) ==
  LET logged == Logged(t, ev, n)
  IN  /\ tap' = AckRequested(logged, ev)
      /\ src' = s
      /\ toC' = Append(toC, [seqno |-> t.seqno, ev |-> ev, n |-> n,
                             ack |-> IsExplicit(logged, s, ev)])
-----------------------------------------------------------------------------
(***************************************************************************)
(* walkTapQueue, called while the connection is writable: the events of    *)
(* high priority, the start of a backfill, checkpoint messages, what came  *)
(* from disk, and then the queue and the checkpoints.                      *)
(***************************************************************************)
Walks == /\ Regular /\ tap.connected /\ ~tap.disconnect /\ ~tap.suspended
         /\ ~WindowIsFull(tap)

SendHighPriority ==
  /\ Walks
  /\ tap.high # <<>>
  /\ LET ev == Head(tap.high)
         t  == [tap EXCEPT !.high = Tail(@), !.opaqueMsgCounter = @ + IF ev \in Opaques THEN 1 ELSE 0]
     IN  Send(Spend(t), src, ev, 0)
  /\ UNCHANGED <<mode, writer, tasks, toP, copy, used, lapse>>

\* Nothing else is sent until the opaque messages are acknowledged.
WalksOn == Walks /\ tap.high = <<>> /\ tap.opaqueMsgCounter = 0

RunBackfill ==
  /\ WalksOn
  /\ tap.doRunBackfill
  /\ tap' = [tap EXCEPT !.doRunBackfill = FALSE, !.pendingBackfill = @ + 1]
  /\ tasks' = Append(tasks, NewTask)
  /\ UNCHANGED <<mode, src, writer, toC, toP, copy, used, lapse>>

SendCheckpointMessage ==
  /\ WalksOn /\ ~tap.doRunBackfill
  /\ tap.checkpointMsgs # <<>>
  /\ LET msg == Head(tap.checkpointMsgs)
     IN  Send([tap EXCEPT !.checkpointMsgs = Tail(@), !.checkpointMsgCounter = @ + 1],
              src, msg.ev, msg.n)
  /\ UNCHANGED <<mode, writer, tasks, toP, copy, used, lapse>>

SendFetched ==
  /\ WalksOn /\ ~tap.doRunBackfill /\ tap.checkpointMsgs = <<>>
  /\ tap.fetched # <<>>
  /\ Send([tap EXCEPT !.fetched = Tail(@)], src, "item", Head(tap.fetched))
  /\ UNCHANGED <<mode, writer, tasks, toP, copy, used, lapse>>

\* The item n, taken from the queue: its value is sent if it is in memory,
\* and is fetched in the background if it is not.
SendOrFetch(t, s, n) ==
  \/ Send(t, s, "item", n)
  \/ /\ n \in ColdItems
     /\ tap' = [t EXCEPT !.jobs = Append(@, n)]
     /\ src' = s
     /\ UNCHANGED toC

WalksItems == /\ WalksOn /\ ~tap.doRunBackfill /\ tap.checkpointMsgs = <<>> /\ tap.fetched = <<>>
              /\ tap.queue # <<>> \/ HasNext(src)
              /\ tap.checkpointMsgCounter = 0

SendQueued ==
  /\ WalksItems
  /\ tap.queue # <<>>
  /\ SendOrFetch([tap EXCEPT !.queue = Tail(@)], src, Head(tap.queue))
  /\ UNCHANGED <<mode, writer, tasks, toP, copy, used, lapse>>

SeqnoAcked(t) == IF t.seqnoReceived = 0 THEN 0
                 ELSE IF t.isLastAckSucceed THEN t.seqnoReceived ELSE t.seqnoReceived - 1

\* Mutant: items that are being fetched do not hold the end back.
MayEndOnceAcked(t) == t.lastSeqNum <= SeqnoAcked(t)

MayEndCheckpoint(t) == t.lastSeqNum <= SeqnoAcked(t) /\ t.jobs = <<>> /\ t.fetched = <<>>

\* The cursor reads the checkpoints once the backfill is completed.  The end
\* of a checkpoint is sent when all that came before it is acknowledged.
ReadCheckpoint ==
  LET t == CheckBackfill(tap)
      e == src.entries[NextPos]
      s == [src EXCEPT !.cursor = NextPos]
  IN  /\ WalksItems
      /\ tap.queue = <<>> /\ t.backfillCompleted
      /\ \/ e.ev = "item" /\ SendOrFetch([t EXCEPT !.lastItem = IsLastItem(NextPos)], s, e.n)
         \/ /\ e.ev = "start"
            /\ tap' = [t EXCEPT !.checkpointMsgs = Append(@, Message(e.ev, e.chk)), !.atEnd = FALSE]
            /\ src' = s
            /\ UNCHANGED toC
         \/ /\ e.ev = "end"
            /\ IF MayEndCheckpoint(t)
               THEN /\ tap' = [t EXCEPT !.checkpointMsgs = Append(@, Message(e.ev, e.chk)), !.atEnd = TRUE]
                    /\ src' = s
               ELSE tap' = [t EXCEPT !.atEnd = TRUE] /\ UNCHANGED src
            /\ UNCHANGED toC
      /\ UNCHANGED <<mode, writer, tasks, toP, copy, used, lapse>>

\* checkDumpOrTakeOverCompletion: with nothing left to send the source goes
\* dead, and the copy is told to become active once nothing else is waiting
\* for its ack.  The connection asks again whenever it is woken; what it
\* spends a sequence number on for nothing is counted once for a log.  That
\* it closes the connection is left to the last ack, which always does.
CompleteTakeover ==
  LET t    == CheckBackfill(tap)
      dies == src.state = "active" /\ Len(tap.log) + 1 < MaxTakeoverLog
      s    == IF dies THEN [src EXCEPT !.state = "dead"] ELSE src
      popped == Spend([t EXCEPT !.low = Tail(@),
                                !.takeOverCompletionPhase = @ \/ dies])
  IN  /\ WalksOn /\ ~tap.doRunBackfill /\ tap.checkpointMsgs = <<>>
      /\ mode = "takeover"
      /\ MayCompleteTakeover(t, src)
      /\ t.low # <<>>
      /\ \/ t.log = <<>> /\ Send(popped, s, "set_active", 0)
         \/ /\ t.log # <<>> /\ (tap.checked # Len(tap.log) \/ dies)
            /\ tap' = [popped EXCEPT !.low = Append(@, "set_active"), !.checked = Len(tap.log)]
            /\ src' = s
            /\ UNCHANGED toC
      /\ UNCHANGED <<mode, writer, tasks, toP, copy, used, lapse>>
-----------------------------------------------------------------------------
(***************************************************************************)
(* What runs in the dispatchers: background fetches and backfills.  A task *)
(* knows the producer by its name and finds whichever producer has it; only*)
(* the items from disk carry the token of the connection.                  *)
(***************************************************************************)
BgFetchDone ==
  /\ Regular
  /\ tap.jobs # <<>>
  /\ tap' = [tap EXCEPT !.jobs = Tail(@), !.fetched = Append(@, Head(tap.jobs))]
  /\ UNCHANGED <<mode, src, writer, tasks, toC, toP, copy, used, lapse>>

\* visitBucket: the cursor is set to the open checkpoint and then the hash
\* table is read.  The values of cold are left to the task that reads the disk.
Visit(i) ==
  /\ Regular
  /\ ~tasks[i].visited
  /\ \E cold \in SUBSET (ColdItems \cap Written) :
       tasks' = [tasks EXCEPT ![i] =
                   [@ EXCEPT !.visited = TRUE, !.disk = Written # {},
                             !.mem = SetToSeq(Written \ cold), !.cold = SetToSeq(cold)]]
  /\ src' = [src EXCEPT !.cursor = Beginning(OpenId)]
  /\ tap' = [tap EXCEPT !.diskBackfill = IF Written # {} THEN @ + 1 ELSE @]
  /\ lapse' = lapse \cup IF tasks[i].own THEN {} ELSE {"stale"}
  /\ UNCHANGED <<mode, writer, toC, toP, copy, used>>

Finished(task) == task.completed /\ ~task.disk
Updated(i, task) ==
  IF Finished(task) THEN SubSeq(tasks, 1, i - 1) \o SubSeq(tasks, i + 1, Len(tasks))
                    ELSE [tasks EXCEPT ![i] = task]

\* complete: the items in memory are queued and the backfill counts as done.
Complete(i) ==
  /\ Regular
  /\ tasks[i].visited /\ ~tasks[i].completed
  /\ \E valid \in {TRUE} \cup {tasks[i].own} :
       LET queued == IF valid THEN [tap EXCEPT !.queue = @ \o tasks[i].mem] ELSE tap
       IN  tap' = DisconnectIfIdle(
                    [queued EXCEPT !.pendingBackfill = IF @ > 0 THEN @ - 1 ELSE 0], src)
  /\ tasks' = Updated(i, [tasks[i] EXCEPT !.completed = TRUE])
  /\ lapse' = lapse \cup IF ~tasks[i].own /\ tap.pendingBackfill > 0 THEN {"stale"} ELSE {}
  /\ UNCHANGED <<mode, src, writer, toC, toP, copy, used>>

\* BackfillDiskLoad; the items of an older producer are thrown away.
LoadFromDisk(i) ==
  /\ Regular
  /\ tasks[i].disk
  /\ LET accepted == tasks[i].own \/ tap.reconnected
     IN  tap' = DisconnectIfIdle(
                  [tap EXCEPT !.fetched = IF accepted THEN @ \o tasks[i].cold ELSE @,
                              !.diskBackfill = IF @ > 0 THEN @ - 1 ELSE 0], src)
  /\ tasks' = Updated(i, [tasks[i] EXCEPT !.disk = FALSE])
  /\ lapse' = lapse \cup IF ~tasks[i].own /\ tap.diskBackfill > 0 THEN {"stale"} ELSE {}
  /\ UNCHANGED <<mode, src, writer, toC, toP, copy, used>>

TaskStep(i) == Visit(i) \/ Complete(i) \/ LoadFromDisk(i)
-----------------------------------------------------------------------------
(***************************************************************************)
(* processAck.                                                             *)
(***************************************************************************)
\* An element of the log goes back to where it came from.
Requeued(t, e) ==
  CASE e.ev \in Opaques \/ e.ev = "set_pending" -> [t EXCEPT !.high = Append(@, e.ev)]
    [] e.ev = "set_active"         -> [t EXCEPT !.low = Append(@, e.ev)]
    [] e.ev \in {"start", "end"}   -> [t EXCEPT !.checkpointMsgs = Append(@, Message(e.ev, e.n))]
    [] e.ev = "item"               -> [t EXCEPT !.queue = Append(@, e.n), !.lastSeqNum = Highest]

\* Mutant: checkpoint messages are not counted down.
OpaquesUncounted(t, e) ==
  [t EXCEPT !.opaqueMsgCounter = @ - IF e.ev \in Opaques THEN 1 ELSE 0]

\* It does not count as unanswered any more.
Uncounted(t, e) ==
  [t EXCEPT !.opaqueMsgCounter = @ - IF e.ev \in Opaques THEN 1 ELSE 0,
            !.checkpointMsgCounter = @ - IF e.ev \in {"start", "end"} THEN 1 ELSE 0]

\* Where the log has the number s, 0 if it does not.
LogIndex(s) == SelectInSeq(tap.log, LAMBDA e : e.seqno = s)

\* What every answer does before its status is looked at.
Answered(s) ==
  [tap EXCEPT !.seqnoReceived = s, !.isLastAckSucceed = FALSE,
              !.lastSeqNum = IF tap.isSeqNumRotated /\ s < tap.seqnoReceived THEN 0 ELSE @,
              !.isSeqNumRotated = @ /\ s >= tap.seqnoReceived]

\* What is left of the log behind its i-th element.
After(i) == SubSeq(tap.log, i + 1, Len(tap.log))

\* An ack is for its message and for all that were sent before it.
ReceiveAck ==
  /\ Regular /\ tap.connected /\ ~tap.disconnect
  /\ toP # <<>> /\ Head(toP).ok
  /\ LET i == LogIndex(Head(toP).seqno)
         t == Answered(Head(toP).seqno)
         acked == [Uncounted(t, tap.log[i]) EXCEPT
                     !.log = After(i), !.isLastAckSucceed = TRUE,
                     !.atEnd = @ /\ tap.log[i].ev # "end"]
     IN  tap' = DisconnectIfIdle(CheckBackfill(IF i = 0 THEN t ELSE acked), src)
  /\ toP' = Tail(toP)
  /\ UNCHANGED <<mode, src, writer, tasks, toC, copy, used, lapse>>

\* The consumer has no room: the message is to be sent again, later.
ReceiveNack ==
  /\ Regular /\ tap.connected /\ ~tap.disconnect
  /\ toP # <<>> /\ ~Head(toP).ok
  /\ LET i == LogIndex(Head(toP).seqno)
         t == [Answered(Head(toP).seqno) EXCEPT !.suspended = @ \/ ~tap.takeOverCompletionPhase]
     IN  tap' = IF i = 0 THEN [t EXCEPT !.log = <<>>]
                ELSE [Requeued(Uncounted(t, tap.log[i]), tap.log[i]) EXCEPT !.log = After(i)]
  /\ toP' = Tail(toP)
  /\ UNCHANGED <<mode, src, writer, tasks, toC, copy, used, lapse>>

\* TapResumeCallback.
Resume ==
  /\ Regular /\ tap.suspended
  /\ tap' = [tap EXCEPT !.suspended = FALSE]
  /\ UNCHANGED <<mode, src, writer, tasks, toC, toP, copy, used, lapse>>
-----------------------------------------------------------------------------
(***************************************************************************)
(* The consumer.                                                           *)
(***************************************************************************)
\* What the vbucket becomes: an active vbucket ignores the checkpoints, and
\* one that waits for its next checkpoint queues no mutation.
Applied(msg) ==
  CASE msg.ev = "initial_stream" -> [copy EXCEPT !.has = {}, !.open = 0, !.closed = FALSE,
                                                 !.backfill = TRUE]
    [] msg.ev = "close_backfill" -> [copy EXCEPT !.backfill = FALSE]
    [] msg.ev = "set_pending"    -> [copy EXCEPT !.state = "pending"]
    [] msg.ev = "set_active"     -> [copy EXCEPT !.state = "active"]
    [] msg.ev = "start" /\ copy.state # "active" ->
         [copy EXCEPT !.open = msg.n, !.closed = FALSE, !.backfill = FALSE]
    [] msg.ev = "end" /\ copy.state # "active" ->
         [copy EXCEPT !.closed = @ \/ copy.open = msg.n]
    [] msg.ev = "item" /\ (copy.state = "active" \/ copy.backfill \/ ~copy.closed) ->
         [copy EXCEPT !.has = @ \cup {msg.n}]
    [] OTHER -> copy

Receive ==
  /\ Regular /\ toC # <<>>
  /\ LET msg == Head(toC)
         answer(ok) == Append(toP, [seqno |-> msg.seqno, ok |-> ok])
     IN  \/ /\ copy' = Applied(msg)
            /\ toP' = IF msg.ack THEN answer(TRUE) ELSE toP
            /\ UNCHANGED used
         \/ /\ msg.ev = "item" /\ used.nacks < MaxNacks
            /\ used' = [used EXCEPT !.nacks = @ + 1]
            /\ toP' = answer(FALSE)
            /\ UNCHANGED copy
  /\ toC' = Tail(toC)
  /\ UNCHANGED <<mode, src, writer, tap, tasks, lapse>>
-----------------------------------------------------------------------------
(***************************************************************************)
(* Connections.  ns_server asks the copy for its last closed checkpoint    *)
(* and wants the stream from the next one.                                 *)
(***************************************************************************)
ResumePoint == IF copy.open = 0 THEN 1 ELSE copy.open + IF copy.closed THEN 1 ELSE 0

Drop ==
  /\ Regular /\ tap.connected /\ ~tap.disconnect /\ used.drops < MaxDrops
  /\ used' = [used EXCEPT !.drops = @ + 1]
  /\ tap' = [tap EXCEPT !.connected = FALSE]
  /\ toC' = <<>> /\ toP' = <<>>
  /\ UNCHANGED <<mode, src, writer, tasks, copy, lapse>>

\* evaluateFlags.
Flagged(t) == [t EXCEPT !.high = @ \o <<"auto_nack", "checkpoint_sync">>]

\* What a queue of events has of the set evs, in its order.
Only(events, evs) ==
  LET only[i \in 0..Len(events)] ==
        IF i = 0 THEN <<>>
        ELSE IF events[i] \in evs THEN Append(only[i - 1], events[i]) ELSE only[i - 1]
  IN  only[Len(events)]

\* setVBucketFilter: the states of a takeover are announced anew.
Filtered(t) ==
  IF mode = "takeover"
  THEN LET plain == {"auto_nack", "checkpoint_sync"}
       IN  [t EXCEPT !.high = Only(@, plain) \o <<"set_pending">> \o Only(@, Opaques \ plain),
                     !.low  = <<"set_active">>]
  ELSE t

\* registerTAPCursor: the checkpoint is in memory, or all has to be sent.
\* In memory, a cursor that is in the checkpoint already stays where it is.
ToBackfill(t) == ~t.backfillVBucket /\ ~InMemory(ResumePoint)
Registered(t) ==
  IF ToBackfill(t)
  THEN [t EXCEPT !.high = Append(@, "initial_stream"), !.doRunBackfill = TRUE,
                 !.backfillCompleted = FALSE, !.backfillVBucket = TRUE]
  ELSE t
RegisteredCursor(t, cursor) ==
  CASE t.backfillVBucket -> cursor
    [] ToBackfill(t)     -> 0
    [] OTHER -> IF cursor # 0 /\ ChkAt(cursor) = ResumePoint THEN cursor ELSE Beginning(ResumePoint)

\* Mutant: the log is cleared and nothing is sent again.
ForgotLog(t) == [t EXCEPT !.log = <<>>, !.seqnoReceived = t.seqno - 1]

\* rollback: what was not acknowledged is to be sent again.
RolledBack(t) ==
  LET back[i \in 0..Len(t.log)] ==
        IF i = 0 THEN t ELSE Requeued(Uncounted(back[i - 1], t.log[i]), t.log[i])
  IN  [back[Len(t.log)] EXCEPT !.log = <<>>, !.seqnoReceived = t.seqno - 1]

MayConnect == Regular /\ ~tap.connected /\ copy.state # "active"

\* The name is new, or ns_server made the source forget it: the cursor went
\* with it, and the tasks of the producer that had the name go on for this one.
ConnectFresh ==
  /\ MayConnect
  /\ tap.exists => "fresh" \in Kinds
  /\ LET t == Filtered(Flagged([NoTap EXCEPT !.exists = TRUE, !.connected = TRUE]))
     IN  /\ tap' = Registered(t)
         /\ src' = [src EXCEPT !.cursor = RegisteredCursor(t, 0)]
  /\ tasks' = [i \in DOMAIN tasks |-> [tasks[i] EXCEPT !.own = FALSE]]
  /\ UNCHANGED <<mode, writer, toC, toP, copy, used, lapse>>

\* A checkpoint start that is sent again before the items of a new backfill
\* makes the copy resume from a checkpoint that it does not have.
ConnectGrab ==
  /\ MayConnect
  /\ tap.exists /\ "grab" \in Kinds
  /\ ~(MayCompleteTakeover(tap, src) /\ Idle(tap, src))
  /\ LET t == Filtered(Flagged([tap EXCEPT !.connected = TRUE, !.reconnected = TRUE]))
     IN  /\ tap' = RolledBack(Registered(t))
         /\ src' = [src EXCEPT !.cursor = RegisteredCursor(t, @)]
         /\ lapse' = lapse \cup IF ToBackfill(t) /\ \E msg \in ToSet(t.checkpointMsgs \o t.log) : msg.ev = "start"
                     THEN {"replayed"} ELSE {}
  /\ UNCHANGED <<mode, writer, tasks, toC, toP, copy, used>>
-----------------------------------------------------------------------------
(***************************************************************************)
(* The vbucket goes on at the source.                                      *)
(***************************************************************************)
\* A write checks the state of the vbucket first, and holds no lock of it.
WriteBegins ==
  /\ Regular /\ src.state = "active" /\ ~writer /\ Cardinality(Written) < MaxItem
  /\ writer' = TRUE
  /\ UNCHANGED <<mode, src, tap, tasks, toC, toP, copy, used, lapse>>

WriteQueued ==
  /\ Regular /\ writer
  /\ writer' = FALSE
  /\ src' = [src EXCEPT !.entries = Append(@, Entry("item", OpenId, Cardinality(Written) + 1))]
  /\ lapse' = lapse \cup IF copy.state = "active" \/ \E msg \in ToSet(toC) : msg.ev = "set_active"
              THEN {"late"} ELSE {}
  /\ UNCHANGED <<mode, tap, tasks, toC, toP, copy, used>>

CloseCheckpoint ==
  /\ Regular /\ src.state = "active" /\ OpenId < MaxChk
  /\ src.entries[Len(src.entries)].ev = "item"
  /\ src' = [src EXCEPT !.entries = Append(@, Entry("end", OpenId, 0)) \o Opened(OpenId + 1)]
  /\ UNCHANGED <<mode, writer, tap, tasks, toC, toP, copy, used, lapse>>

\* The oldest checkpoint is freed once no cursor is in it.
FreeCheckpoint ==
  /\ Regular /\ src.first < OpenId
  /\ src.cursor # 0 => ChkAt(src.cursor) > src.first
  /\ src' = [src EXCEPT !.first = @ + 1]
  /\ UNCHANGED <<mode, writer, tap, tasks, toC, toP, copy, used, lapse>>
-----------------------------------------------------------------------------
Walk == \/ SendHighPriority \/ RunBackfill \/ SendCheckpointMessage \/ SendFetched
        \/ SendQueued \/ ReadCheckpoint \/ CompleteTakeover

Answer == ReceiveAck \/ ReceiveNack

Connect == ConnectFresh \/ ConnectGrab

Next == \/ Walk \/ BgFetchDone \/ \E i \in DOMAIN tasks : TaskStep(i)
        \/ Answer \/ Resume \/ Receive
        \/ Drop \/ Connect
        \/ WriteBegins \/ WriteQueued \/ CloseCheckpoint \/ FreeCheckpoint

Spec == Init /\ [][Next]_vars

\* Threads run, messages arrive, a suspension ends, and ns_server connects.
FairSpec == /\ Spec
            /\ WF_vars(Walk) /\ WF_vars(BgFetchDone) /\ WF_vars(\E i \in DOMAIN tasks : TaskStep(i))
            /\ WF_vars(Answer) /\ WF_vars(Resume) /\ WF_vars(Receive)
            /\ WF_vars(Connect) /\ WF_vars(WriteQueued)
-----------------------------------------------------------------------------
\* The cursor never leaves an item behind: what it has passed is with the
\* copy, or is still to be sent, or waits for its ack, or is being fetched or
\* backfilled.  While a backfill has not begun there is no cursor.
NothingLeftBehind ==
  src.cursor # 0 /\ tap.exists =>
    ItemsUpTo(src.cursor) \subseteq
      copy.has \cup ToSet(tap.queue) \cup ToSet(tap.fetched) \cup ToSet(tap.jobs)
      \cup {tap.log[i].n : i \in {j \in DOMAIN tap.log : tap.log[j].ev = "item"}}
      \cup UNION {ToSet(task.mem) \cup ToSet(task.cold) : task \in ToSet(tasks)}

\* The copy has every mutation of the checkpoints before the one from which
\* it would be resumed: a stream can be opened again at any time.
ResumePointSound ==
  \A i \in DOMAIN src.entries :
    src.entries[i].ev = "item" /\ ChkAt(i) < ResumePoint => src.entries[i].n \in copy.has

\* When the copy becomes active the source is dead and the copy has every
\* mutation that was accepted.
ActiveIsComplete ==
  copy.state = "active" /\ lapse = {} => src.state = "dead" /\ Written \subseteq copy.has

\* In the end the copy has every mutation; a takeover ends with the copy
\* active and with its connection lost or told to close (doDisconnect).
CatchesUp ==
  <>[](\/ lapse # {}
       \/ /\ Written \subseteq copy.has
          /\ mode = "takeover" => /\ copy.state = "active"
                                  /\ tap.disconnect \/ ~tap.connected)
=============================================================================
