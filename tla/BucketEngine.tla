----------------------------- MODULE BucketEngine -----------------------------
(***************************************************************************)
(* bucket_engine: the engine that memcached loads, which creates, selects  *)
(* and deletes buckets and passes every other call on to the engine of the *)
(* connection's bucket.                                                    *)
(*                                                                         *)
(* A handle (proxied_engine_handle_t) lives as long as something refers to *)
(* it, which its refcount tells; its engine may be destroyed once nobody   *)
(* is inside, which its clients counter tells.  Both are atomic counters,  *)
(* and so is the state: worker threads, the thread that shuts a bucket     *)
(* down and the engine's own threads take no common lock.  An action is    *)
(* one access to a shared field, or one section under engines_mutex or     *)
(* shutdown.mutex.                                                         *)
(*                                                                         *)
(* Of memcached the module has the life of a connection: the states that a *)
(* call can leave it in, the references that the engine holds on it, and   *)
(* pending_io.  A worker thread keeps its own lock while it serves a       *)
(* connection; each connection here has a worker thread of its own.        *)
(* There is no default_engine (ns_server starts memcached with             *)
(* default_bucket_name), and memory of a freed handle is not used again.   *)
(***************************************************************************)
EXTENDS Integers, FiniteSets

CONSTANTS
  Conns,       \* connections (cookies)
  Admins,      \* those that are authorized to create, select and delete
  Tappers,     \* those that may send TAP_CONNECT
  Names,       \* bucket names
  DefaultName, \* default_bucket_name
  MaxHandles,  \* handles that are ever allocated, numbered in that order
  AutoCreate,  \* auto_create
  None         \* NULL

ASSUME RolesAssumption ==
  /\ IsFiniteSet(Conns) /\ IsFiniteSet(Names) /\ MaxHandles \in Nat
  /\ Admins \subseteq Conns /\ Tappers \subseteq Conns
  /\ DefaultName \in Names
  /\ AutoCreate \in BOOLEAN
  /\ None \notin (1..MaxHandles) \cup Conns

VARIABLES
  engines,     \* the hash table of buckets
  phase,       \* of a handle: unused, up, destroyed (its engine is), freed
  state,       \* RUNNING, STOPPING, STOPPED, NULL
  refcount,    \* references to the handle
  clients,     \* calls into the engine
  cookie,      \* who waits for the deletion
  tapIterator, \* the engine's iterator has been set
  es,          \* a connection's engine_specific
  core,        \* memcached's side of a connection
  worker,      \* what the connection's worker thread is doing
  releaser,    \* the engine's thread that releases a reserved cookie
  killer,      \* a handle's engine_shutdown_thread
  signals,     \* handles whose refcount became 0, not yet broadcast
  shutdown,    \* shutdown of the whole process
  leaked       \* history: calls that left without saying so

handleVars == <<engines, phase, state, refcount, clients, cookie, tapIterator>>
vars == <<handleVars, es, core, worker, releaser, killer, signals, shutdown, leaked>>

States == {"RUNNING", "STOPPING", "STOPPED", "NULL"}
Handles == 1..MaxHandles
HandleOrNone == Handles \cup {None}

\* producer: the engine has a TAP producer for the connection, which will release it.
NoES == [peh |-> None, reserved |-> 0, producer |-> FALSE, connected |-> FALSE, waiting |-> FALSE]
Idle == [op |-> "none", pc |-> "idle", peh |-> None, found |-> None, old |-> None,
         last |-> FALSE, ok |-> TRUE]
NoRelease == [pc |-> "none", peh |-> None]
Closed == [at |-> "closed", refcount |-> 1, pending |-> FALSE]

TypeOK ==
  /\ engines \in [Names -> HandleOrNone]
  /\ phase \in [Handles -> {"unused", "up", "destroyed", "freed"}]
  /\ state \in [Handles -> States]
  /\ refcount \in [Handles -> Nat] /\ clients \in [Handles -> Nat]
  /\ cookie \in [Handles -> Conns \cup {None}]
  /\ tapIterator \in [Handles -> BOOLEAN]
  /\ es \in [Conns -> [peh: HandleOrNone, reserved: Nat, producer: BOOLEAN, connected: BOOLEAN,
                      waiting: BOOLEAN]]
  /\ core \in [Conns -> [at: {"closed", "idle", "tap", "blocked", "pending_close", "immediate_close"},
                         refcount: Nat, pending: BOOLEAN]]
  /\ worker \in [Conns ->
       [op: {"none", "connect", "auth", "select", "delete", "call", "tap", "ship_log", "disconnect"},
        pc: {"idle", "find", "auto_create", "set", "release_old", "release_found", "mark", "stop",
             "entered", "inside", "reserve", "assign", "leave", "left", "maybe", "start_shutdown",
             "returned", "free_es", "close"},
        peh: HandleOrNone, found: HandleOrNone, old: HandleOrNone,
        last: BOOLEAN, ok: BOOLEAN]]
  /\ releaser \in [Conns -> [pc: {"none", "decremented", "released"}, peh: HandleOrNone]]
  /\ killer \in [Handles -> {"none", "started", "destroy", "unlink", "notify", "check", "asleep",
                             "free", "leave", "ended", "skipped"}]
  /\ signals \subseteq Handles
  /\ shutdown \in [pc: {"no", "begin", "wait", "iterate", "done"}, inProgress: BOOLEAN, counter: Nat]
  /\ leaked \in [Handles -> Nat]

Init ==
  /\ engines = [n \in Names |-> None]
  /\ phase = [h \in Handles |-> "unused"]
  /\ state = [h \in Handles |-> "NULL"]
  /\ refcount = [h \in Handles |-> 0] /\ clients = [h \in Handles |-> 0]
  /\ cookie = [h \in Handles |-> None]
  /\ tapIterator = [h \in Handles |-> FALSE]
  /\ es = [c \in Conns |-> NoES]
  /\ core = [c \in Conns |-> Closed]
  /\ worker = [c \in Conns |-> Idle]
  /\ releaser = [c \in Conns |-> NoRelease]
  /\ killer = [h \in Handles |-> "none"]
  /\ signals = {}
  /\ shutdown = [pc |-> "no", inProgress |-> FALSE, counter |-> 0]
  /\ leaked = [h \in Handles |-> 0]
-----------------------------------------------------------------------------
(* References *)

\* retain_handle: the handle if its bucket runs, with one more reference.
Retained(h) == IF h # None /\ state[h] = "RUNNING" THEN h ELSE None
AddRef(h) == IF h = None THEN refcount ELSE [refcount EXCEPT ![h] = @ + 1]

\* release_handle: the broadcast comes after the decrement.
Release(h) ==
  IF h = None
  THEN UNCHANGED <<refcount, signals>>
  ELSE /\ refcount' = [refcount EXCEPT ![h] = @ - 1]
       /\ signals' = IF refcount[h] = 1 THEN signals \cup {h} ELSE signals

\* release_handle broadcasts under shutdown.mutex: sleeping threads look again.
Awake == [h \in Handles |-> IF killer[h] = "asleep" THEN "check" ELSE killer[h]]

Broadcast(h) ==
  /\ h \in signals
  /\ signals' = signals \ {h}
  /\ killer' = Awake
  /\ UNCHANGED <<handleVars, es, core, worker, releaser, shutdown, leaked>>

At(c, pc) == worker[c].pc = pc
Goto(c, pc) == worker' = [worker EXCEPT ![c].pc = pc]

\* The worker threads run until memcached shuts down.
WorkerReady(c) == At(c, "idle") /\ shutdown.pc = "no"
Call(c, op, pc) == worker' = [worker EXCEPT ![c] = [Idle EXCEPT !.op = op, !.pc = pc]]
-----------------------------------------------------------------------------
(* Choosing a bucket: connect, authenticate, select *)

\* handle_connect: the new connection's section, then the default bucket.
Connect(c) ==
  /\ WorkerReady(c) /\ core[c].at = "closed"
  /\ core' = [core EXCEPT ![c].at = "idle"]
  /\ es' = [es EXCEPT ![c].connected = TRUE]
  /\ Call(c, "connect", "find")
  /\ UNCHANGED <<handleVars, releaser, killer, signals, shutdown, leaked>>

\* handle_auth, handle_select_bucket, handle_delete_bucket (first call).  Without
\* auto_create, handle_auth does what handle_select_bucket does.
Command(c, op) ==
  /\ WorkerReady(c) /\ core[c].at = "idle"
  /\ \/ op = "auth" /\ (c \in Admins => AutoCreate)
     \/ op \in {"select", "delete"} /\ c \in Admins
  /\ Call(c, op, "find")
  /\ UNCHANGED <<handleVars, es, core, releaser, killer, signals, shutdown, leaked>>

MayCreate(op) == AutoCreate /\ op \in {"connect", "auth"}

\* find_bucket, under engines_mutex.
FindBucket(c, n) ==
  /\ At(c, "find")
  /\ worker[c].op = "connect" => n = DefaultName
  /\ LET found == Retained(engines[n])
     IN  /\ refcount' = AddRef(found)
         /\ worker' = [worker EXCEPT ![c].found = found,
              ![c].pc = CASE found = None /\ MayCreate(worker[c].op) -> "auto_create"
                          [] worker[c].op = "delete" ->
                               IF found = None THEN "release_found" ELSE "mark"
                          [] OTHER -> "set"]
  /\ UNCHANGED <<engines, phase, state, clients, cookie, tapIterator, es, core, releaser, killer,
                 signals, shutdown, leaked>>

\* create_bucket_UNLOCKED, under engines_mutex: a handle with one reference of
\* its creator (dropped if the caller wants no handle) and one of the table.
\* An engine that does not initialize, or a name that is taken, leaves nothing.
CreateBucket(n, h, keep) ==
  /\ engines[n] = None
  /\ phase[h] = "unused" /\ \A g \in 1..(h - 1) : phase[g] # "unused"
  /\ engines' = [engines EXCEPT ![n] = h]
  /\ phase' = [phase EXCEPT ![h] = "up"]
  /\ state' = [state EXCEPT ![h] = "RUNNING"]
  /\ refcount' = [refcount EXCEPT ![h] = IF keep THEN 2 ELSE 1]

\* handle_create_bucket.
Create(c, n, h) ==
  /\ WorkerReady(c) /\ core[c].at = "idle" /\ c \in Admins
  /\ CreateBucket(n, h, FALSE)
  /\ UNCHANGED <<clients, cookie, tapIterator, es, core, worker, releaser, killer, signals,
                 shutdown, leaked>>

\* handle_connect and handle_auth with auto_create; between find_bucket and
\* this section another connection may have created the bucket.
AutoCreateBucket(c, n) ==
  /\ At(c, "auto_create")
  /\ worker[c].op = "connect" => n = DefaultName
  /\ \/ \E h \in Handles :
          /\ CreateBucket(n, h, TRUE)
          /\ worker' = [worker EXCEPT ![c].found = h, ![c].pc = "set"]
     \/ /\ Goto(c, "set")
        /\ UNCHANGED <<engines, phase, state, refcount>>
  /\ UNCHANGED <<clients, cookie, tapIterator, es, core, releaser, killer, signals, shutdown, leaked>>

\* set_engine_handle: in with the new...
SetEngineHandle(c) ==
  /\ At(c, "set")
  /\ LET new == IF worker[c].op = "delete" THEN None ELSE Retained(worker[c].found)
     IN  /\ es' = [es EXCEPT ![c].peh = new]
         /\ refcount' = AddRef(new)
  /\ worker' = [worker EXCEPT ![c].old = es[c].peh, ![c].pc = "release_old"]
  /\ UNCHANGED <<engines, phase, state, clients, cookie, tapIterator, core, releaser, killer,
                 signals, shutdown, leaked>>

\* ... out with the old.
ReleaseOld(c) ==
  /\ At(c, "release_old")
  /\ Release(worker[c].old)
  /\ worker' = [worker EXCEPT ![c].old = None, ![c].pc = "release_found"]
  /\ UNCHANGED <<engines, phase, state, clients, cookie, tapIterator, es, core, releaser, killer,
                 shutdown, leaked>>

\* The caller of find_bucket gives its reference back.  A client whose bucket
\* is being deleted waits (EWOULDBLOCK).
ReleaseFound(c) ==
  /\ At(c, "release_found")
  /\ Release(worker[c].found)
  /\ worker' = [worker EXCEPT ![c] = Idle]
  /\ core' = IF es[c].waiting THEN [core EXCEPT ![c].at = "blocked"] ELSE core
  /\ UNCHANGED <<engines, phase, state, clients, cookie, tapIterator, es, releaser, killer,
                 shutdown, leaked>>
-----------------------------------------------------------------------------
(* Calls into the engine *)

\* get_engine_handle and try_get_engine_handle count the call first...
Enter(c, h) ==
  /\ clients' = [clients EXCEPT ![h] = @ + 1]
  /\ UNCHANGED <<engines, phase, state, refcount, cookie, tapIterator, es, core, releaser, killer,
                 signals, shutdown, leaked>>

\* Any request, TAP_CONNECT, or another round of the TAP iterator.  A connection
\* without a bucket is disconnected.
Request(c, op) ==
  /\ WorkerReady(c)
  /\ \/ core[c].at = "idle" /\ op = "call"
     \/ core[c].at = "idle" /\ op = "tap" /\ c \in Tappers
     \/ core[c].at = "tap" /\ op = "ship_log"
  /\ es[c].peh # None
  /\ worker' = [worker EXCEPT ![c] = [Idle EXCEPT !.op = op, !.pc = "entered", !.peh = es[c].peh]]
  /\ Enter(c, es[c].peh)

\* Mutant: a call that finds the bucket stopped leaves without a trace.
CheckStateUncounted(c) ==
  /\ At(c, "entered")
  /\ worker' = [worker EXCEPT
       ![c].pc = IF state[worker[c].peh] = "RUNNING" THEN "inside" ELSE "returned",
       ![c].ok = state[worker[c].peh] = "RUNNING"]
  /\ UNCHANGED <<handleVars, es, core, releaser, killer, signals, shutdown, leaked>>

\* Mutant: a bucket that is being stopped still lets calls in.
CheckStopped(c) ==
  /\ At(c, "entered")
  /\ worker' = [worker EXCEPT
       ![c].pc = IF state[worker[c].peh] \in {"RUNNING", "STOPPING"} THEN "inside" ELSE "leave",
       ![c].ok = state[worker[c].peh] \in {"RUNNING", "STOPPING"}]
  /\ UNCHANGED <<handleVars, es, core, releaser, killer, signals, shutdown, leaked>>

\* ... and look at the state then: only a running bucket lets the call in.
CheckState(c) ==
  /\ At(c, "entered")
  /\ worker' = [worker EXCEPT
       ![c].pc = IF state[worker[c].peh] = "RUNNING" THEN "inside" ELSE "leave",
       ![c].ok = state[worker[c].peh] = "RUNNING"]
  /\ UNCHANGED <<handleVars, es, core, releaser, killer, signals, shutdown, leaked>>

\* What the call does in the engine.  The TAP iterator is that of the handle,
\* not of the connection: if another connection's TAP_CONNECT has failed, the
\* shim finds none and leaves without release_engine_handle.
Inside(c) ==
  /\ At(c, "inside")
  /\ LET h == worker[c].peh
         lost == worker[c].op = "ship_log" /\ ~tapIterator[h]
     IN  /\ worker' = [worker EXCEPT
              ![c].pc = CASE lost -> "returned" [] worker[c].op = "tap" -> "reserve" [] OTHER -> "leave",
              ![c].ok = ~lost]
         /\ leaked' = IF lost THEN [leaked EXCEPT ![h] = @ + 1] ELSE leaked
  /\ UNCHANGED <<handleVars, es, core, releaser, killer, signals, shutdown>>

\* Mutant: the reservation is noted though the bucket no longer runs.
ReserveAnyway(c) ==
  /\ At(c, "reserve")
  /\ \E accepted \in BOOLEAN :
       LET h == es[c].peh
           reserves == state[h] = "RUNNING"
       IN  /\ refcount' = IF reserves THEN AddRef(h) ELSE refcount
           /\ es' = [es EXCEPT ![c].reserved = @ + 1, ![c].producer = accepted]
           /\ core' = IF reserves THEN [core EXCEPT ![c].refcount = @ + 1] ELSE core
           /\ worker' = [worker EXCEPT ![c].pc = "assign", ![c].ok = reserves /\ accepted]
  /\ UNCHANGED <<engines, phase, state, clients, cookie, tapIterator, releaser, killer, signals,
                 shutdown, leaked>>

\* The engine reserves the cookie of a TAP connection (bucket_engine_reserve_cookie),
\* unless the bucket no longer runs.  It may reject the request afterwards (a name that
\* is in use, user data that is too short), and then nobody releases the cookie.
ReserveCookie(c) ==
  /\ At(c, "reserve")
  /\ \E accepted \in BOOLEAN :
       LET h == es[c].peh
           reserves == state[h] = "RUNNING"
       IN  /\ refcount' = IF reserves THEN AddRef(h) ELSE refcount
           /\ es' = IF reserves THEN [es EXCEPT ![c].reserved = @ + 1, ![c].producer = accepted]
                    ELSE es
           /\ core' = IF reserves THEN [core EXCEPT ![c].refcount = @ + 1] ELSE core
           /\ worker' = [worker EXCEPT ![c].pc = "assign", ![c].ok = reserves /\ accepted]
  /\ UNCHANGED <<engines, phase, state, clients, cookie, tapIterator, releaser, killer, signals,
                 shutdown, leaked>>

\* bucket_get_tap_iterator keeps what the engine returned.
AssignIterator(c) ==
  /\ At(c, "assign")
  /\ tapIterator' = [tapIterator EXCEPT ![worker[c].peh] = worker[c].ok]
  /\ Goto(c, "leave")
  /\ UNCHANGED <<engines, phase, state, refcount, clients, cookie, es, core, releaser, killer,
                 signals, shutdown, leaked>>

\* handle_delete_bucket is counted as a call while it stops the bucket...
MarkClient(c) ==
  /\ At(c, "mark")
  /\ worker' = [worker EXCEPT ![c].pc = "stop", ![c].peh = worker[c].found]
  /\ Enter(c, worker[c].found)

\* ... which one client can do, who then waits for it.
StopBucket(c) ==
  /\ At(c, "stop")
  /\ LET h == worker[c].peh
         stops == state[h] = "RUNNING"
     IN  /\ state' = IF stops THEN [state EXCEPT ![h] = "STOPPING"] ELSE state
         /\ cookie' = IF stops THEN [cookie EXCEPT ![h] = c] ELSE cookie
         /\ es' = IF stops THEN [es EXCEPT ![c].waiting = TRUE] ELSE es
  /\ Goto(c, "leave")
  /\ UNCHANGED <<engines, phase, refcount, clients, tapIterator, core, releaser, killer, signals,
                 shutdown, leaked>>

\* release_engine_handle.
LeaveEngine(c) ==
  /\ At(c, "leave")
  /\ LET h == worker[c].peh
     IN  /\ clients' = [clients EXCEPT ![h] = @ - 1]
         /\ worker' = [worker EXCEPT ![c].pc = "left", ![c].last = clients[h] = 1]
  /\ UNCHANGED <<engines, phase, state, refcount, cookie, tapIterator, es, core, releaser, killer,
                 signals, shutdown, leaked>>

\* The last one out of a stopping bucket ...
LastOut(c) ==
  /\ At(c, "left")
  /\ Goto(c, IF worker[c].last /\ state[worker[c].peh] = "STOPPING" THEN "maybe" ELSE "returned")
  /\ UNCHANGED <<handleVars, es, core, releaser, killer, signals, shutdown, leaked>>

\* ... looks whether nobody came in (maybe_start_engine_shutdown) ...
MaybeStartShutdown(c) ==
  /\ At(c, "maybe")
  /\ LET h == worker[c].peh
     IN  Goto(c, IF state[h] = "STOPPING" /\ clients[h] = 0 THEN "start_shutdown" ELSE "returned")
  /\ UNCHANGED <<handleVars, es, core, releaser, killer, signals, shutdown, leaked>>

\* ... and starts the thread that shuts it down, unless another has.
StartShutdown(c) ==
  /\ At(c, "start_shutdown")
  /\ LET h == worker[c].peh
     IN  IF state[h] = "STOPPING"
         THEN /\ state' = [state EXCEPT ![h] = "STOPPED"]
              /\ killer' = [killer EXCEPT ![h] = "started"]
         ELSE UNCHANGED <<state, killer>>
  /\ Goto(c, "returned")
  /\ UNCHANGED <<engines, phase, refcount, clients, cookie, tapIterator, es, core, releaser,
                 signals, shutdown, leaked>>

-----------------------------------------------------------------------------
(* Closing a connection *)

\* conn_closing: a connection that the engine still refers to is kept.
Closing(c) ==
  [core EXCEPT ![c].at = IF core[c].refcount > 1 THEN "pending_close" ELSE "immediate_close"]

\* handle_disconnect looks for the connection's bucket: without one, or when
\* the section is gone already, there is nothing to tell an engine.
HandleDisconnect(c) ==
  LET h == es[c].peh
  IN  /\ worker' = [worker EXCEPT ![c] =
           [Idle EXCEPT !.op = "disconnect", !.pc = IF h = None THEN "free_es" ELSE "entered", !.peh = h]]
      /\ clients' = IF h = None THEN clients ELSE [clients EXCEPT ![h] = @ + 1]

\* The client hangs up, or memcached does as it has no bucket.
HangUp(c) ==
  /\ WorkerReady(c) /\ core[c].at \in {"idle", "tap"}
  /\ core' = Closing(c)
  /\ HandleDisconnect(c)
  /\ UNCHANGED <<engines, phase, state, refcount, cookie, tapIterator, es, releaser, killer,
                 signals, shutdown, leaked>>

\* The call returns to memcached.  ENGINE_DISCONNECT (the bucket does not run),
\* TAP_DISCONNECT and a TAP_CONNECT that got no iterator close the connection.
Returned(c) ==
  /\ At(c, "returned")
  /\ CASE worker[c].op = "delete" ->
            /\ Goto(c, IF es[c].peh = worker[c].found THEN "set" ELSE "release_found")
            /\ UNCHANGED <<clients, core>>
       [] worker[c].op = "disconnect" -> Goto(c, "free_es") /\ UNCHANGED <<clients, core>>
       [] OTHER ->
            IF worker[c].ok
            THEN /\ worker' = [worker EXCEPT ![c] = Idle]
                 /\ core' = [core EXCEPT ![c].at = IF worker[c].op = "call" THEN "idle" ELSE "tap"]
                 /\ UNCHANGED clients
            ELSE core' = Closing(c) /\ HandleDisconnect(c)
  /\ UNCHANGED <<engines, phase, state, refcount, cookie, tapIterator, es, releaser, killer,
                 signals, shutdown, leaked>>

\* The rest of handle_disconnect: the section is freed unless the engine holds
\* a reservation; then it is freed by a later call.
FreeES(c) ==
  /\ At(c, "free_es")
  /\ LET frees == es[c].connected /\ es[c].reserved = 0
     IN  /\ es' = IF frees THEN [es EXCEPT ![c] = NoES] ELSE es
         /\ worker' = [worker EXCEPT ![c].pc = "close", ![c].old = IF frees THEN es[c].peh ELSE None]
  /\ UNCHANGED <<handleVars, core, releaser, killer, signals, shutdown, leaked>>

\* It drops the connection's reference.  conn_pending_close goes on to
\* conn_immediate_close when nobody refers to the connection any more, which
\* tells the engine again and frees the connection.
CloseConnection(c) ==
  /\ At(c, "close")
  /\ Release(worker[c].old)
  /\ CASE core[c].at = "immediate_close" ->
            /\ core' = [core EXCEPT ![c] = Closed]
            /\ worker' = [worker EXCEPT ![c] = Idle] /\ UNCHANGED clients
       [] core[c].refcount > 1 ->
            worker' = [worker EXCEPT ![c] = Idle] /\ UNCHANGED <<clients, core>>
       [] OTHER ->
            core' = [core EXCEPT ![c].at = "immediate_close"] /\ HandleDisconnect(c)
  /\ UNCHANGED <<engines, phase, state, cookie, tapIterator, es, releaser, killer, shutdown, leaked>>

\* thread_libevent_process serves a connection of pending_io: one that is being
\* closed tries again, the client that waits for a deletion gets its answer
\* (handle_delete_bucket's second call), others have nothing to do.
ServePending(c) ==
  /\ WorkerReady(c) /\ core[c].pending
  /\ IF core[c].at = "pending_close"
     THEN HandleDisconnect(c) ELSE UNCHANGED <<clients, worker>>
  /\ core' = [core EXCEPT ![c].pending = FALSE,
                          ![c].at = IF @ = "blocked" THEN "idle" ELSE @]
  /\ es' = [es EXCEPT ![c].waiting = FALSE]
  /\ UNCHANGED <<engines, phase, state, refcount, cookie, tapIterator, releaser, killer, signals,
                 shutdown, leaked>>
-----------------------------------------------------------------------------
(* bucket_engine_release_cookie, called by a thread of the engine *)

DropReservation(c) ==
  /\ es[c].reserved > 0 /\ es[c].producer /\ releaser[c].pc = "none"
  /\ es' = [es EXCEPT ![c].reserved = @ - 1, ![c].producer = FALSE]
  /\ releaser' = [releaser EXCEPT ![c] = [pc |-> "decremented", peh |-> es[c].peh]]
  /\ UNCHANGED <<handleVars, core, worker, killer, signals, shutdown, leaked>>

DropReference(c) ==
  /\ releaser[c].pc = "decremented"
  /\ Release(releaser[c].peh)
  /\ releaser' = [releaser EXCEPT ![c] = [pc |-> "released", peh |-> None]]
  /\ UNCHANGED <<engines, phase, state, clients, cookie, tapIterator, es, core, worker, killer,
                 shutdown, leaked>>

\* memcached's release_cookie, under the lock of the connection's thread.
DropConnection(c) ==
  /\ releaser[c].pc = "released" /\ At(c, "idle")
  /\ core' = [core EXCEPT ![c].refcount = @ - 1, ![c].pending = TRUE]
  /\ releaser' = [releaser EXCEPT ![c] = NoRelease]
  /\ UNCHANGED <<handleVars, es, worker, killer, signals, shutdown, leaked>>
-----------------------------------------------------------------------------
(* engine_shutdown_thread *)

Killer(h, from, to) == killer[h] = from /\ killer' = [killer EXCEPT ![h] = to]

\* Mutant: the thread does not look for a shutdown in progress.
KillerStartsAnyway(h) ==
  /\ Killer(h, "started", "destroy")
  /\ shutdown' = [shutdown EXCEPT !.counter = @ + 1]
  /\ UNCHANGED <<handleVars, es, core, worker, releaser, signals, leaked>>

\* Mutant: the client is notified before the bucket is destroyed.
KillerNotifiesFirst(h) ==
  /\ Killer(h, "started", IF shutdown.inProgress THEN "skipped" ELSE "destroy")
  /\ shutdown' = IF shutdown.inProgress THEN shutdown ELSE [shutdown EXCEPT !.counter = @ + 1]
  /\ At(cookie[h], "idle") /\ core' = [core EXCEPT ![cookie[h]].pending = TRUE]
  /\ UNCHANGED <<handleVars, es, worker, releaser, signals, leaked>>

\* The thread leaves the bucket to a shutdown of the process that has begun.
KillerStarts(h) ==
  /\ Killer(h, "started", IF shutdown.inProgress THEN "skipped" ELSE "destroy")
  /\ shutdown' = IF shutdown.inProgress THEN shutdown ELSE [shutdown EXCEPT !.counter = @ + 1]
  /\ UNCHANGED <<handleVars, es, core, worker, releaser, signals, leaked>>

DestroyEngine(h) ==
  /\ Killer(h, "destroy", "unlink")
  /\ phase' = [phase EXCEPT ![h] = "destroyed"]
  /\ UNCHANGED <<engines, state, refcount, clients, cookie, tapIterator, es, core, worker, releaser,
                 signals, shutdown, leaked>>

\* genhash_delete_all under engines_mutex; engine_hash_free drops the table's
\* reference.
Unlink(h) ==
  /\ Killer(h, "unlink", "notify")
  /\ engines' = [n \in Names |-> IF engines[n] = h THEN None ELSE engines[n]]
  /\ Release(h)
  /\ state' = [state EXCEPT ![h] = "NULL"]
  /\ UNCHANGED <<phase, clients, cookie, tapIterator, es, core, worker, releaser, shutdown, leaked>>

\* notify_io_complete, under the lock of the client's thread.
NotifyDeleted(h) ==
  /\ Killer(h, "notify", "check") /\ At(cookie[h], "idle")
  /\ core' = [core EXCEPT ![cookie[h]].pending = TRUE]
  /\ UNCHANGED <<handleVars, es, worker, releaser, signals, shutdown, leaked>>

\* Mutant: the table's reference is counted though it has been dropped.
CheckOneReference(h) ==
  /\ Killer(h, "check", IF refcount[h] > 1 /\ ~shutdown.inProgress THEN "asleep" ELSE "free")
  /\ UNCHANGED <<handleVars, es, core, worker, releaser, signals, shutdown, leaked>>

\* Under shutdown.mutex; the thread sleeps until the next broadcast.
CheckReferences(h) ==
  /\ Killer(h, "check", IF refcount[h] > 0 /\ ~shutdown.inProgress THEN "asleep" ELSE "free")
  /\ UNCHANGED <<handleVars, es, core, worker, releaser, signals, shutdown, leaked>>

FreeHandle(h) ==
  /\ Killer(h, "free", "leave")
  /\ phase' = [phase EXCEPT ![h] = "freed"]
  /\ UNCHANGED <<engines, state, refcount, clients, cookie, tapIterator, es, core, worker, releaser,
                 signals, shutdown, leaked>>

\* Mutant: the thread does not count itself out.
KillerStays(h) ==
  /\ Killer(h, "leave", "ended")
  /\ UNCHANGED <<handleVars, es, core, worker, releaser, signals, shutdown, leaked>>

KillerEnds(h) ==
  /\ Killer(h, "leave", "ended")
  /\ shutdown' = [shutdown EXCEPT !.counter = @ - 1]
  /\ UNCHANGED <<handleVars, es, core, worker, releaser, signals, leaked>>
-----------------------------------------------------------------------------
(* Shutdown of memcached: the worker threads are joined, then bucket_destroy *)

StopWorkers ==
  /\ shutdown.pc = "no" /\ \A c \in Conns : At(c, "idle")
  /\ shutdown' = [shutdown EXCEPT !.pc = "begin"]
  /\ UNCHANGED <<handleVars, es, core, worker, releaser, killer, signals, leaked>>

BeginShutdown ==
  /\ shutdown.pc = "begin"
  /\ shutdown' = [shutdown EXCEPT !.pc = "wait", !.inProgress = TRUE]
  /\ killer' = Awake
  /\ UNCHANGED <<handleVars, es, core, worker, releaser, signals, leaked>>

AwaitKillers ==
  /\ shutdown.pc = "wait" /\ shutdown.counter = 0
  /\ shutdown' = [shutdown EXCEPT !.pc = "iterate"]
  /\ UNCHANGED <<handleVars, es, core, worker, releaser, killer, signals, leaked>>

\* bucket_shutdown_engine for each bucket of the table.
DestroyAll ==
  /\ shutdown.pc = "iterate"
  /\ shutdown' = [shutdown EXCEPT !.pc = "done"]
  /\ phase' = [h \in Handles |-> IF \E n \in Names : engines[n] = h THEN "destroyed" ELSE phase[h]]
  /\ UNCHANGED <<engines, state, refcount, clients, cookie, tapIterator, es, core, worker, releaser,
                 killer, signals, leaked>>
-----------------------------------------------------------------------------
InEngine(c) == CheckState(c) \/ Inside(c) \/ ReserveCookie(c) \/ AssignIterator(c) \/ LeaveEngine(c)
               \/ LastOut(c) \/ MaybeStartShutdown(c) \/ StartShutdown(c)
Choosing(c) ==
  \/ \E n \in Names : FindBucket(c, n) \/ AutoCreateBucket(c, n)
  \/ SetEngineHandle(c) \/ ReleaseOld(c) \/ ReleaseFound(c) \/ MarkClient(c) \/ StopBucket(c)
Leaving(c) == Returned(c) \/ FreeES(c) \/ CloseConnection(c)
\* A worker thread that serves a connection goes on.
WorkerStep(c) == Choosing(c) \/ InEngine(c) \/ Leaving(c) \/ ServePending(c)

Client(c) ==
  \/ Connect(c) \/ HangUp(c)
  \/ \E op \in {"auth", "select", "delete"} : Command(c, op)
  \/ \E op \in {"call", "tap", "ship_log"} : Request(c, op)
  \/ \E n \in Names, h \in Handles : Create(c, n, h)

Releaser(c) == DropReference(c) \/ DropConnection(c)
KillerStep(h) ==
  \/ KillerStarts(h) \/ DestroyEngine(h) \/ Unlink(h) \/ NotifyDeleted(h)
  \/ CheckReferences(h) \/ FreeHandle(h) \/ KillerEnds(h)
Shutdown == StopWorkers \/ BeginShutdown \/ AwaitKillers \/ DestroyAll

Next ==
  \/ \E c \in Conns : Client(c) \/ WorkerStep(c) \/ DropReservation(c) \/ Releaser(c)
  \/ \E h \in Handles : KillerStep(h) \/ Broadcast(h)
  \/ Shutdown

Spec == Init /\ [][Next]_vars

\* Threads run: a worker in the middle of a call, whoever is about to broadcast,
\* a shutdown thread.
FairSpec ==
  /\ Spec
  /\ \A c \in Conns : WF_vars(WorkerStep(c))
  /\ \A h \in Handles : WF_vars(KillerStep(h) \/ Broadcast(h))
  /\ WF_vars(BeginShutdown \/ AwaitKillers \/ DestroyAll)
-----------------------------------------------------------------------------
(* Properties *)

\* The calls that are counted: from the increment to the decrement.
Counted(h) ==
  {c \in Conns : worker[c].peh = h /\ worker[c].pc \in
     {"entered", "inside", "reserve", "assign", "stop", "leave"}}

\* Nobody is inside an engine that is destroyed: get_engine_handle lets a call
\* in only if the bucket runs after it was counted, and the shutdown thread
\* starts only if nobody is counted after the bucket stops.
NobodyInsideDestroyed ==
  \A c \in Conns :
    /\ worker[c].pc \in {"inside", "reserve", "assign"} => phase[worker[c].peh] = "up"
    /\ worker[c].pc = "inside" => killer[worker[c].peh] = "none"

\* clients is what its comment says, the "# of clients currently calling functions
\* in the engine", and besides them those that left without saying so: a TAP
\* stream whose iterator was taken away.
ClientsCounted ==
  \A h \in Handles : clients[h] = Cardinality(Counted(h)) + leaked[h]

\* refcount is what the code makes of it: one for the table, one for each
\* connection whose engine_specific has the handle (also if memcached has closed it and
\* a reservation keeps it: handle_disconnect returns before it drops that one), one
\* for each reservation, and the temporary ones.
Temporary(c, h) ==
  {f \in {"found", "old"} : worker[c].op # "none" /\ worker[c][f] = h}
References(h) ==
  Cardinality({n \in Names : engines[n] = h})
  + Cardinality({c \in Conns : es[c].peh = h})
  + Cardinality({r \in Conns \X (1..2) : es[r[1]].peh = h /\ r[2] <= es[r[1]].reserved})
  + Cardinality({t \in Conns \X {"found", "old"} : t[2] \in Temporary(t[1], h)})
  + Cardinality({c \in Conns : releaser[c].peh = h})
RefcountExact == \A h \in Handles : refcount[h] = References(h)

\* The field's comment has one exception: "connections for which on_disconnect callback
\* was called but which are kept alive by reserved > 0", as "for those connections we
\* drop refcount in on_disconnect but keep peh field".  (Asked while no thread is
\* within a call.)
Disconnected(h) ==
  {c \in Conns : core[c].at = "pending_close" /\ es[c].reserved > 0 /\ es[c].peh = h}
RefcountAsDocumented ==
  (\A c \in Conns : At(c, "idle")) =>
    \A h \in Handles : refcount[h] = References(h) - Cardinality(Disconnected(h))

\* While memcached runs, a handle that anything refers to is not freed.
NoDangling ==
  \A h \in Handles : phase[h] = "freed" /\ ~shutdown.inProgress => References(h) = 0

\* An engine is destroyed once, whoever destroys it, and a bucket is created
\* anew only when the engine that had its files is gone: a handle whose engine
\* is up is the one in the table.
DestroyedOnce ==
  /\ \A h \in Handles :
       /\ killer[h] = "destroy" => phase[h] = "up"
       /\ phase[h] = "up" => \E n \in Names : engines[n] = h
  /\ shutdown.pc = "iterate" =>
       \A n \in Names : engines[n] # None => phase[engines[n]] = "up"

\* The client that deletes a bucket gets its answer, and a shutdown of the
\* process comes to its end, unless a call has left without saying so.
Waits(c) ==
  \/ core[c].at = "blocked" /\ shutdown.pc = "no"
  \/ shutdown.pc \in {"begin", "wait", "iterate"}
NobodyWaitsForever ==
  \A c \in Admins : Waits(c) ~> ~Waits(c) \/ \E h \in Handles : leaked[h] > 0

\* The client that waits is told no sooner than the bucket is gone.
AnsweredWhenGone ==
  \A h \in Handles : cookie[h] # None /\ phase[h] = "up" /\ shutdown.pc = "no" =>
    ~core[cookie[h]].pending
=============================================================================
