-------------------------- MODULE CheckpointQueue --------------------------
(***************************************************************************)
(* The CheckpointManager implements the UnifiedQueue: what a consumer has  *)
(* yet to be given are the documents ahead of its cursor.                  *)
(***************************************************************************)
EXTENDS CheckpointManager

Queue == INSTANCE UnifiedQueue WITH
           Consumers  <- Names,
           Permanent  <- Persistence,
           held       <- Held(cm),
           subscribed <- Registered(cm),
           todo       <- [c \in Names |-> Todo(cm, c)]

\* No operation of the manager, and no interleaving of them, makes a cursor miss
\* a mutation that was queued while the cursor was registered.
ImplementsQueue == Queue!Spec
=============================================================================
