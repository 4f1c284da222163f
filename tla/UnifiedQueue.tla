---------------------------- MODULE UnifiedQueue ----------------------------
(***************************************************************************)
(* What the unified queue of a vbucket promises its consumers, the flusher *)
(* and the TAP connections: a key written while a consumer is subscribed   *)
(* stays on the consumer's list of things to do until the queue hands it   *)
(* over.  The queue may hand a key over again (todo may grow at any time,  *)
(* from what the queue still holds); it may never forget one, unless the   *)
(* vbucket is emptied or the consumer subscribes anew.                     *)
(***************************************************************************)
EXTENDS FiniteSets

CONSTANTS
  Keys,         \* document keys
  Consumers,    \* names of the consumers
  Permanent     \* the consumer that never unsubscribes

VARIABLES
  held,         \* keys with a mutation in the queue
  subscribed,   \* the consumers
  todo,         \* for each consumer, the keys it has yet to be given
  event         \* the call of the last step: what it was, whose, and its documents

vars == <<held, subscribed, todo, event>>

Init ==
  /\ held = {}
  /\ subscribed = {Permanent}
  /\ todo = [c \in Consumers |-> {}]
  /\ event.op = "none"

\* A mutation of k is for every consumer.
Write(k) ==
  /\ event'.op = "write" /\ event'.keys = {k}
  /\ held' = held \cup {k}
  /\ todo' = [c \in Consumers |-> IF c \in subscribed THEN todo[c] \cup {k} ELSE {}]
  /\ UNCHANGED subscribed

\* A consumer is given some of its keys, or none; a key that was written again
\* since may stay.
Give(c) ==
  /\ event'.op = "give" /\ event'.who = c
  /\ event'.keys \subseteq todo[c]
  /\ todo[c] \ event'.keys \subseteq todo'[c]
  /\ todo'[c] \subseteq todo[c]
  /\ todo' = [todo EXCEPT ![c] = todo'[c]]
  /\ UNCHANGED <<held, subscribed>>

\* Reorganising the queue drops keys that nobody needs, and may make a consumer
\* see keys again.
Reorganise ==
  /\ event'.op = "none"
  /\ held' \subseteq held
  /\ \A c \in Consumers : todo[c] \subseteq todo'[c] /\ todo'[c] \subseteq held'
  /\ \A c \in Consumers \ subscribed : todo'[c] = {}
  /\ UNCHANGED subscribed

\* A consumer that subscribes anew loses its place.
Subscribe(c) ==
  /\ event'.op = "subscribe" /\ event'.who = c
  /\ subscribed' = subscribed \cup {c}
  /\ todo'[c] \subseteq held
  /\ todo' = [todo EXCEPT ![c] = todo'[c]]
  /\ UNCHANGED held

Unsubscribe(c) ==
  /\ event'.op = "unsubscribe" /\ event'.who = c
  /\ subscribed' = subscribed \ {c}
  /\ todo' = [todo EXCEPT ![c] = {}]
  /\ UNCHANGED held

\* The vbucket is emptied, its consumers stay.
Empty ==
  /\ event'.op = "empty"
  /\ held' = {}
  /\ todo' = [c \in Consumers |-> {}]
  /\ UNCHANGED subscribed

Next ==
  \/ \E k \in Keys : Write(k)
  \/ \E c \in Consumers : Give(c)
  \/ Reorganise
  \/ \E c \in Consumers \ {Permanent} : Subscribe(c) \/ Unsubscribe(c)
  \/ Empty

Spec == Init /\ [][Next]_vars
=============================================================================
