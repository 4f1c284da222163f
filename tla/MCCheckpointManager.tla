------------------------ MODULE MCCheckpointManager ------------------------
(***************************************************************************)
(* Small instances of CheckpointManager for TLC.                           *)
(***************************************************************************)
EXTENDS CheckpointQueue, TLC

Symmetry == Permutations(Keys) \cup Permutations(TapNames)

\* The operations only compare mutation ids, so two states whose mutation ids
\* are in the same order behave alike: the view numbers the ids in use from 1.
\* With it the states are finite in number, and MaxMutationId is not reached;
Canonical ==
  LET inUse == {cm.list[i].mid[k] : i \in DOMAIN cm.list, k \in AllKeys} \ {0}
      place == [n \in inUse |-> Cardinality({j \in inUse : j <= n})]
      Renumbered(mid) == [k \in AllKeys |-> IF mid[k] = 0 THEN 0 ELSE place[mid[k]]]
  IN [cm EXCEPT !.list = [i \in DOMAIN cm.list |-> [cm.list[i] EXCEPT !.mid = Renumbered(@)]],
                !.mutationCounter = 0]

\* event is left out: no step reads it, and TLC checks the action properties, which
\* are what is said of it, on every step.
\* (cm = cm: TLC evaluates the functions of cm before a worker stores the state.)
View == <<Canonical, vbState, backfill, failure, cm = cm>>

\* Nor do they depend on the offsets of the cursors, which only the counts use:
\* this view is for properties that are not about them.
NoOffsetView ==
  <<[Canonical EXCEPT !.cursor = [c \in Names |-> [@[c] EXCEPT !.offset = 0]]],
    vbState, backfill, failure, cm = cm>>
=============================================================================
