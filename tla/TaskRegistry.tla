---------------------------- MODULE TaskRegistry ----------------------------
(***************************************************************************)
(* What the task list of src/src/utils/tasks.ts promises the agents that   *)
(* share it, with the files and the locks left out: task ids are given     *)
(* out in increasing order and never again (createTask, resetTaskList),    *)
(* and a task is held by one agent at a time (claimTask).                  *)
(***************************************************************************)
EXTENDS Integers

CONSTANTS Actors, MaxId

VARIABLES issued,   \* the ids given out so far
          holds     \* holds[p]: the tasks p has claimed and not given back

vars == <<issued, holds>>

Ids == 1..MaxId

Init == issued \subseteq Ids /\ holds = [p \in Actors |-> {}]

Issue(i) ==
  /\ \A j \in issued : j < i
  /\ issued' = issued \cup {i}
  /\ UNCHANGED holds

Take(p, i) ==
  /\ i \in issued
  /\ \A q \in Actors \ {p} : i \notin holds[q]
  /\ holds' = [holds EXCEPT ![p] = @ \cup {i}]
  /\ UNCHANGED issued

\* An agent gives tasks back, or dies.
GiveBack(p) ==
  /\ \E kept \in SUBSET holds[p] : holds' = [holds EXCEPT ![p] = kept]
  /\ UNCHANGED issued

Next ==
  \/ \E i \in Ids : Issue(i)
  \/ \E p \in Actors : GiveBack(p) \/ \E i \in Ids : Take(p, i)

Spec == Init /\ [][Next]_vars
=============================================================================
