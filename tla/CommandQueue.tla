---------------------------- MODULE CommandQueue ----------------------------
(***************************************************************************)
(* The queue of commands of a process                                      *)
(* (src/src/utils/messageQueueManager.ts) and what the queue processor     *)
(* (src/src/utils/queueProcessor.ts) takes from it.  An entry is a record  *)
(* with the command's id, its mode, its priority (0 is "now", 1 "next",    *)
(* 2 "later"), whether it is addressed to a subagent, and a serial number  *)
(* that stands for the identity of the object.                             *)
(***************************************************************************)
EXTENDS Naturals, SequencesExt, Filtering

Modes == {"prompt", "slash", "bash", "note"}   \* "slash": mode prompt, text "/..."

Main(entry) == ~entry.sub

(* Mutant: no filter. *)
Everyone(queue) == DOMAIN queue

(* peek with the main thread's filter: the first of the best priority, as  *)
(* an index, 0 when there is none.                                         *)
Candidates(queue) == {i \in DOMAIN queue : Main(queue[i])}

Best(queue) ==
  LET better(i, j) == \/ queue[i].prio < queue[j].prio
                      \/ queue[i].prio = queue[j].prio /\ i <= j
  IN IF Candidates(queue) = {} THEN 0
     ELSE CHOOSE i \in Candidates(queue) : \A j \in Candidates(queue) : better(i, j)

(* processQueueIfReady: slash and bash commands one at a time, the others  *)
(* with all those of their mode.                                           *)
Alone(entry) == entry.mode \in {"slash", "bash"}
Taken(queue) ==
  LET best == Best(queue)
  IN IF best = 0 THEN <<>>
     ELSE IF Alone(queue[best]) THEN <<queue[best]>>
     ELSE Dropping(queue, {e \in ToSet(queue) : ~Main(e) \/ e.mode # queue[best].mode})

(* remove, dequeue, dequeueAllMatching: the queue without some entries. *)
Without(queue, entries) == Dropping(queue, entries)

(* getCommandsByMaxPriority, narrowed as query() narrows it. *)
Drainable(queue, limit) ==
  {e \in ToSet(queue) : e.prio <= limit /\ Main(e) /\ e.mode # "slash"}

(* The modes that getQueuedCommandAttachments turns into attachments. *)
Attachable(entries) == {e \in entries : e.mode \in {"prompt", "note"}}

(* isQueuedCommandEditable *)
Editable(queue) == {e \in ToSet(queue) : e.mode # "note"}
=============================================================================
