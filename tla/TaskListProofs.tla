--------------------------- MODULE TaskListProofs ---------------------------
(***************************************************************************)
(* Proofs about TaskList, for every number of agents and of tasks.         *)
(***************************************************************************)
EXTENDS TaskList, TLAPS

Active(label) == label \notin {"idle", "crashed"}
CallLabels == {"check", "lockTask", "read", "open", "write", "unlock"}

\* What an actor's local variables hold at each label; `role` is can[p].
Shape(role, p, label, l) ==
  /\ Active(label) => l.op \in role
  /\ ~Active(label) => l.op = "none"
  /\ label \in CallLabels => l.call \in Call
  /\ label \in {"open", "write"} => l.val \in Task
  /\ label = "reread" => l.op = "claim"
  /\ label = "lockList" => l.op \in {"create", "reset", "claimBusy"}
  /\ label = "scan" => l.op \in {"create", "reset", "delete"}
  /\ label = "writeMark" => l.op \in {"reset", "delete"}
  /\ label \in {"dir", "unlinkAll"} => l.op = "reset"
  /\ label = "unlink" => l.op = "delete"
  /\ label \in {"list", "reading"} =>
       l.op \in {"claim", "claimBusy", "delete", "block", "unassign"}
  /\ l.op \in {"create", "reset"} =>
       label \in {"lockList", "scan", "writeMark", "dir", "unlinkAll", "open", "write", "unlockList"}
  /\ label \in {"open", "write"} => l.op # "reset"
  /\ label \in {"open", "write"} /\ l.op = "create" => l.tgt \in Ids /\ l.call = NoChange(l.tgt)
  /\ l.op \in {"delete", "claim", "claimBusy", "finish"} => l.tgt \in Ids
  /\ l.op \in {"claim", "claimBusy"} /\ label # "unlockList" =>
       l.call = [NoChange(l.tgt) EXCEPT !.owner = p]
  /\ l.op \in {"claim", "claimBusy", "finish"} => l.todo = {}
  /\ l.op = "claim" /\ label \in {"list", "reading"} => l.val \in Task
  /\ l.op = "block" => l.tgt \in Ids /\ l.peer \in Ids

Shapes == \A p \in Actors : Shape(can[p], p, pc[p], loc[p])
TypeInv == TypeOK /\ Shapes

\* Everything TypeOK says of the variables an actor's Move leaves alone.
SharedOK ==
  /\ file \in [Ids -> Task \cup {Absent, Torn}]
  /\ mark \in Nat \cup {Torn}
  /\ listLock \in Actors \cup {None}
  /\ taskLock \in [Ids -> Actors \cup {None}]
  /\ won \in [Actors -> SUBSET Ids]
  /\ done \subseteq Ids
  /\ issued \subseteq Ids

-----------------------------------------------------------------------------
\* An idle operation's locals are locals.
LEMMA NoLocalsType == NoLocals \in Locals
  BY DEF NoLocals, Locals

\* The updates that operations ask for are updates.
LEMMA CallTypes ==
  /\ \A i \in Ids : NoChange(i) \in Call
  /\ \A i \in Ids, o \in Actors \cup {None} : [NoChange(i) EXCEPT !.owner = o] \in Call
  BY DEF NoChange, Call

\* An edit of TaskUpdateTool is an update; a task that is given away, and not
\* opened, stays completed if it is.
LEMMA ToolCallType ==
  ASSUME NEW p \in Actors, NEW i \in Ids,
         NEW owner \in Actors \cup {None, Keep}, NEW status \in Status \cup {Keep}
  PROVE  /\ ToolCall(p, i, owner, status) \in Call
         /\ ToolCall(p, i, owner, status).id = i
         /\ ToolCall(p, i, owner, status).status \in {Keep, status}
<1> DEFINE o == ToolCall(p, i, owner, status).owner
           s == ToolCall(p, i, owner, status).status
<1>1. /\ o \in Actors \cup {None, Keep} /\ s \in {Keep, status}
      /\ ToolCall(p, i, owner, status) = [NoChange(i) EXCEPT !.owner = o, !.status = s]
  BY DEF ToolCall, NoChange
<1> HIDE DEF o, s
<1>2. /\ [NoChange(i) EXCEPT !.owner = o, !.status = s].status = s
      /\ [NoChange(i) EXCEPT !.owner = o, !.status = s].id = i
  BY DEF NoChange
<1>3. [NoChange(i) EXCEPT !.owner = o, !.status = s] \in Call
  BY <1>1 DEF NoChange, Call
<1> QED
  BY <1>1, <1>2, <1>3

\* A task with an update applied is a task.
LEMMA MergeType == \A t \in Task, c \in Call : Merge(t, c) \in Task
  BY DEF Merge, Pick, Task, Call

\* A fresh task is a task.
LEMMA NewTaskType == NewTask \in Task
  BY DEF NewTask, Task, Status

\* Reading a file gives a task or nothing.
LEMMA GetTaskType ==
  ASSUME TypeOK, NEW i \in Ids
  PROVE  GetTask(i) \in Task \cup {Absent}
  BY DEF TypeOK, GetTask

\* A step that moves one actor keeps TypeInv when the actor's new local
\* variables are of the right type and shape and the rest is typed.
LEMMA MoveLemma ==
  ASSUME TypeInv, NEW p \in Actors, NEW label \in Labels, NEW l \in Locals,
         Move(p, label, l), Shape(can[p], p, label, l), can' = can, SharedOK'
  PROVE  TypeInv'
  BY DEF TypeInv, TypeOK, Shapes, Move, SharedOK, Labels

\* A step that leaves files, locks and histories alone keeps their types.
LEMMA SharedKept ==
  ASSUME TypeOK
  PROVE  /\ UNCHANGED <<disk, locks, told, context>> => SharedOK' /\ can' = can
         /\ SharedOK
  BY DEF TypeOK, SharedOK, disk, locks, told, context

\* The types and shapes hold at the start.
LEMMA TypeInit == Init => TypeInv
  <1> SUFFICES ASSUME Init PROVE TypeInv
    OBVIOUS
  <1>1. loc \in [Actors -> Locals]
    BY NoLocalsType DEF Init
  <1>2. Shapes
    BY DEF Init, Shapes, Shape, NoLocals, Active, CallLabels
  <1>3. can \in [Actors -> SUBSET Ops] /\ file \in [Ids -> Task \cup {Absent}]
    BY ConstantsAssumption DEF Init
  <1>4. file \in [Ids -> Task \cup {Absent, Torn}]
    BY <1>3
  <1> QED
    BY <1>1, <1>2, <1>3, <1>4 DEF Init, TypeOK, TypeInv, Labels

-----------------------------------------------------------------------------
\* Starting an operation.
LEMMA TypeBegin ==
  ASSUME TypeInv, NEW p \in Actors, NEW op, NEW label \in Labels, NEW l \in Locals,
         Begin(p, op, label, l), Shape(can[p], p, label, l), won' \in [Actors -> SUBSET Ids]
  PROVE  TypeInv'
  <1>1. SharedOK' /\ can' = can
    BY DEF TypeInv, TypeOK, SharedOK, Begin, disk, locks, context
  <1> QED
    BY <1>1, MoveLemma DEF Begin

\* An operation that begins has the locals of its first label.
LEMMA TypeRequest ==
  ASSUME TypeInv, NEW p \in Actors, Request(p)
  PROVE  TypeInv'
  <1> USE DEF Shape, Active, CallLabels, Labels
  <1>0. won \in [Actors -> SUBSET Ids] /\ can[p] \in SUBSET Ops
    BY ConstantsAssumption DEF TypeInv, TypeOK
  <1>1. CASE BeginCreate(p)
    <2> DEFINE l == [NoLocals EXCEPT !.op = "create"]
    <2>1. l \in Locals /\ l.op = "create"
      BY NoLocalsType DEF Locals, Ops, NoLocals
    <2> HIDE DEF l
    <2>2. Begin(p, "create", "lockList", l) /\ won' = won
      BY <1>1 DEF BeginCreate, l
    <2> QED
      BY <1>0, <2>1, <2>2, TypeBegin DEF Begin
  <1>2. CASE BeginReset(p)
    <2> DEFINE l == [NoLocals EXCEPT !.op = "reset"]
    <2>1. l \in Locals /\ l.op = "reset"
      BY NoLocalsType DEF Locals, Ops, NoLocals
    <2> HIDE DEF l
    <2>2. Begin(p, "reset", "lockList", l) /\ won' = won
      BY <1>2 DEF BeginReset, l
    <2> QED
      BY <1>0, <2>1, <2>2, TypeBegin DEF Begin
  <1>3. ASSUME NEW i \in Ids, BeginDelete(p, i)
        PROVE  TypeInv'
    <2> DEFINE l == [NoLocals EXCEPT !.op = "delete", !.tgt = i, !.top = i, !.scan = {"mark"}]
    <2>0. i \in Nat
      BY ConstantsAssumption DEF Ids
    <2>1. l \in Locals /\ l.op = "delete" /\ l.tgt = i
      BY <2>0, NoLocalsType DEF Locals, Ops, NoLocals
    <2> HIDE DEF l
    <2>2. Begin(p, "delete", "scan", l) /\ won' = won
      BY <1>3 DEF BeginDelete, l
    <2> QED
      BY <1>0, <2>1, <2>2, TypeBegin DEF Begin
  <1>4. ASSUME NEW i \in Ids, NEW op \in {"claim", "claimBusy"}, BeginClaim(p, i, op)
        PROVE  TypeInv'
    <2> DEFINE c == [NoChange(i) EXCEPT !.owner = p]
               l == [NoLocals EXCEPT !.op = op, !.tgt = i, !.call = c]
    <2>1. c \in Call /\ c = [NoChange(i) EXCEPT !.owner = p]
      BY CallTypes
    <2> HIDE DEF c
    <2>2. l \in Locals /\ l.op = op /\ l.tgt = i /\ l.call = c /\ l.todo = {}
      BY <2>1, NoLocalsType DEF Locals, Ops, NoLocals
    <2>3. Begin(p, op, "check", l) /\ won' = won
      BY <1>4 DEF BeginClaim, c
    <2> HIDE DEF l
    <2> QED
      BY <1>0, <2>1, <2>2, <2>3, TypeBegin DEF Begin
  <1>5. ASSUME NEW i \in Ids, NEW op \in {"start", "finish", "edit", "release"},
               BeginUpdate(p, i, op)
        PROVE  TypeInv'
    <2> DEFINE c == UpdateCall(op, i)
               l == [NoLocals EXCEPT !.op = op, !.tgt = i, !.call = c]
    <2>1. c \in Call
      BY DEF UpdateCall, NoChange, Call, Status
    <2> HIDE DEF c
    <2>2. l \in Locals /\ l.op = op /\ l.tgt = i /\ l.call = c /\ l.todo = {}
      BY <2>1, NoLocalsType DEF Locals, Ops, NoLocals
    <2>3. Begin(p, op, "check", l)
      BY <1>5 DEF BeginUpdate, c
    <2>4. won' \in [Actors -> SUBSET Ids]
      BY <1>0, <1>5 DEF BeginUpdate
    <2> HIDE DEF l
    <2> QED
      BY <1>0, <2>1, <2>2, <2>3, <2>4, TypeBegin DEF Begin
  <1>6. ASSUME NEW i \in Ids, NEW j \in Ids, BeginBlock(p, i, j)
        PROVE  TypeInv'
    <2> DEFINE l == [NoLocals EXCEPT !.op = "block", !.tgt = i, !.peer = j, !.unread = {i, j}]
    <2>1. l \in Locals /\ l.op = "block" /\ l.tgt = i /\ l.peer = j
      BY NoLocalsType DEF Locals, Ops, NoLocals
    <2> HIDE DEF l
    <2>2. Begin(p, "block", "reading", l) /\ won' = won
      BY <1>6 DEF BeginBlock, l
    <2> QED
      BY <1>0, <2>1, <2>2, TypeBegin DEF Begin
  <1>7. ASSUME NEW q \in Actors, BeginUnassign(p, q)
        PROVE  TypeInv'
    <2> DEFINE l == [NoLocals EXCEPT !.op = "unassign", !.peer = q]
    <2>1. l \in Locals /\ l.op = "unassign"
      BY NoLocalsType DEF Locals, Ops, NoLocals
    <2> HIDE DEF l
    <2>2. Begin(p, "unassign", "list", l) /\ won' = won
      BY <1>7 DEF BeginUnassign, l
    <2> QED
      BY <1>0, <2>1, <2>2, TypeBegin DEF Begin
  <1>8. ASSUME NEW i \in Ids, NEW op \in {"assign", "setOpen"}, NEW owner \in Actors \cup {None, Keep},
               NEW status \in Status \cup {Keep}, BeginToolUpdate(p, i, op, owner, status)
        PROVE  TypeInv'
    <2> DEFINE c == ToolCall(p, i, owner, status)
               l == [NoLocals EXCEPT !.op = op, !.tgt = i, !.call = c]
    <2>1. c \in Call
      BY ToolCallType
    <2> HIDE DEF c
    <2>2. l \in Locals /\ l.op = op /\ l.tgt = i /\ l.call = c /\ l.todo = {}
      BY <2>1, NoLocalsType DEF Locals, Ops, NoLocals
    <2>3. Begin(p, op, "check", l) /\ won' = won
      BY <1>8 DEF BeginToolUpdate, c
    <2> HIDE DEF l
    <2> QED
      BY <1>0, <2>1, <2>2, <2>3, TypeBegin DEF Begin
  <1> QED
    BY <1>1, <1>2, <1>3, <1>4, <1>5, <1>6, <1>7, <1>8 DEF Request
-----------------------------------------------------------------------------
\* The steps of the operations, one lemma for each group of labels.
LEMMA TypeTold ==
  ASSUME TypeInv, NEW p \in Actors, Return(p)
  PROVE  won' \in [Actors -> SUBSET Ids] /\ done' \subseteq Ids
  BY DEF TypeInv, TypeOK, Return, Shapes, Shape

\* An operation that returns drops its locals.
LEMMA TypeReturn ==
  ASSUME TypeInv, NEW p \in Actors, Return(p), can' = can,
         SharedOK' \/ (SharedOK /\ UNCHANGED <<disk, locks, issued>>)
  PROVE  TypeInv'
  <1>1. Shape(can[p], p, "idle", NoLocals)
    BY DEF Shape, NoLocals, Active, CallLabels
  <1>2. SharedOK'
    BY TypeTold DEF SharedOK, disk, locks
  <1> QED
    BY <1>1, <1>2, MoveLemma, NoLocalsType DEF Return, Labels

\* Taking the list's lock keeps types and shapes.
LEMMA TypeLockList ==
  ASSUME TypeInv, NEW p \in Actors, LockList(p)
  PROVE  TypeInv'
  <1>1. SharedOK' /\ can' = can
    BY DEF LockList, TypeInv, TypeOK, SharedOK, disk, told, context
  <1>2. Shape(can[p], p, "lockList", loc[p]) /\ loc[p] \in Locals
    BY DEF LockList, TypeInv, TypeOK, Shapes, At
  <1>3. ASSUME NEW S \in SUBSET {"files", "mark"}, loc[p].op \in {"create", "reset"},
               Move(p, "scan", [loc[p] EXCEPT !.scan = S])
        PROVE  TypeInv'
    <2> DEFINE l == [loc[p] EXCEPT !.scan = S]
    <2>1. l \in Locals /\ l.op = loc[p].op /\ l.todo = loc[p].todo /\ l.tgt = loc[p].tgt
      BY <1>2 DEF Locals
    <2> HIDE DEF l
    <2>2. Shape(can[p], p, "scan", l)
      BY <1>2, <1>3, <2>1 DEF Shape, Active, CallLabels
    <2> QED
      BY <1>1, <1>3, <2>1, <2>2, MoveLemma DEF l, Labels
  <1>4. CASE loc[p].op = "claimBusy" /\ Goto(p, "list")
    <2>1. Shape(can[p], p, "list", loc[p])
      BY <1>2, <1>4 DEF Shape, Active, CallLabels
    <2> QED
      BY <1>1, <1>2, <1>4, <2>1, MoveLemma DEF Goto, Labels
  <1> QED
    BY <1>3, <1>4 DEF LockList

\* An operation that throws keeps types and shapes.
LEMMA TypeThrow ==
  ASSUME TypeInv, NEW p \in Actors, Throw(p), UNCHANGED <<disk, locks, context>>,
         Active(pc[p])
  PROVE  TypeInv'
  <1>1. SharedOK' /\ can' = can
    BY DEF Throw, TypeInv, TypeOK, SharedOK, disk, locks, told, context
  <1>2. Shape(can[p], p, pc[p], loc[p]) /\ loc[p] \in Locals
    BY DEF TypeInv, TypeOK, Shapes
  <1>3. CASE Move(p, "idle", NoLocals)
    BY <1>1, <1>3, MoveLemma, NoLocalsType DEF Shape, NoLocals, Active, CallLabels, Labels
  <1>4. CASE Move(p, "unlockList", [loc[p] EXCEPT !.ok = FALSE, !.call = None, !.val = Absent])
    <2> DEFINE l == [loc[p] EXCEPT !.ok = FALSE, !.call = None, !.val = Absent]
    <2>1. l \in Locals /\ l.op = loc[p].op /\ l.tgt = loc[p].tgt /\ l.peer = loc[p].peer /\ l.todo = loc[p].todo
      BY <1>2 DEF Locals
    <2> HIDE DEF l
    <2>2. Shape(can[p], p, "unlockList", l)
      BY <1>2, <2>1 DEF Shape, Active, CallLabels
    <2> QED
      BY <1>1, <1>4, <2>1, <2>2, MoveLemma DEF l, Labels
  <1> QED
    BY <1>3, <1>4 DEF Throw

\* What follows an update keeps types and shapes.
LEMMA TypeAfterCall ==
  ASSUME TypeInv, NEW p \in Actors, AfterCall(p), can' = can,
         UNCHANGED <<disk, listLock, issued>>, pc[p] \in {"check", "unlock"},
         taskLock' \in [Ids -> Actors \cup {None}]
  PROVE  TypeInv'
  <1>1. UNCHANGED told => SharedOK'
    BY DEF TypeInv, TypeOK, SharedOK, disk, told
  <1>2. Shape(can[p], p, pc[p], loc[p]) /\ loc[p] \in Locals
    BY DEF TypeInv, TypeOK, Shapes
  <1>3. ASSUME NEW c \in loc[p].todo, UNCHANGED told,
               Move(p, "check", [loc[p] EXCEPT !.call = c, !.todo = @ \ {c}, !.val = Absent])
        PROVE  TypeInv'
    <2> DEFINE l == [loc[p] EXCEPT !.call = c, !.todo = @ \ {c}, !.val = Absent]
    <2>1. l \in Locals /\ l.op = loc[p].op /\ l.tgt = loc[p].tgt /\ l.peer = loc[p].peer
          /\ l.call = c /\ c \in Call
      BY <1>2 DEF Locals
    <2> HIDE DEF l
    <2>2. Shape(can[p], p, "check", l)
      BY <1>2, <2>1 DEF Shape, Active, CallLabels
    <2> QED
      BY <1>1, <1>3, <2>1, <2>2, MoveLemma DEF l, Labels
  <1>4. CASE UNCHANGED told /\ Move(p, "unlockList", [loc[p] EXCEPT !.call = None, !.val = Absent])
    <2> DEFINE l == [loc[p] EXCEPT !.call = None, !.val = Absent]
    <2>1. l \in Locals /\ l.op = loc[p].op /\ l.tgt = loc[p].tgt /\ l.peer = loc[p].peer /\ l.todo = loc[p].todo
      BY <1>2 DEF Locals
    <2> HIDE DEF l
    <2>2. Shape(can[p], p, "unlockList", l)
      BY <1>2, <2>1 DEF Shape, Active, CallLabels
    <2> QED
      BY <1>1, <1>4, <2>1, <2>2, MoveLemma DEF l, Labels
  <1>5. CASE Return(p)
    <2>1. SharedOK'
      BY <1>5, TypeTold DEF TypeInv, TypeOK, SharedOK, disk
    <2> QED
      BY <1>5, <2>1, TypeReturn
  <1> QED
    BY <1>3, <1>4, <1>5 DEF AfterCall

\* A step that only moves actor p to `label` with locals `l`.
LEMMA TypeMove ==
  ASSUME TypeInv, NEW p \in Actors, NEW label \in Labels, NEW l \in Locals,
         Move(p, label, l), UNCHANGED <<disk, locks, told, context>>,
         Shape(can[p], p, label, l)
  PROVE  TypeInv'
  <1>1. SharedOK' /\ can' = can
    BY SharedKept DEF TypeInv
  <1> QED
    BY <1>1, MoveLemma

\* Taking, missing and returning locks keeps types and shapes.
LEMMA TypeLocks ==
  ASSUME TypeInv, NEW p \in Actors,
         LockTask(p) \/ UnlockTask(p) \/ UnlockList(p) \/ LockListFails(p) \/ LockTaskFails(p)
  PROVE  TypeInv'
  <1>0. Shape(can[p], p, pc[p], loc[p]) /\ loc[p] \in Locals
    BY DEF TypeInv, TypeOK, Shapes
  <1>1. CASE LockTask(p)
    <2>1. loc[p].call \in Call /\ loc[p].call.id \in Ids
      BY <1>0, <1>1 DEF LockTask, At, Shape, CallLabels, Call
    <2>2. SharedOK' /\ can' = can
      BY <1>1, <2>1 DEF LockTask, TypeInv, TypeOK, SharedOK, disk, told, context
    <2>3. PICK label \in {"read", "reread"} :
             Move(p, label, loc[p]) /\ (label = "reread" => loc[p].op = "claim")
      BY <1>1 DEF LockTask, Goto
    <2>4. Shape(can[p], p, label, loc[p])
      BY <1>0, <1>1, <2>3 DEF LockTask, At, Shape, Active, CallLabels
    <2> QED
      BY <1>0, <2>2, <2>3, <2>4, MoveLemma DEF Labels
  <1>2. CASE UnlockTask(p)
    <2>1. taskLock' \in [Ids -> Actors \cup {None}]
      BY <1>2 DEF UnlockTask, TypeInv, TypeOK
    <2> QED
      BY <1>2, <2>1, TypeAfterCall DEF UnlockTask, At, context
  <1>3. CASE UnlockList(p)
    <2>1. SharedOK'
      BY <1>3, TypeTold DEF UnlockList, TypeInv, TypeOK, SharedOK, disk, context
    <2> QED
      BY <1>3, <2>1, TypeReturn DEF UnlockList, context
  <1>4. CASE LockListFails(p)
    BY <1>4, TypeThrow DEF LockListFails, At, Active
  <1>5. CASE LockTaskFails(p)
    BY <1>5, TypeThrow DEF LockTaskFails, At, Active
  <1> QED
    BY <1>1, <1>2, <1>3, <1>4, <1>5

\* Scanning for the highest id and allocating keep types and shapes.
LEMMA TypeScan ==
  ASSUME TypeInv, NEW p \in Actors, ScanFiles(p) \/ ScanMark(p) \/ Allocate(p)
  PROVE  TypeInv'
  <1>0. Shape(can[p], p, "scan", loc[p]) /\ loc[p] \in Locals
    BY DEF TypeInv, TypeOK, Shapes, ScanFiles, ScanMark, Allocate, At
  <1>1. ASSUME NEW l \in Locals, Move(p, "scan", l), UNCHANGED <<disk, locks, told, context>>,
               l.op = loc[p].op, l.tgt = loc[p].tgt, l.call = loc[p].call, l.todo = loc[p].todo,
               l.val = loc[p].val, l.peer = loc[p].peer
        PROVE  TypeInv'
    <2>1. Shape(can[p], p, "scan", l)
      BY <1>0, <1>1 DEF Shape, Active, CallLabels
    <2> QED
      BY <1>1, <2>1, TypeMove DEF Labels
  <1>2. CASE ScanFiles(p)
    <2>1. PICK n \in Nat, S \in SUBSET {"files", "mark"} :
             Move(p, "scan", [loc[p] EXCEPT !.top = n, !.scan = S])
      <3>1. 0..MaxId \subseteq Nat
        BY ConstantsAssumption
      <3>2. loc[p].scan \in SUBSET {"files", "mark"}
        BY <1>0 DEF Locals
      <3> QED
        BY <1>2, <3>1, <3>2 DEF ScanFiles
    <2> DEFINE l == [loc[p] EXCEPT !.top = n, !.scan = S]
    <2>2. l \in Locals /\ l.op = loc[p].op /\ l.tgt = loc[p].tgt /\ l.call = loc[p].call
          /\ l.todo = loc[p].todo /\ l.val = loc[p].val /\ l.peer = loc[p].peer
      BY <1>0 DEF Locals
    <2> HIDE DEF l
    <2> QED
      BY <1>1, <1>2, <2>1, <2>2 DEF ScanFiles, l
  <1>3. CASE ScanMark(p)
    <2> DEFINE l == [loc[p] EXCEPT !.old = MarkValue, !.scan = @ \ {"mark"}]
    <2>1. MarkValue \in Nat
      BY DEF MarkValue, TypeInv, TypeOK
    <2>2. l \in Locals /\ l.op = loc[p].op /\ l.tgt = loc[p].tgt /\ l.call = loc[p].call
          /\ l.todo = loc[p].todo /\ l.val = loc[p].val /\ l.peer = loc[p].peer
      BY <1>0, <2>1 DEF Locals
    <2>3. Move(p, "scan", l)
      BY <1>3 DEF ScanMark
    <2> HIDE DEF l
    <2> QED
      BY <1>1, <1>3, <2>2, <2>3 DEF ScanMark
  <1>4. CASE Allocate(p)
    <2> DEFINE id == HighestId(p) + 1
    <2>0. UNCHANGED <<disk, locks, told, context>> /\ loc[p].op = "create"
      BY <1>4 DEF Allocate
    <2>1. CASE id \in Ids
      <3> DEFINE l == [loc[p] EXCEPT !.tgt = id, !.call = NoChange(id), !.val = NewTask]
      <3>1. Move(p, "open", l)
        BY <1>4, <2>1 DEF Allocate
      <3>2. NoChange(id) \in Call /\ NewTask \in Task
        BY <2>1, CallTypes, NewTaskType
      <3> HIDE DEF id
      <3>3. /\ l \in Locals /\ l.op = "create" /\ l.call \in Call /\ l.val \in Task
            /\ l.tgt \in Ids /\ l.call = NoChange(l.tgt)
        BY <1>0, <2>0, <2>1, <3>2 DEF Locals
      <3> HIDE DEF l
      <3>4. Shape(can[p], p, "open", l)
        BY <1>0, <2>0, <3>3 DEF Shape, Active, CallLabels
      <3> QED
        BY <2>0, <3>1, <3>3, <3>4, TypeMove DEF Labels
    <2>2. CASE id \notin Ids
      <3>1. Move(p, "unlockList", loc[p])
        BY <1>4, <2>2 DEF Allocate, Goto
      <3>2. Shape(can[p], p, "unlockList", loc[p])
        BY <1>0, <2>0 DEF Shape, Active, CallLabels
      <3> QED
        BY <1>0, <2>0, <3>1, <3>2, TypeMove DEF Labels
    <2> QED
      BY <2>1, <2>2
  <1> QED
    BY <1>2, <1>3, <1>4

\* Forgetting the descriptor leaves the other locals as they are.
LEMMA FdCleared ==
  ASSUME NEW m \in Locals
  PROVE  LET n == [m EXCEPT !.fd = FALSE] IN
         /\ n \in Locals /\ n.op = m.op /\ n.tgt = m.tgt /\ n.call = m.call
         /\ n.todo = m.todo /\ n.val = m.val /\ n.peer = m.peer
  BY DEF Locals

\* Unlinking a file only clears descriptors of other actors.
LEMMA TypeUnlink ==
  ASSUME TypeInv, NEW p \in Actors, NEW i \in Ids, NEW label \in Labels, NEW l \in Locals,
         Unlink(p, i, label, l), Shape(can[p], p, label, l),
         UNCHANGED <<mark, locks, told, context>>
  PROVE  TypeInv'
  <1>1. ASSUME NEW q \in Actors
        PROVE  /\ pc'[q] = IF q = p THEN label ELSE pc[q]
               /\ loc'[q] \in Locals
               /\ Shape(can[q], q, pc'[q], loc'[q])
    <2>0. loc[q] \in Locals /\ Shape(can[q], q, pc[q], loc[q])
      BY DEF TypeInv, TypeOK, Shapes
    <2>1. pc'[q] = IF q = p THEN label ELSE pc[q]
      BY DEF Unlink, TypeInv, TypeOK
    <2>2. CASE q = p
      BY <2>1, <2>2 DEF Unlink
    <2>3. CASE q # p /\ loc'[q] = loc[q]
      BY <2>0, <2>1, <2>3
    <2>4. CASE q # p /\ loc'[q] = [loc[q] EXCEPT !.fd = FALSE]
      <3> DEFINE m == [loc[q] EXCEPT !.fd = FALSE]
      <3>1. m \in Locals /\ m.op = loc[q].op /\ m.tgt = loc[q].tgt /\ m.call = loc[q].call
            /\ m.todo = loc[q].todo /\ m.val = loc[q].val /\ m.peer = loc[q].peer
        BY <2>0, FdCleared
      <3> HIDE DEF m
      <3>2. Shape(can[q], q, pc[q], m)
        BY <2>0, <3>1 DEF Shape, Active, CallLabels
      <3> QED
        BY <2>1, <2>4, <3>1, <3>2 DEF m
    <2>5. q # p => loc'[q] \in {loc[q], [loc[q] EXCEPT !.fd = FALSE]}
      BY DEF Unlink
    <2> QED
      BY <2>2, <2>3, <2>4, <2>5, <2>1
  <1>2. pc' \in [Actors -> Labels] /\ loc' \in [Actors -> Locals]
    BY <1>1 DEF Unlink, TypeInv, TypeOK
  <1>3. file' \in [Ids -> Task \cup {Absent, Torn}]
    BY DEF Unlink, TypeInv, TypeOK
  <1> QED
    BY <1>1, <1>2, <1>3 DEF TypeInv, TypeOK, Shapes, locks, told, context

\* Writing the mark and unlinking files keep types and shapes.
LEMMA TypeMarkAndFiles ==
  ASSUME TypeInv, NEW p \in Actors,
         \/ OpenMark(p) \/ SkipMark(p) \/ WriteMark(p) \/ ReadDir(p)
         \/ UnlinkOne(p) \/ UnlinkedAll(p) \/ DeleteFile(p)
  PROVE  TypeInv'
  <1>0. Shape(can[p], p, pc[p], loc[p]) /\ loc[p] \in Locals
    BY DEF TypeInv, TypeOK, Shapes
  <1>1. CASE OpenMark(p)
    <2>1. Shape(can[p], p, "writeMark", loc[p])
      BY <1>0, <1>1 DEF OpenMark, At, Shape, Active, CallLabels
    <2>2. SharedOK' /\ can' = can
      BY <1>1 DEF OpenMark, TypeInv, TypeOK, SharedOK, locks, told, context
    <2> QED
      BY <1>0, <1>1, <2>1, <2>2, MoveLemma DEF OpenMark, Goto, Labels
  <1>2. CASE SkipMark(p) \/ WriteMark(p)
    <2>1. PICK label \in {"dir", "unlink"} :
            Move(p, label, loc[p]) /\ (label = "dir" <=> loc[p].op = "reset")
      BY <1>2 DEF SkipMark, WriteMark, AfterMark, Goto
    <2>2. Shape(can[p], p, label, loc[p])
      BY <1>0, <1>2, <2>1 DEF SkipMark, WriteMark, At, Shape, Active, CallLabels
    <2>3. loc[p].top \in Nat
      BY <1>0 DEF Locals
    <2>4. SharedOK' /\ can' = can
      BY <1>2, <2>3 DEF SkipMark, WriteMark, TypeInv, TypeOK, SharedOK, disk, locks, told, context
    <2> QED
      BY <1>0, <2>1, <2>2, <2>4, MoveLemma DEF Labels
  <1>3. CASE ReadDir(p)
    <2> DEFINE l == [loc[p] EXCEPT !.unread = {i \in Ids : file[i] # Absent}]
    <2>1. l \in Locals /\ l.op = loc[p].op /\ l.tgt = loc[p].tgt /\ l.todo = loc[p].todo
      BY <1>0 DEF Locals
    <2>2. Move(p, "unlinkAll", l) /\ pc[p] = "dir" /\ UNCHANGED <<disk, locks, told, context>>
      BY <1>3 DEF ReadDir, At
    <2> HIDE DEF l
    <2>3. Shape(can[p], p, "unlinkAll", l)
      BY <1>0, <2>1, <2>2 DEF Shape, Active, CallLabels
    <2> QED
      BY <2>1, <2>2, <2>3, TypeMove DEF Labels
  <1>4. CASE UnlinkOne(p)
    <2>1. PICK i \in loc[p].unread : Unlink(p, i, "unlinkAll", [loc[p] EXCEPT !.unread = @ \ {i}])
      BY <1>4 DEF UnlinkOne
    <2>2. i \in Ids
      BY <1>0, <2>1 DEF Locals
    <2> DEFINE l == [loc[p] EXCEPT !.unread = @ \ {i}]
    <2>3. l \in Locals /\ l.op = loc[p].op /\ l.tgt = loc[p].tgt /\ l.todo = loc[p].todo
      BY <1>0 DEF Locals
    <2>4. Unlink(p, i, "unlinkAll", l) /\ pc[p] = "unlinkAll"
          /\ UNCHANGED <<mark, locks, told, context>>
      BY <1>4, <2>1 DEF UnlinkOne, At, context, TypeInv, TypeOK
    <2> HIDE DEF l
    <2>5. Shape(can[p], p, "unlinkAll", l)
      BY <1>0, <2>3, <2>4 DEF Shape, Active, CallLabels
    <2> QED
      BY <2>2, <2>3, <2>4, <2>5, TypeUnlink DEF Labels
  <1>5. CASE UnlinkedAll(p)
    <2>1. Shape(can[p], p, "unlockList", loc[p])
      BY <1>0, <1>5 DEF UnlinkedAll, At, Shape, Active, CallLabels
    <2> QED
      BY <1>0, <1>5, <2>1, TypeMove DEF UnlinkedAll, Goto, Labels
  <1>6. CASE DeleteFile(p)
    <2>0. pc[p] = "unlink" /\ loc[p].op = "delete" /\ loc[p].tgt \in Ids
      BY <1>0, <1>6 DEF DeleteFile, At, Shape
    <2>1. CASE Return(p) /\ UNCHANGED file
      <3>1. UNCHANGED <<disk, locks, issued>> /\ can' = can
        BY <1>6, <2>1 DEF DeleteFile, disk, context
      <3>2. SharedOK
        BY SharedKept DEF TypeInv
      <3> QED
        BY <2>1, <3>1, <3>2, TypeReturn
    <2>2. CASE Unlink(p, loc[p].tgt, "list", loc[p]) /\ UNCHANGED told
      <3>1. Shape(can[p], p, "list", loc[p])
        BY <1>0, <2>0 DEF Shape, Active, CallLabels
      <3>3. UNCHANGED <<mark, locks, told, context>>
        BY <1>6, <2>2 DEF DeleteFile
      <3> QED
        BY <1>0, <2>0, <2>2, <3>1, <3>3, TypeUnlink DEF Labels
    <2> QED
      BY <1>6, <2>1, <2>2 DEF DeleteFile
  <1> QED
    BY <1>1, <1>2, <1>3, <1>4, <1>5, <1>6

\* Listing the tasks and reading them keeps types and shapes.
LEMMA TypeList ==
  ASSUME TypeInv, NEW p \in Actors, List(p) \/ \E i \in Ids : ReadOne(p, i)
  PROVE  TypeInv'
  <1>0. Shape(can[p], p, pc[p], loc[p]) /\ loc[p] \in Locals
    BY DEF TypeInv, TypeOK, Shapes
  <1>1. ASSUME NEW l \in Locals, Move(p, "reading", l), UNCHANGED <<disk, locks, told, context>>,
               pc[p] \in {"list", "reading"},
               l.op = loc[p].op, l.tgt = loc[p].tgt, l.call = loc[p].call, l.todo = loc[p].todo,
               l.val = loc[p].val, l.peer = loc[p].peer
        PROVE  TypeInv'
    <2>1. Shape(can[p], p, "reading", l)
      BY <1>0, <1>1 DEF Shape, Active, CallLabels
    <2> QED
      BY <1>1, <2>1, TypeMove DEF Labels
  <1>2. CASE List(p)
    <2> DEFINE l == [loc[p] EXCEPT !.unread = {i \in Ids : file[i] # Absent}]
    <2>1. l \in Locals /\ l.op = loc[p].op /\ l.tgt = loc[p].tgt /\ l.call = loc[p].call
          /\ l.todo = loc[p].todo /\ l.val = loc[p].val /\ l.peer = loc[p].peer
      BY <1>0 DEF Locals
    <2>2. Move(p, "reading", l)
      BY <1>2 DEF List
    <2> HIDE DEF l
    <2> QED
      BY <1>1, <1>2, <2>1, <2>2 DEF List, At
  <1>3. ASSUME NEW i \in Ids, ReadOne(p, i)
        PROVE  TypeInv'
    <2> DEFINE t == GetTask(i)
               l == [loc[p] EXCEPT !.seen[i] = t, !.unread = @ \ {i}]
    <2>1. t \in Task \cup {Absent}
      BY GetTaskType DEF TypeInv
    <2>2. Move(p, "reading", l)
      BY <1>3 DEF ReadOne
    <2> HIDE DEF t
    <2>3. l \in Locals /\ l.op = loc[p].op /\ l.tgt = loc[p].tgt /\ l.call = loc[p].call
          /\ l.todo = loc[p].todo /\ l.val = loc[p].val /\ l.peer = loc[p].peer
      BY <1>0, <2>1 DEF Locals
    <2> HIDE DEF l
    <2> QED
      BY <1>1, <1>3, <2>2, <2>3 DEF ReadOne, At
  <1> QED
    BY <1>2, <1>3

\* The updateTask calls made from a snapshot are well-formed.
LEMMA CallsType ==
  ASSUME TypeInv, NEW p \in Actors
  PROVE  /\ loc[p].op = "delete" => DeleteCalls(p) \subseteq Call
         /\ loc[p].op = "block" => BlockCalls(p) \subseteq Call
         /\ loc[p].op = "unassign" => UnassignCalls(p) \subseteq Call
  <1>0. Shape(can[p], p, pc[p], loc[p]) /\ loc[p].seen \in [Ids -> Task \cup {Absent}]
    BY DEF TypeInv, TypeOK, Shapes, Locals
  <1>1. \A i \in Ids, B, D \in SUBSET Ids :
          /\ [NoChange(i) EXCEPT !.blocks = B, !.blockedBy = D] \in Call
          /\ [NoChange(i) EXCEPT !.blocks = B] \in Call
          /\ [NoChange(i) EXCEPT !.blockedBy = D] \in Call
          /\ [NoChange(i) EXCEPT !.owner = None, !.status = "pending"] \in Call
    BY DEF NoChange, Call, Status
  <1>2. \A t \in Task : t.blocks \in SUBSET Ids /\ t.blockedBy \in SUBSET Ids
    BY DEF Task
  <1>3. ASSUME loc[p].op = "delete" PROVE DeleteCalls(p) \subseteq Call
    <2>1. ASSUME NEW i \in Ids, loc[p].seen[i] # Absent
          PROVE  [NoChange(i) EXCEPT !.blocks = loc[p].seen[i].blocks \ {loc[p].tgt},
                                     !.blockedBy = loc[p].seen[i].blockedBy \ {loc[p].tgt}]
                   \in Call
      <3>1. loc[p].seen[i].blocks \in SUBSET Ids /\ loc[p].seen[i].blockedBy \in SUBSET Ids
        BY <1>0, <1>2, <2>1
      <3> DEFINE B == loc[p].seen[i].blocks \ {loc[p].tgt}
                 D == loc[p].seen[i].blockedBy \ {loc[p].tgt}
      <3>2. B \in SUBSET Ids /\ D \in SUBSET Ids
        BY <3>1
      <3> HIDE DEF B, D
      <3> QED
        BY <1>1, <3>2 DEF B, D
    <2> QED
      BY <2>1 DEF DeleteCalls
  <1>4. ASSUME loc[p].op = "block" PROVE BlockCalls(p) \subseteq Call
    <2>1. loc[p].tgt \in Ids /\ loc[p].peer \in Ids
      BY <1>0, <1>4 DEF Shape
    <2>2. CASE Absent \in {loc[p].seen[loc[p].tgt], loc[p].seen[loc[p].peer]}
      BY <2>2 DEF BlockCalls
    <2>3. CASE Absent \notin {loc[p].seen[loc[p].tgt], loc[p].seen[loc[p].peer]}
      <3>1. /\ loc[p].seen[loc[p].tgt].blocks \cup {loc[p].peer} \in SUBSET Ids
            /\ loc[p].seen[loc[p].peer].blockedBy \cup {loc[p].tgt} \in SUBSET Ids
        BY <1>0, <1>2, <2>1, <2>3
      <3> QED
        BY <1>1, <2>1, <2>3, <3>1 DEF BlockCalls
    <2> QED
      BY <2>2, <2>3
  <1>5. ASSUME loc[p].op = "unassign" PROVE UnassignCalls(p) \subseteq Call
    BY <1>0, <1>1 DEF UnassignCalls, Unresolved
  <1> QED
    BY <1>3, <1>4, <1>5

\* Turning a snapshot into updates keeps types and shapes.
LEMMA TypeSnapshotUsed ==
  ASSUME TypeInv, NEW p \in Actors, SnapshotUsed(p)
  PROVE  TypeInv'
  <1>0. /\ Shape(can[p], p, "reading", loc[p]) /\ loc[p] \in Locals
        /\ loc[p].op \in {"delete", "block", "unassign"}
    BY DEF TypeInv, TypeOK, Shapes, SnapshotUsed, At
  <1>1. PICK calls \in SUBSET Call : Calls(p, calls)
    BY CallsType DEF SnapshotUsed
  <1>2. ASSUME NEW c \in calls, UNCHANGED told,
               Move(p, "check", [loc[p] EXCEPT !.call = c, !.todo = calls \ {c},
                                               !.seen = NoLocals.seen])
        PROVE  TypeInv'
    <2> DEFINE l == [loc[p] EXCEPT !.call = c, !.todo = calls \ {c}, !.seen = NoLocals.seen]
    <2>1. NoLocals.seen \in [Ids -> Task \cup {Absent}]
      BY DEF NoLocals
    <2>2. l \in Locals /\ l.op = loc[p].op /\ l.tgt = loc[p].tgt /\ l.peer = loc[p].peer
          /\ l.call = c
      BY <1>0, <1>1, <2>1 DEF Locals
    <2>3. Move(p, "check", l)
      BY <1>2
    <2> HIDE DEF l
    <2>4. Shape(can[p], p, "check", l)
      BY <1>0, <1>1, <2>2 DEF Shape, Active, CallLabels
    <2> QED
      BY <1>2, <2>2, <2>3, <2>4, TypeMove DEF SnapshotUsed, Labels
  <1>3. CASE Return(p)
    <2>1. UNCHANGED <<disk, locks, issued>> /\ can' = can
      BY DEF SnapshotUsed, context
    <2>2. SharedOK
      BY SharedKept DEF TypeInv
    <2> QED
      BY <1>3, <2>1, <2>2, TypeReturn
  <1> QED
    BY <1>1, <1>2, <1>3 DEF Calls

\* Deciding a claim keeps types and shapes.
LEMMA TypeClaim ==
  ASSUME TypeInv, NEW p \in Actors, Reread(p) \/ ClaimDecided(p) \/ BusyClaimDecided(p)
  PROVE  TypeInv'
  <1>0. Shape(can[p], p, pc[p], loc[p]) /\ loc[p] \in Locals
    BY DEF TypeInv, TypeOK, Shapes
  <1>1. CASE Reread(p)
    <2> DEFINE t == GetTask(loc[p].tgt)
               l == [loc[p] EXCEPT !.val = t]
    <2>0. pc[p] = "reread" /\ loc[p].op = "claim" /\ loc[p].tgt \in Ids
      BY <1>0, <1>1 DEF Reread, At, Shape
    <2>1. t \in Task \cup {Absent}
      BY <2>0, GetTaskType DEF TypeInv
    <2>2. UNCHANGED <<disk, locks, told, context>>
      BY <1>1 DEF Reread
    <2>3. CASE t # Absent /\ Move(p, "list", l)
      <3> HIDE DEF t
      <3>1. l \in Locals /\ l.op = loc[p].op /\ l.tgt = loc[p].tgt /\ l.call = loc[p].call
            /\ l.todo = loc[p].todo /\ l.val \in Task /\ l.peer = loc[p].peer
        BY <1>0, <2>1, <2>3 DEF Locals
      <3> HIDE DEF l
      <3>2. Shape(can[p], p, "list", l)
        BY <1>0, <2>0, <3>1 DEF Shape, Active, CallLabels
      <3> QED
        BY <2>2, <2>3, <3>1, <3>2, TypeMove DEF Labels
    <2>4. CASE Move(p, "unlock", loc[p])
      <3>1. loc[p].call \in Call
        BY <1>0, <2>0, CallTypes DEF Shape
      <3>2. Shape(can[p], p, "unlock", loc[p])
        BY <1>0, <2>0, <3>1 DEF Shape, Active, CallLabels
      <3> QED
        BY <1>0, <2>2, <2>4, <3>2, TypeMove DEF Labels
    <2> QED
      BY <1>1, <2>3, <2>4 DEF Reread, Goto
  <1>2. ASSUME NEW free \in BOOLEAN, NEW v \in {loc[p].val, Absent},
               NEW label \in {"read", "unlock", "check", "unlockList"},
               Move(p, label, [loc[p] EXCEPT !.ok = free, !.val = v, !.seen = NoLocals.seen]),
               UNCHANGED <<disk, locks, told, context>>,
               pc[p] = "reading", loc[p].op \in {"claim", "claimBusy"}
        PROVE  TypeInv'
    <2> DEFINE l == [loc[p] EXCEPT !.ok = free, !.val = v, !.seen = NoLocals.seen]
    <2>1. NoLocals.seen \in [Ids -> Task \cup {Absent}]
      BY DEF NoLocals
    <2>2. l \in Locals /\ l.op = loc[p].op /\ l.tgt = loc[p].tgt /\ l.call = loc[p].call
          /\ l.todo = loc[p].todo
      BY <1>0, <2>1 DEF Locals
    <2>3. loc[p].call \in Call
      BY <1>0, <1>2, CallTypes DEF Shape
    <2>4. Move(p, label, l)
      BY <1>2
    <2> HIDE DEF l
    <2>5. Shape(can[p], p, label, l)
      BY <1>0, <1>2, <2>2, <2>3 DEF Shape, Active, CallLabels
    <2> QED
      BY <1>2, <2>2, <2>4, <2>5, TypeMove DEF Labels
  <1>3. CASE ClaimDecided(p)
    <2>1. PICK free \in BOOLEAN :
            Move(p, IF free THEN "read" ELSE "unlock",
                 [loc[p] EXCEPT !.ok = free, !.val = Absent, !.seen = NoLocals.seen])
      BY <1>3 DEF ClaimDecided
    <2>2. /\ pc[p] = "reading" /\ loc[p].op = "claim"
          /\ UNCHANGED <<disk, locks, told, context>>
      BY <1>3 DEF ClaimDecided, At
    <2> QED
      BY <1>2, <2>1, <2>2
  <1>4. CASE BusyClaimDecided(p)
    <2>1. PICK free \in BOOLEAN :
            Move(p, IF free THEN "check" ELSE "unlockList",
                 [loc[p] EXCEPT !.ok = free, !.seen = NoLocals.seen])
      BY <1>4 DEF BusyClaimDecided
    <2>2. /\ pc[p] = "reading" /\ loc[p].op = "claimBusy"
          /\ UNCHANGED <<disk, locks, told, context>>
      BY <1>4 DEF BusyClaimDecided, At
    <2>3. [loc[p] EXCEPT !.ok = free, !.seen = NoLocals.seen]
          = [loc[p] EXCEPT !.ok = free, !.val = loc[p].val, !.seen = NoLocals.seen]
      BY <1>0 DEF Locals
    <2> QED
      BY <1>2, <2>1, <2>2, <2>3
  <1> QED
    BY <1>1, <1>3, <1>4

\* The steps of an update keep types and shapes.
LEMMA TypeUpdate ==
  ASSUME TypeInv, NEW p \in Actors, Check(p) \/ ReadForUpdate(p) \/ Open(p) \/ Write(p)
  PROVE  TypeInv'
  <1>0. Shape(can[p], p, pc[p], loc[p]) /\ loc[p] \in Locals
    BY DEF TypeInv, TypeOK, Shapes
  <1>1. loc[p].call \in Call /\ loc[p].call.id \in Ids
    BY <1>0 DEF Shape, CallLabels, Check, ReadForUpdate, Open, Write, At, Call
  <1>2. CASE Check(p)
    <2>1. CASE AfterCall(p)
      <3>1. /\ UNCHANGED <<disk, listLock, issued>> /\ can' = can /\ pc[p] = "check"
            /\ taskLock' \in [Ids -> Actors \cup {None}]
        BY <1>2 DEF Check, At, context, locks, TypeInv, TypeOK
      <3> QED
        BY <2>1, <3>1, TypeAfterCall
    <2>2. ASSUME NEW label \in {"lockList", "lockTask"}, Move(p, label, loc[p]),
                 label = "lockList" => loc[p].op = "claimBusy",
                 UNCHANGED told
          PROVE  TypeInv'
      <3>1. Shape(can[p], p, label, loc[p])
        BY <1>0, <1>1, <1>2, <2>2 DEF Check, At, Shape, Active, CallLabels
      <3> QED
        BY <1>0, <1>2, <2>2, <3>1, TypeMove DEF Check, Labels
    <2> QED
      BY <1>2, <2>1, <2>2 DEF Check, Goto
  <1>3. CASE ReadForUpdate(p)
    <2> DEFINE t == GetTask(loc[p].call.id)
               m == Merge(t, loc[p].call)
               l == [loc[p] EXCEPT !.val = m]
    <2>0. /\ t \in Task \cup {Absent} /\ pc[p] = "read"
          /\ UNCHANGED <<disk, locks, told, context>>
      BY <1>1, <1>3, GetTaskType DEF TypeInv, ReadForUpdate, At
    <2>1. loc[p].op # "reset" /\ loc[p].op # "create"
      BY <1>0, <2>0 DEF Shape
    <2>2. CASE t = Absent /\ Move(p, "unlock", loc[p])
      <3>1. Shape(can[p], p, "unlock", loc[p])
        BY <1>0, <1>1, <2>0, <2>1 DEF Shape, Active, CallLabels
      <3> QED
        BY <1>0, <2>0, <2>2, <3>1, TypeMove DEF Labels
    <2>3. CASE t # Absent /\ Move(p, "open", l)
      <3>1. m \in Task
        BY <1>1, <2>0, <2>3, MergeType
      <3> HIDE DEF m
      <3>2. l \in Locals /\ l.op = loc[p].op /\ l.tgt = loc[p].tgt /\ l.call = loc[p].call
            /\ l.todo = loc[p].todo /\ l.val \in Task /\ l.peer = loc[p].peer
        BY <1>0, <3>1 DEF Locals
      <3> HIDE DEF l
      <3>3. Shape(can[p], p, "open", l)
        BY <1>0, <1>1, <2>0, <2>1, <3>2 DEF Shape, Active, CallLabels
      <3> QED
        BY <2>0, <2>3, <3>2, <3>3, TypeMove DEF Labels
    <2> QED
      BY <1>3, <2>2, <2>3 DEF ReadForUpdate, Goto
  <1>4. CASE Open(p)
    <2> DEFINE l == [loc[p] EXCEPT !.fd = TRUE]
    <2>1. l \in Locals /\ l.op = loc[p].op /\ l.tgt = loc[p].tgt /\ l.call = loc[p].call
          /\ l.todo = loc[p].todo /\ l.val = loc[p].val /\ l.peer = loc[p].peer
      BY <1>0 DEF Locals
    <2>2. Move(p, "write", l) /\ pc[p] = "open" /\ can' = can
      BY <1>4 DEF Open, At
    <2>3. loc[p].op = "create" => issued' \subseteq Ids
      <3>1. loc[p].op = "create" => issued' = issued \cup {loc[p].tgt}
        BY <1>4 DEF Open
      <3>2. loc[p].op = "create" => loc[p].tgt \in Ids
        BY <1>0, <2>2 DEF Shape
      <3> QED
        BY <3>1, <3>2 DEF TypeInv, TypeOK
    <2>4. SharedOK'
      BY <1>4, <2>3 DEF Open, TypeInv, TypeOK, SharedOK, locks, told
    <2> HIDE DEF l
    <2>5. Shape(can[p], p, "write", l)
      BY <1>0, <2>1, <2>2 DEF Shape, Active, CallLabels
    <2> QED
      BY <2>1, <2>2, <2>4, <2>5, MoveLemma DEF Labels
  <1>5. CASE Write(p)
    <2>0. pc[p] = "write" /\ loc[p].val \in Task /\ can' = can
      BY <1>0, <1>5 DEF Write, At, Shape, context
    <2>1. SharedOK'
      BY <1>5, <2>0 DEF Write, TypeInv, TypeOK, SharedOK, locks, told, context
    <2>2. PICK label \in {"unlockList", "unlock"}, o \in BOOLEAN :
            /\ Move(p, label, [loc[p] EXCEPT !.val = Absent, !.fd = FALSE, !.ok = o])
            /\ label = "unlockList" <=> loc[p].op = "create"
      BY <1>0, <1>5 DEF Write, Locals
    <2> DEFINE l == [loc[p] EXCEPT !.val = Absent, !.fd = FALSE, !.ok = o]
    <2>3. l \in Locals /\ l.op = loc[p].op /\ l.tgt = loc[p].tgt /\ l.call = loc[p].call
          /\ l.todo = loc[p].todo /\ l.peer = loc[p].peer
      BY <1>0 DEF Locals
    <2>4. Move(p, label, l)
      BY <2>2
    <2> HIDE DEF l
    <2>5. Shape(can[p], p, label, l)
      BY <1>0, <2>0, <2>2, <2>3 DEF Shape, Active, CallLabels
    <2> QED
      BY <2>0, <2>1, <2>3, <2>4, <2>5, MoveLemma DEF Labels
  <1> QED
    BY <1>2, <1>3, <1>4, <1>5

\* A crash and the take-over of stale locks keep types and shapes.
LEMMA TypeCrash ==
  ASSUME TypeInv, (\E p \in Actors : Crash(p)) \/ StaleLock
  PROVE  TypeInv'
  <1>1. ASSUME NEW p \in Actors, Crash(p)
        PROVE  TypeInv'
    <2>1. SharedOK' /\ can' = can /\ Move(p, "crashed", NoLocals)
      BY <1>1 DEF Crash, TypeInv, TypeOK, SharedOK, disk, locks, context
    <2>2. Shape(can[p], p, "crashed", NoLocals)
      BY DEF Shape, NoLocals, Active, CallLabels
    <2> QED
      BY <2>1, <2>2, NoLocalsType, MoveLemma DEF Labels
  <1>2. CASE StaleLock
    <2>1. TypeOK'
      BY <1>2 DEF StaleLock, StaleListLock, StaleTaskLock, TypeInv, TypeOK, disk, told, context
    <2>2. Shapes'
      BY <1>2 DEF StaleLock, StaleListLock, StaleTaskLock, TypeInv, Shapes, context
    <2> QED
      BY <2>1, <2>2 DEF TypeInv
  <1> QED
    BY <1>1, <1>2

\* Every step of an operation keeps types and shapes.
LEMMA TypeStep ==
  ASSUME TypeInv, NEW p \in Actors, Step(p)
  PROVE  TypeInv'
  BY TypeLockList, TypeLocks, TypeScan, TypeMarkAndFiles, TypeList, TypeSnapshotUsed,
     TypeClaim, TypeUpdate DEF Step

\* Every step keeps types and shapes.
LEMMA TypeNext == TypeInv /\ [Next]_vars => TypeInv'
  <1>1. ASSUME TypeInv, Next
        PROVE  TypeInv'
    BY <1>1, TypeRequest, TypeStep, TypeCrash DEF Next
  <1>2. ASSUME TypeInv, UNCHANGED vars
        PROVE  TypeInv'
    BY <1>2 DEF vars, disk, locks, told, context, TypeInv, TypeOK, Shapes
  <1> QED
    BY <1>1, <1>2

\* The files, the locks and every actor's local variables always hold values
\* of their kind; in particular what is written to a task file is a task.
THEOREM TypeCorrect == Spec => []TypeOK
  <1>1. TypeInv => TypeOK
    BY DEF TypeInv
  <1> QED
    BY <1>1, TypeInit, TypeNext, PTL DEF Spec

-----------------------------------------------------------------------------
(* Each step of an operation: what it does to its local variables.         *)

KeepsWho(p) == loc'[p].op = loc[p].op /\ loc'[p].tgt = loc[p].tgt /\ loc'[p].peer = loc[p].peer
KeepsCall(p) == loc'[p].call = loc[p].call /\ loc'[p].todo = loc[p].todo
KeepsRead(p) == loc'[p].seen = loc[p].seen /\ loc'[p].unread = loc[p].unread
KeepsScan(p) == loc'[p].scan = loc[p].scan /\ loc'[p].top = loc[p].top /\ loc'[p].old = loc[p].old
KeepsFile(p) == loc'[p].val = loc[p].val /\ loc'[p].fd = loc[p].fd
OthersStay(p) == \A q \in Actors \ {p} : pc'[q] = pc[q] /\ loc'[q] = loc[q]
Scans(p, n) ==
  Move(p, "scan", [loc[p] EXCEPT !.top = n, !.scan =
         (@ \ {"files"}) \cup (IF loc[p].op = "reset" THEN {"mark"} ELSE {})])

\* A step of p alone.
LEMMA Moves ==
  ASSUME TypeOK, NEW p \in Actors, NEW label, NEW l, Move(p, label, l)
  PROVE  pc'[p] = label /\ loc'[p] = l /\ OthersStay(p)
  BY DEF TypeOK, Move, OthersStay

\* Reading the mark.
LEMMA DoesScanMark ==
  ASSUME TypeOK, NEW p \in Actors, ScanMark(p)
  PROVE  /\ pc'[p] = "scan" /\ OthersStay(p) /\ KeepsWho(p) /\ KeepsCall(p) /\ KeepsRead(p)
         /\ loc'[p].top = loc[p].top /\ KeepsFile(p) /\ loc'[p].ok = loc[p].ok
         /\ loc'[p].old = MarkValue /\ loc'[p].scan = loc[p].scan \ {"mark"}
<1> DEFINE m == [loc[p] EXCEPT !.old = MarkValue, !.scan = @ \ {"mark"}]
<1>1. loc[p] \in Locals
  BY DEF TypeOK
<1>2. /\ m.op = loc[p].op /\ m.tgt = loc[p].tgt /\ m.peer = loc[p].peer
      /\ m.call = loc[p].call /\ m.todo = loc[p].todo /\ m.seen = loc[p].seen
      /\ m.unread = loc[p].unread /\ m.scan = loc[p].scan \ {"mark"} /\ m.top = loc[p].top
      /\ m.old = MarkValue /\ m.val = loc[p].val /\ m.fd = loc[p].fd /\ m.ok = loc[p].ok
  BY <1>1 DEF Locals
<1>3. Move(p, "scan", m)
  BY DEF ScanMark
<1> HIDE DEF m
<1>4. QED
  BY <1>2, <1>3, Moves DEF KeepsWho, KeepsCall, KeepsRead, KeepsFile

\* Listing the files to remove.
LEMMA DoesReadDir ==
  ASSUME TypeOK, NEW p \in Actors, ReadDir(p)
  PROVE  /\ pc'[p] = "unlinkAll" /\ OthersStay(p) /\ KeepsWho(p) /\ KeepsCall(p)
         /\ loc'[p].seen = loc[p].seen /\ KeepsScan(p) /\ KeepsFile(p) /\ loc'[p].ok = loc[p].ok
         /\ loc'[p].unread = {i \in Ids : file[i] # Absent}
<1> DEFINE m == [loc[p] EXCEPT !.unread = {i \in Ids : file[i] # Absent}]
<1>1. loc[p] \in Locals
  BY DEF TypeOK
<1>2. /\ m.op = loc[p].op /\ m.tgt = loc[p].tgt /\ m.peer = loc[p].peer
      /\ m.call = loc[p].call /\ m.todo = loc[p].todo /\ m.seen = loc[p].seen
      /\ m.unread = {i \in Ids : file[i] # Absent} /\ m.scan = loc[p].scan
      /\ m.top = loc[p].top /\ m.old = loc[p].old /\ m.val = loc[p].val /\ m.fd = loc[p].fd
      /\ m.ok = loc[p].ok
  BY <1>1 DEF Locals
<1>3. Move(p, "unlinkAll", m)
  BY DEF ReadDir
<1> HIDE DEF m
<1>4. QED
  BY <1>2, <1>3, Moves DEF KeepsWho, KeepsCall, KeepsScan, KeepsFile

\* Listing the files to read.
LEMMA DoesList ==
  ASSUME TypeOK, NEW p \in Actors, List(p)
  PROVE  /\ pc'[p] = "reading" /\ OthersStay(p) /\ KeepsWho(p) /\ KeepsCall(p)
         /\ loc'[p].seen = loc[p].seen /\ KeepsScan(p) /\ KeepsFile(p) /\ loc'[p].ok = loc[p].ok
         /\ loc'[p].unread = {i \in Ids : file[i] # Absent}
<1> DEFINE m == [loc[p] EXCEPT !.unread = {i \in Ids : file[i] # Absent}]
<1>1. loc[p] \in Locals
  BY DEF TypeOK
<1>2. /\ m.op = loc[p].op /\ m.tgt = loc[p].tgt /\ m.peer = loc[p].peer
      /\ m.call = loc[p].call /\ m.todo = loc[p].todo /\ m.seen = loc[p].seen
      /\ m.unread = {i \in Ids : file[i] # Absent} /\ m.scan = loc[p].scan
      /\ m.top = loc[p].top /\ m.old = loc[p].old /\ m.val = loc[p].val /\ m.fd = loc[p].fd
      /\ m.ok = loc[p].ok
  BY <1>1 DEF Locals
<1>3. Move(p, "reading", m)
  BY DEF List
<1> HIDE DEF m
<1>4. QED
  BY <1>2, <1>3, Moves DEF KeepsWho, KeepsCall, KeepsScan, KeepsFile

\* Opening a file to write it.
LEMMA DoesOpen ==
  ASSUME TypeOK, NEW p \in Actors, Open(p)
  PROVE  /\ pc'[p] = "write" /\ OthersStay(p) /\ KeepsWho(p) /\ KeepsCall(p) /\ KeepsRead(p)
         /\ KeepsScan(p) /\ loc'[p].val = loc[p].val /\ loc'[p].ok = loc[p].ok
         /\ loc'[p].fd = TRUE
<1> DEFINE m == [loc[p] EXCEPT !.fd = TRUE]
<1>1. loc[p] \in Locals
  BY DEF TypeOK
<1>2. /\ m.op = loc[p].op /\ m.tgt = loc[p].tgt /\ m.peer = loc[p].peer
      /\ m.call = loc[p].call /\ m.todo = loc[p].todo /\ m.seen = loc[p].seen
      /\ m.unread = loc[p].unread /\ m.scan = loc[p].scan /\ m.top = loc[p].top
      /\ m.old = loc[p].old /\ m.val = loc[p].val /\ m.fd = TRUE /\ m.ok = loc[p].ok
  BY <1>1 DEF Locals
<1>3. Move(p, "write", m)
  BY DEF Open
<1> HIDE DEF m
<1>4. QED
  BY <1>2, <1>3, Moves DEF KeepsWho, KeepsCall, KeepsRead, KeepsScan

\* Taking the next id.
LEMMA DoesAllocate ==
  ASSUME TypeOK, NEW p \in Actors, Allocate(p), HighestId(p) + 1 \in Ids
  PROVE  /\ pc'[p] = "open" /\ OthersStay(p) /\ loc'[p].op = loc[p].op
         /\ loc'[p].peer = loc[p].peer /\ loc'[p].todo = loc[p].todo /\ KeepsRead(p)
         /\ KeepsScan(p) /\ loc'[p].fd = loc[p].fd /\ loc'[p].ok = loc[p].ok
         /\ loc'[p].tgt = HighestId(p) + 1 /\ loc'[p].call = NoChange(HighestId(p) + 1)
         /\ loc'[p].val = NewTask
<1> DEFINE m == [loc[p] EXCEPT !.tgt = HighestId(p) + 1, !.call = NoChange(HighestId(p) + 1), !.val = NewTask]
<1>1. loc[p] \in Locals
  BY DEF TypeOK
<1>2. /\ m.op = loc[p].op /\ m.tgt = HighestId(p) + 1 /\ m.peer = loc[p].peer
      /\ m.call = NoChange(HighestId(p) + 1) /\ m.todo = loc[p].todo /\ m.seen = loc[p].seen
      /\ m.unread = loc[p].unread /\ m.scan = loc[p].scan /\ m.top = loc[p].top
      /\ m.old = loc[p].old /\ m.val = NewTask /\ m.fd = loc[p].fd /\ m.ok = loc[p].ok
  BY <1>1 DEF Locals
<1>3. Move(p, "open", m)
  BY DEF Allocate
<1> HIDE DEF m
<1>4. QED
  BY <1>2, <1>3, Moves DEF KeepsRead, KeepsScan

\* Reading one of the files listed.
LEMMA DoesReadOne ==
  ASSUME TypeOK, NEW p \in Actors, NEW i \in Ids, ReadOne(p, i)
  PROVE  /\ pc'[p] = "reading" /\ OthersStay(p) /\ KeepsWho(p) /\ KeepsCall(p) /\ KeepsScan(p)
         /\ KeepsFile(p) /\ loc'[p].ok = loc[p].ok
         /\ loc'[p].seen = [loc[p].seen EXCEPT ![i] = GetTask(i)]
         /\ loc'[p].unread = loc[p].unread \ {i}
<1> DEFINE m == [loc[p] EXCEPT !.seen[i] = GetTask(i), !.unread = @ \ {i}]
<1>1. loc[p] \in Locals
  BY DEF TypeOK
<1>2. /\ m.op = loc[p].op /\ m.tgt = loc[p].tgt /\ m.peer = loc[p].peer
      /\ m.call = loc[p].call /\ m.todo = loc[p].todo
      /\ m.seen = [loc[p].seen EXCEPT ![i] = GetTask(i)] /\ m.unread = loc[p].unread \ {i}
      /\ m.scan = loc[p].scan /\ m.top = loc[p].top /\ m.old = loc[p].old
      /\ m.val = loc[p].val /\ m.fd = loc[p].fd /\ m.ok = loc[p].ok
  BY <1>1 DEF Locals
<1>3. Move(p, "reading", m)
  BY DEF ReadOne
<1> HIDE DEF m
<1>4. QED
  BY <1>2, <1>3, Moves DEF KeepsWho, KeepsCall, KeepsScan, KeepsFile

\* Looking for the highest file.
LEMMA DoesScanFiles ==
  ASSUME TypeOK, NEW p \in Actors, NEW n \in Nat, Scans(p, n)
  PROVE  /\ pc'[p] = "scan" /\ OthersStay(p) /\ KeepsWho(p) /\ KeepsCall(p) /\ KeepsRead(p)
         /\ loc'[p].old = loc[p].old /\ KeepsFile(p) /\ loc'[p].ok = loc[p].ok /\ loc'[p].top = n
         /\ loc'[p].scan = (loc[p].scan \ {"files"}) \cup (IF loc[p].op = "reset" THEN {"mark"} ELSE {})
<1> DEFINE m == [loc[p] EXCEPT !.top = n, !.scan = (@ \ {"files"}) \cup (IF loc[p].op = "reset" THEN {"mark"} ELSE {})]
<1>1. loc[p] \in Locals
  BY DEF TypeOK
<1>2. /\ m.op = loc[p].op /\ m.tgt = loc[p].tgt /\ m.peer = loc[p].peer
      /\ m.call = loc[p].call /\ m.todo = loc[p].todo /\ m.seen = loc[p].seen
      /\ m.unread = loc[p].unread
      /\ m.scan = (loc[p].scan \ {"files"}) \cup (IF loc[p].op = "reset" THEN {"mark"} ELSE {})
      /\ m.top = n /\ m.old = loc[p].old /\ m.val = loc[p].val /\ m.fd = loc[p].fd
      /\ m.ok = loc[p].ok
  BY <1>1 DEF Locals
<1>3. Move(p, "scan", m)
  BY DEF Scans
<1> HIDE DEF m
<1>4. QED
  BY <1>2, <1>3, Moves DEF KeepsWho, KeepsCall, KeepsRead, KeepsFile

\* Going on with a call.
GoesOn(p, c, rest) == Move(p, "check", [loc[p] EXCEPT !.call = c, !.todo = rest, !.val = Absent])
\* An operation goes on with its next update.
LEMMA DoesCall ==
  ASSUME TypeOK, NEW p \in Actors, NEW c, NEW rest, GoesOn(p, c, rest)
  PROVE  /\ pc'[p] = "check" /\ OthersStay(p) /\ KeepsWho(p) /\ KeepsRead(p) /\ KeepsScan(p)
         /\ loc'[p].fd = loc[p].fd /\ loc'[p].ok = loc[p].ok /\ loc'[p].call = c
         /\ loc'[p].todo = rest /\ loc'[p].val = Absent
<1> DEFINE m == [loc[p] EXCEPT !.call = c, !.todo = rest, !.val = Absent]
<1>1. loc[p] \in Locals
  BY DEF TypeOK
<1>2. /\ m.op = loc[p].op /\ m.tgt = loc[p].tgt /\ m.peer = loc[p].peer /\ m.call = c
      /\ m.todo = rest /\ m.seen = loc[p].seen /\ m.unread = loc[p].unread
      /\ m.scan = loc[p].scan /\ m.top = loc[p].top /\ m.old = loc[p].old /\ m.val = Absent
      /\ m.fd = loc[p].fd /\ m.ok = loc[p].ok
  BY <1>1 DEF Locals
<1>3. Move(p, "check", m)
  BY DEF GoesOn
<1> HIDE DEF m
<1>4. QED
  BY <1>2, <1>3, Moves DEF KeepsWho, KeepsRead, KeepsScan

\* Starting with a call.
Begins(p, c, rest) ==
  Move(p, "check", [loc[p] EXCEPT !.call = c, !.todo = rest, !.seen = NoLocals.seen])
\* A snapshot is turned into the first update.
LEMMA DoesFirstCall ==
  ASSUME TypeOK, NEW p \in Actors, NEW c, NEW rest, Begins(p, c, rest)
  PROVE  /\ pc'[p] = "check" /\ OthersStay(p) /\ KeepsWho(p) /\ loc'[p].unread = loc[p].unread
         /\ KeepsScan(p) /\ KeepsFile(p) /\ loc'[p].ok = loc[p].ok /\ loc'[p].call = c
         /\ loc'[p].todo = rest /\ loc'[p].seen = NoLocals.seen
<1> DEFINE m == [loc[p] EXCEPT !.call = c, !.todo = rest, !.seen = NoLocals.seen]
<1>1. loc[p] \in Locals
  BY DEF TypeOK
<1>2. /\ m.op = loc[p].op /\ m.tgt = loc[p].tgt /\ m.peer = loc[p].peer /\ m.call = c
      /\ m.todo = rest /\ m.seen = NoLocals.seen /\ m.unread = loc[p].unread
      /\ m.scan = loc[p].scan /\ m.top = loc[p].top /\ m.old = loc[p].old
      /\ m.val = loc[p].val /\ m.fd = loc[p].fd /\ m.ok = loc[p].ok
  BY <1>1 DEF Locals
<1>3. Move(p, "check", m)
  BY DEF Begins
<1> HIDE DEF m
<1>4. QED
  BY <1>2, <1>3, Moves DEF KeepsWho, KeepsScan, KeepsFile

\* Going to give the list's lock back.
LEMMA DoesEndCalls ==
  ASSUME TypeOK, NEW p \in Actors, Move(p, "unlockList", [loc[p] EXCEPT !.call = None, !.val = Absent])
  PROVE  /\ pc'[p] = "unlockList" /\ OthersStay(p) /\ KeepsWho(p) /\ loc'[p].todo = loc[p].todo
         /\ KeepsRead(p) /\ KeepsScan(p) /\ loc'[p].fd = loc[p].fd /\ loc'[p].ok = loc[p].ok
         /\ loc'[p].call = None /\ loc'[p].val = Absent
<1> DEFINE m == [loc[p] EXCEPT !.call = None, !.val = Absent]
<1>1. loc[p] \in Locals
  BY DEF TypeOK
<1>2. /\ m.op = loc[p].op /\ m.tgt = loc[p].tgt /\ m.peer = loc[p].peer /\ m.call = None
      /\ m.todo = loc[p].todo /\ m.seen = loc[p].seen /\ m.unread = loc[p].unread
      /\ m.scan = loc[p].scan /\ m.top = loc[p].top /\ m.old = loc[p].old /\ m.val = Absent
      /\ m.fd = loc[p].fd /\ m.ok = loc[p].ok
  BY <1>1 DEF Locals
<1>3. Move(p, "unlockList", m)
  BY DEF AfterCall
<1> HIDE DEF m
<1>4. QED
  BY <1>2, <1>3, Moves DEF KeepsWho, KeepsRead, KeepsScan

\* Failing with the list's lock.
LEMMA DoesThrowLocked ==
  ASSUME TypeOK, NEW p \in Actors, Move(p, "unlockList", [loc[p] EXCEPT !.ok = FALSE, !.call = None, !.val = Absent])
  PROVE  /\ pc'[p] = "unlockList" /\ OthersStay(p) /\ KeepsWho(p) /\ loc'[p].todo = loc[p].todo
         /\ KeepsRead(p) /\ KeepsScan(p) /\ loc'[p].fd = loc[p].fd /\ loc'[p].ok = FALSE
         /\ loc'[p].call = None /\ loc'[p].val = Absent
<1> DEFINE m == [loc[p] EXCEPT !.ok = FALSE, !.call = None, !.val = Absent]
<1>1. loc[p] \in Locals
  BY DEF TypeOK
<1>2. /\ m.op = loc[p].op /\ m.tgt = loc[p].tgt /\ m.peer = loc[p].peer /\ m.call = None
      /\ m.todo = loc[p].todo /\ m.seen = loc[p].seen /\ m.unread = loc[p].unread
      /\ m.scan = loc[p].scan /\ m.top = loc[p].top /\ m.old = loc[p].old /\ m.val = Absent
      /\ m.fd = loc[p].fd /\ m.ok = FALSE
  BY <1>1 DEF Locals
<1>3. Move(p, "unlockList", m)
  BY DEF Throw
<1> HIDE DEF m
<1>4. QED
  BY <1>2, <1>3, Moves DEF KeepsWho, KeepsRead, KeepsScan

\* Keeping what was read.
Takes(p, label, t) ==
  Move(p, label, [loc[p] EXCEPT !.val = t])
\* What was read under a lock is kept.
LEMMA DoesSetVal ==
  ASSUME TypeOK, NEW p \in Actors, NEW label, NEW t, Takes(p, label, t)
  PROVE  /\ pc'[p] = label /\ OthersStay(p) /\ KeepsWho(p) /\ KeepsCall(p) /\ KeepsRead(p)
         /\ KeepsScan(p) /\ loc'[p].fd = loc[p].fd /\ loc'[p].ok = loc[p].ok /\ loc'[p].val = t
<1> DEFINE m == [loc[p] EXCEPT !.val = t]
<1>1. loc[p] \in Locals
  BY DEF TypeOK
<1>2. /\ m.op = loc[p].op /\ m.tgt = loc[p].tgt /\ m.peer = loc[p].peer
      /\ m.call = loc[p].call /\ m.todo = loc[p].todo /\ m.seen = loc[p].seen
      /\ m.unread = loc[p].unread /\ m.scan = loc[p].scan /\ m.top = loc[p].top
      /\ m.old = loc[p].old /\ m.val = t /\ m.fd = loc[p].fd /\ m.ok = loc[p].ok
  BY <1>1 DEF Locals
<1>3. Move(p, label, m)
  BY DEF Takes
<1> HIDE DEF m
<1>4. QED
  BY <1>2, <1>3, Moves DEF KeepsWho, KeepsCall, KeepsRead, KeepsScan

\* Deciding a claim.
Decides(p, label, free) ==
  Move(p, label, [loc[p] EXCEPT !.ok = free, !.val = Absent, !.seen = NoLocals.seen])
\* A claim is decided, and what was seen is forgotten.
LEMMA DoesDecide ==
  ASSUME TypeOK, NEW p \in Actors, NEW label, NEW free, Decides(p, label, free)
  PROVE  /\ pc'[p] = label /\ OthersStay(p) /\ KeepsWho(p) /\ KeepsCall(p)
         /\ loc'[p].unread = loc[p].unread /\ KeepsScan(p) /\ loc'[p].fd = loc[p].fd
         /\ loc'[p].ok = free /\ loc'[p].val = Absent /\ loc'[p].seen = NoLocals.seen
<1> DEFINE m == [loc[p] EXCEPT !.ok = free, !.val = Absent, !.seen = NoLocals.seen]
<1>1. loc[p] \in Locals
  BY DEF TypeOK
<1>2. /\ m.op = loc[p].op /\ m.tgt = loc[p].tgt /\ m.peer = loc[p].peer
      /\ m.call = loc[p].call /\ m.todo = loc[p].todo /\ m.seen = NoLocals.seen
      /\ m.unread = loc[p].unread /\ m.scan = loc[p].scan /\ m.top = loc[p].top
      /\ m.old = loc[p].old /\ m.val = Absent /\ m.fd = loc[p].fd /\ m.ok = free
  BY <1>1 DEF Locals
<1>3. Move(p, label, m)
  BY DEF Decides
<1> HIDE DEF m
<1>4. QED
  BY <1>2, <1>3, Moves DEF KeepsWho, KeepsCall, KeepsScan

\* Deciding a claim with the busy check.
DecidesBusy(p, label, free) ==
  Move(p, label, [loc[p] EXCEPT !.ok = free, !.seen = NoLocals.seen])
\* A claim with the busy check is decided.
LEMMA DoesDecideBusy ==
  ASSUME TypeOK, NEW p \in Actors, NEW label, NEW free, DecidesBusy(p, label, free)
  PROVE  /\ pc'[p] = label /\ OthersStay(p) /\ KeepsWho(p) /\ KeepsCall(p)
         /\ loc'[p].unread = loc[p].unread /\ KeepsScan(p) /\ KeepsFile(p) /\ loc'[p].ok = free
         /\ loc'[p].seen = NoLocals.seen
<1> DEFINE m == [loc[p] EXCEPT !.ok = free, !.seen = NoLocals.seen]
<1>1. loc[p] \in Locals
  BY DEF TypeOK
<1>2. /\ m.op = loc[p].op /\ m.tgt = loc[p].tgt /\ m.peer = loc[p].peer
      /\ m.call = loc[p].call /\ m.todo = loc[p].todo /\ m.seen = NoLocals.seen
      /\ m.unread = loc[p].unread /\ m.scan = loc[p].scan /\ m.top = loc[p].top
      /\ m.old = loc[p].old /\ m.val = loc[p].val /\ m.fd = loc[p].fd /\ m.ok = free
  BY <1>1 DEF Locals
<1>3. Move(p, label, m)
  BY DEF DecidesBusy
<1> HIDE DEF m
<1>4. QED
  BY <1>2, <1>3, Moves DEF KeepsWho, KeepsCall, KeepsScan, KeepsFile

\* Writing a file.
LEMMA DoesWrite ==
  ASSUME TypeOK, NEW p \in Actors, Write(p)
  PROVE  /\ pc'[p] = (IF loc[p].op = "create" THEN "unlockList" ELSE "unlock") /\ OthersStay(p)
         /\ KeepsWho(p) /\ KeepsCall(p) /\ KeepsRead(p) /\ KeepsScan(p) /\ loc'[p].val = Absent
         /\ loc'[p].fd = FALSE /\ loc'[p].ok = (loc[p].ok \/ loc[p].op = "finish")
<1> DEFINE m == [loc[p] EXCEPT !.val = Absent, !.fd = FALSE, !.ok = @ \/ loc[p].op = "finish"]
<1>1. loc[p] \in Locals
  BY DEF TypeOK
<1>2. /\ m.op = loc[p].op /\ m.tgt = loc[p].tgt /\ m.peer = loc[p].peer
      /\ m.call = loc[p].call /\ m.todo = loc[p].todo /\ m.seen = loc[p].seen
      /\ m.unread = loc[p].unread /\ m.scan = loc[p].scan /\ m.top = loc[p].top
      /\ m.old = loc[p].old /\ m.val = Absent /\ m.fd = FALSE
      /\ m.ok = (loc[p].ok \/ loc[p].op = "finish")
  BY <1>1 DEF Locals
<1>3. Move(p, (IF loc[p].op = "create" THEN "unlockList" ELSE "unlock"), m)
  BY DEF Write
<1> HIDE DEF m
<1>4. QED
  BY <1>2, <1>3, Moves DEF KeepsWho, KeepsCall, KeepsRead, KeepsScan

\* Going on changes the label only.
LEMMA DoesGoto ==
  ASSUME TypeOK, NEW p \in Actors, NEW label, Goto(p, label)
  PROVE  /\ pc'[p] = label /\ OthersStay(p)
         /\ KeepsWho(p) /\ KeepsCall(p) /\ KeepsRead(p) /\ KeepsScan(p) /\ KeepsFile(p)
         /\ loc'[p].ok = loc[p].ok
  BY Moves DEF Goto, KeepsWho, KeepsCall, KeepsRead, KeepsScan, KeepsFile

\* An operation that is over leaves no locals.
Cleared(p) ==
  /\ loc'[p].op = "none" /\ loc'[p].todo = {} /\ ~loc'[p].ok
  /\ \A i \in Ids : loc'[p].seen[i] = Absent
\* An operation that ends, or whose process dies, leaves no locals.
LEMMA DoesEnd ==
  ASSUME TypeOK, NEW p \in Actors, NEW label, Move(p, label, NoLocals)
  PROVE  pc'[p] = label /\ OthersStay(p) /\ Cleared(p)
  BY Moves DEF NoLocals, Cleared

\* An operation that begins has fresh locals.
Begun(p, op) ==
  /\ loc'[p].op = op /\ loc'[p].todo = {} /\ ~loc'[p].ok
  /\ \A i \in Ids : loc'[p].seen[i] = Absent
  /\ At(p, "idle") /\ op \in can[p] /\ OthersStay(p)
  /\ UNCHANGED <<disk, locks, done, context>>

\* Creating and resetting begin with the list's lock.
LEMMA DoesBeginList ==
  ASSUME TypeOK, NEW p \in Actors, BeginCreate(p) \/ BeginReset(p)
  PROVE  /\ \E op \in {"create", "reset"} : Begun(p, op)
         /\ pc'[p] = "lockList" /\ won' = won
<1>1. PICK op \in {"create", "reset"} :
        Begin(p, op, "lockList", [NoLocals EXCEPT !.op = op]) /\ UNCHANGED won
  BY DEF BeginCreate, BeginReset
<1> DEFINE m == [NoLocals EXCEPT !.op = op]
<1>2. /\ m.op = op /\ m.todo = {} /\ ~m.ok /\ \A i \in Ids : m.seen[i] = Absent
  BY DEF NoLocals
<1> HIDE DEF m
<1>3. Begin(p, op, "lockList", m)
  BY <1>1 DEF m
<1>4. QED
  BY <1>1, <1>2, <1>3, Moves DEF Begin, Begun

\* Deleting begins with the mark.
LEMMA DoesBeginDelete ==
  ASSUME TypeOK, NEW p \in Actors, NEW i \in Ids, BeginDelete(p, i)
  PROVE  /\ Begun(p, "delete") /\ i \in issued /\ loc'[p].tgt = i /\ loc'[p].top = i
         /\ loc'[p].scan = {"mark"} /\ pc'[p] = "scan" /\ won' = won
<1> DEFINE m == [NoLocals EXCEPT !.op = "delete", !.tgt = i, !.top = i, !.scan = {"mark"}]
<1>1. /\ m.op = "delete" /\ m.todo = {} /\ ~m.ok /\ (\A j \in Ids : m.seen[j] = Absent)
      /\ m.tgt = i /\ m.top = i /\ m.scan = {"mark"}
  BY DEF NoLocals
<1> HIDE DEF m
<1>2. Begin(p, "delete", "scan", m) /\ i \in issued /\ won' = won
  BY DEF m, BeginDelete
<1>3. QED
  BY <1>1, <1>2, Moves DEF Begin, Begun

\* Claiming begins with a look at the task.
LEMMA DoesBeginClaim ==
  ASSUME TypeOK, NEW p \in Actors, NEW i \in Ids, NEW op, BeginClaim(p, i, op)
  PROVE  /\ op \in {"claim", "claimBusy"} /\ Begun(p, op) /\ i \in issued /\ loc'[p].tgt = i
         /\ loc'[p].call.id = i /\ loc'[p].call.owner = p /\ loc'[p].call.status = Keep
         /\ pc'[p] = "check" /\ won' = won
<1> DEFINE m == [NoLocals EXCEPT !.op = op, !.tgt = i, !.call = [NoChange(i) EXCEPT !.owner = p]]
<1>1. /\ m.op = op /\ m.todo = {} /\ ~m.ok /\ (\A j \in Ids : m.seen[j] = Absent)
      /\ m.tgt = i /\ m.call.id = i /\ m.call.owner = p /\ m.call.status = Keep
  BY DEF NoLocals, NoChange
<1> HIDE DEF m
<1>2. Begin(p, op, "check", m) /\ i \in issued /\ won' = won /\ op \in {"claim", "claimBusy"}
  BY DEF m, BeginClaim
<1>3. QED
  BY <1>1, <1>2, Moves DEF Begin, Begun

\* An update that is all there is to an operation begins with a look too.
LEMMA DoesBeginUpdate ==
  ASSUME TypeOK, NEW p \in Actors, NEW i \in Ids, NEW op, BeginUpdate(p, i, op)
  PROVE  /\ op \in {"start", "finish", "edit", "release"}
         /\ Begun(p, op) /\ i \in issued /\ loc'[p].tgt = i
         /\ loc'[p].call.id = i /\ loc'[p].call.owner = (IF op = "release" THEN None ELSE Keep)
         /\ loc'[p].call.status = (CASE op = "start" -> "in_progress"
                                     [] op = "finish" -> "completed" [] OTHER -> Keep)
         /\ pc'[p] = "check" /\ (op \in {"start", "release"} => i \in won[p])
         /\ won' = IF op = "release" THEN [won EXCEPT ![p] = @ \ {i}] ELSE won
<1> DEFINE c == UpdateCall(op, i)
           m == [NoLocals EXCEPT !.op = op, !.tgt = i, !.call = c]
<1>1. op \in {"start", "finish", "edit", "release"}
  BY DEF BeginUpdate
<1>2. /\ c.id = i /\ c.owner = (IF op = "release" THEN None ELSE Keep)
      /\ c.status = (CASE op = "start" -> "in_progress"
                       [] op = "finish" -> "completed" [] OTHER -> Keep)
  BY <1>1 DEF UpdateCall, NoChange
<1> HIDE DEF c
<1>3. /\ m.op = op /\ m.todo = {} /\ ~m.ok /\ (\A j \in Ids : m.seen[j] = Absent)
      /\ m.tgt = i /\ m.call = c
  BY DEF NoLocals
<1> HIDE DEF m
<1>4. /\ Begin(p, op, "check", m) /\ i \in issued /\ (op \in {"start", "release"} => i \in won[p])
      /\ won' = IF op = "release" THEN [won EXCEPT ![p] = @ \ {i}] ELSE won
  BY DEF m, c, BeginUpdate
<1>5. QED
  BY <1>1, <1>2, <1>3, <1>4, Moves DEF Begin, Begun

\* So does an edit of TaskUpdateTool.
LEMMA DoesBeginToolUpdate ==
  ASSUME TypeOK, NEW p \in Actors, NEW i \in Ids, NEW op, NEW owner \in Actors \cup {None, Keep},
         NEW status \in Status \cup {Keep}, BeginToolUpdate(p, i, op, owner, status)
  PROVE  /\ op \in {"assign", "setOpen"}
         /\ Begun(p, op) /\ i \in issued /\ loc'[p].tgt = i /\ loc'[p].call.id = i
         /\ op = "assign" => loc'[p].call.status \in {Keep, "completed"}
         /\ pc'[p] = "check" /\ won' = won
<1> DEFINE c == ToolCall(p, i, owner, status)
           m == [NoLocals EXCEPT !.op = op, !.tgt = i, !.call = c]
<1>1. /\ op \in {"assign", "setOpen"} /\ (op = "assign" => status \in {Keep, "completed"})
  BY DEF BeginToolUpdate
<1>2. c.id = i /\ c.status \in {Keep, status}
  BY ToolCallType
<1> HIDE DEF c
<1>3. /\ m.op = op /\ m.todo = {} /\ ~m.ok /\ (\A j \in Ids : m.seen[j] = Absent)
      /\ m.tgt = i /\ m.call = c
  BY DEF NoLocals
<1> HIDE DEF m
<1>4. Begin(p, op, "check", m) /\ i \in issued /\ won' = won
  BY DEF m, c, BeginToolUpdate
<1>5. QED
  BY <1>1, <1>2, <1>3, <1>4, Moves DEF Begin, Begun

\* Blocking begins with the two tasks.
LEMMA DoesBeginBlock ==
  ASSUME TypeOK, NEW p \in Actors, NEW i \in Ids, NEW j \in Ids, BeginBlock(p, i, j)
  PROVE  /\ Begun(p, "block") /\ i \in issued /\ j \in issued /\ loc'[p].tgt = i
         /\ loc'[p].peer = j /\ pc'[p] = "reading" /\ won' = won
<1> DEFINE m == [NoLocals EXCEPT !.op = "block", !.tgt = i, !.peer = j, !.unread = {i, j}]
<1>1. /\ m.op = "block" /\ m.todo = {} /\ ~m.ok /\ (\A k \in Ids : m.seen[k] = Absent)
      /\ m.tgt = i /\ m.peer = j
  BY DEF NoLocals
<1> HIDE DEF m
<1>2. Begin(p, "block", "reading", m) /\ i \in issued /\ j \in issued /\ won' = won
  BY DEF m, BeginBlock
<1>3. QED
  BY <1>1, <1>2, Moves DEF Begin, Begun

\* Giving a teammate's tasks back begins with the list.
LEMMA DoesBeginUnassign ==
  ASSUME TypeOK, NEW p \in Actors, NEW q, BeginUnassign(p, q)
  PROVE  Begun(p, "unassign") /\ pc'[p] = "list" /\ won' = won
<1> DEFINE m == [NoLocals EXCEPT !.op = "unassign", !.peer = q]
<1>1. m.op = "unassign" /\ m.todo = {} /\ ~m.ok /\ (\A k \in Ids : m.seen[k] = Absent)
  BY DEF NoLocals
<1> HIDE DEF m
<1>2. Begin(p, "unassign", "list", m) /\ won' = won
  BY DEF m, BeginUnassign
<1>3. QED
  BY <1>1, <1>2, Moves DEF Begin, Begun

-----------------------------------------------------------------------------
(* Locks, ids and calls: the invariant Base, and that every step keeps it. *)

\* The operation of p has the list's lock.
InList(p) ==
  \/ /\ loc[p].op \in {"create", "reset"}
     /\ pc[p] \in {"scan", "writeMark", "dir", "unlinkAll", "open", "write", "unlockList"}
  \/ /\ loc[p].op = "claimBusy"
     /\ \/ pc[p] \in {"list", "reading", "lockTask", "read", "open", "write", "unlock", "unlockList"}
        \/ loc[p].ok

\* The operation of p has the lock of the task it updates.
InTask(p) ==
  /\ loc[p].op # "create"
  /\ \/ pc[p] \in {"reread", "read", "open", "write", "unlock"}
     \/ pc[p] \in {"list", "reading"} /\ loc[p].op = "claim"

LockedFor(p) ==
  /\ InList(p) => listLock = p
  /\ listLock = p => At(p, "crashed") \/ InList(p)
  /\ InTask(p) => taskLock[loc[p].call.id] = p
  /\ At(p, "unlockList") => loc[p].op \in {"create", "reset", "claimBusy"}

\* Every id an operation names has been given out.
KnownFor(p) ==
  /\ won[p] \subseteq issued
  /\ loc[p].op \notin {"none", "create", "reset", "unassign"} => loc[p].tgt \in issued
  /\ loc[p].op # "create" /\ pc[p] \in CallLabels => loc[p].call.id \in issued
  /\ pc[p] = "write" => loc[p].call.id \in issued
  /\ \A c \in loc[p].todo : c.id \in issued
  /\ \A i \in Ids : loc[p].seen[i] # Absent => i \in issued

\* What an update writes to the owner and the status, by operation.
CallIs(p, op, c) ==
  /\ c.owner = CASE op \in {"claim", "claimBusy"} -> p
                 [] op \in {"release", "unassign"} -> None
                 [] op \in {"assign", "setOpen"} -> c.owner
                 [] OTHER -> Keep
  /\ c.status = CASE op = "start" -> "in_progress"
                  [] op = "finish" -> "completed"
                  [] op = "unassign" -> "pending"
                  [] op \in {"assign", "setOpen"} -> c.status
                  [] OTHER -> Keep
  /\ op = "assign" => c.status \in {Keep, "completed"}

CallsFor(p) ==
  /\ pc[p] \in CallLabels => CallIs(p, loc[p].op, loc[p].call)
  /\ \A c \in loc[p].todo : CallIs(p, loc[p].op, c)
  /\ loc[p].op \in {"start", "finish", "release"} /\ pc[p] \in CallLabels =>
       loc[p].call.id = loc[p].tgt
  /\ loc[p].op \notin {"delete", "block", "unassign"} => loc[p].todo = {}
  /\ loc[p].op = "finish" /\ loc[p].ok => At(p, "unlock")
  /\ loc[p].op = "claim" /\ loc[p].ok => pc[p] \in {"read", "open", "write", "unlock"}
  /\ loc[p].op = "claim" /\ pc[p] \in {"read", "open", "write"} => loc[p].ok
  /\ loc[p].op = "claimBusy" /\ pc[p] \in {"lockTask", "read", "open", "write", "unlock"} => loc[p].ok
  /\ loc[p].op = "release" => loc[p].tgt \notin won[p]
  /\ won[p] # {} => can[p] \cap {"claim", "claimBusy"} # {}

BaseFor(p) == LockedFor(p) /\ KnownFor(p) /\ CallsFor(p)
FilesKnown == (\A i \in Ids : file[i] # Absent => i \in issued) /\ done \subseteq issued
Base == TypeInv /\ FilesKnown /\ \A p \in Actors : BaseFor(p)

\* A step leaves actor q's operation where it is (an unlink may take the file
\* from under its open descriptor).
Keeps(q) ==
  /\ pc'[q] = pc[q] /\ KeepsWho(q) /\ KeepsCall(q) /\ KeepsRead(q) /\ KeepsScan(q)
  /\ loc'[q].val = loc[q].val /\ loc'[q].ok = loc[q].ok

\* A step of p leaves the others' operations, locks and claims alone.
OnlyBy(p) ==
  /\ \A q \in Actors \ {p} : /\ Keeps(q)
                             /\ listLock' = q <=> listLock = q
                             /\ won'[q] = won[q]
                             /\ \A i \in Ids : taskLock[i] = q => taskLock'[i] = q
  /\ issued \subseteq issued' /\ can' = can

\* A step of p leaves what Base says of the others.
LEMMA OthersBase ==
  ASSUME Base, NEW p \in Actors, OnlyBy(p), NEW q \in Actors, q # p
  PROVE  BaseFor(q)'
<1>1. /\ pc'[q] = pc[q] /\ loc'[q].op = loc[q].op /\ loc'[q].tgt = loc[q].tgt
      /\ loc'[q].call = loc[q].call /\ loc'[q].todo = loc[q].todo
      /\ loc'[q].seen = loc[q].seen /\ loc'[q].ok = loc[q].ok
      /\ (listLock' = q <=> listLock = q) /\ won'[q] = won[q]
      /\ (\A i \in Ids : taskLock[i] = q => taskLock'[i] = q)
      /\ issued \subseteq issued' /\ can' = can
  BY DEF OnlyBy, Keeps, KeepsWho, KeepsCall, KeepsRead
<1>2. BaseFor(q) /\ Shape(can[q], q, pc[q], loc[q])
  BY DEF Base, TypeInv, Shapes
<1>3. InTask(q) => loc[q].call.id \in Ids
  BY <1>2, CallTypes DEF InTask, Shape, CallLabels, Call
<1>4. LockedFor(q)'
  BY <1>1, <1>2, <1>3 DEF BaseFor, LockedFor, InList, InTask, At
<1>5. KnownFor(q)'
  BY <1>1, <1>2 DEF BaseFor, KnownFor
<1>6. CallsFor(q)'
  BY <1>1, <1>2 DEF BaseFor, CallsFor, CallIs, At
<1>7. QED
  BY <1>4, <1>5, <1>6 DEF BaseFor

\* Who does not move keeps its operation.
LEMMA StayKeeps ==
  ASSUME NEW p \in Actors, OthersStay(p), NEW q \in Actors, q # p
  PROVE  Keeps(q)
  BY DEF OthersStay, Keeps, KeepsWho, KeepsCall, KeepsRead, KeepsScan

\* A step of p that moves its own operation keeps Base.
LEMMA BaseBy ==
  ASSUME Base, NEW p \in Actors, OnlyBy(p), BaseFor(p)', FilesKnown', TypeInv'
  PROVE  Base'
  BY OthersBase DEF Base

\* What a step of p may do to Base.
Sound(p) == OnlyBy(p) /\ BaseFor(p)' /\ FilesKnown'

\* A step that leaves files, locks, claims and the others alone.
LEMMA QuietStep ==
  ASSUME Base, NEW p \in Actors, OthersStay(p), UNCHANGED <<file, locks, done, context>>,
         \A q \in Actors \ {p} : won'[q] = won[q]
  PROVE  OnlyBy(p) /\ FilesKnown'
  BY StayKeeps DEF OnlyBy, Base, FilesKnown, locks, context

\* An operation that begins holds no lock.
LEMMA BeginLocked ==
  ASSUME Base, NEW p \in Actors, NEW op \in Ops, Begun(p, op), pc'[p] \in {"check", "lockList", "scan", "list", "reading"},
         pc'[p] = "scan" => op = "delete",
         pc'[p] \in {"list", "reading"} => op \notin {"claim", "claimBusy"}
  PROVE  LockedFor(p)'
<1>1. LockedFor(p) /\ loc[p].op = "none" /\ pc[p] = "idle"
  BY DEF Base, BaseFor, TypeInv, Shapes, Shape, Begun, At, Active
<1>2. listLock # p
  BY <1>1 DEF LockedFor, InList, At
<1>3. QED
  BY <1>1, <1>2 DEF LockedFor, InList, InTask, At, Begun, locks

\* Every call of an agent keeps Base.
LEMMA BaseBegins ==
  ASSUME Base, NEW p \in Actors, Request(p)
  PROVE  Sound(p)
<1>0. TypeOK /\ BaseFor(p) /\ can \in [Actors -> SUBSET Ops] /\ won \in [Actors -> SUBSET Ids]
  BY DEF Base, TypeInv, TypeOK
<1>1. ASSUME NEW op, Begun(p, op), \A q \in Actors \ {p} : won'[q] = won[q]
      PROVE  OnlyBy(p) /\ FilesKnown' /\ op \in Ops /\ can' = can /\ issued' = issued
  BY <1>0, <1>1, QuietStep DEF Begun, disk, context
<1>2. CASE BeginCreate(p) \/ BeginReset(p)
  <2>1. PICK op \in {"create", "reset"} : Begun(p, op)
    BY <1>0, <1>2, DoesBeginList
  <2>2. pc'[p] = "lockList" /\ won' = won
    BY <1>0, <1>2, DoesBeginList
  <2>3. OnlyBy(p) /\ FilesKnown' /\ op \in Ops /\ can' = can /\ issued' = issued
    BY <1>1, <2>1, <2>2
  <2>4. LockedFor(p)'
    BY <2>1, <2>2, <2>3, BeginLocked
  <2>5. KnownFor(p)' /\ CallsFor(p)'
    BY <1>0, <2>1, <2>2, <2>3 DEF Begun, KnownFor, CallsFor, CallLabels, BaseFor
  <2>6. QED
    BY <2>3, <2>4, <2>5 DEF Sound, BaseFor
<1>3. ASSUME NEW i \in Ids, BeginDelete(p, i)
      PROVE  Sound(p)
  <2>1. /\ Begun(p, "delete") /\ i \in issued /\ loc'[p].tgt = i
        /\ pc'[p] = "scan" /\ won' = won
    BY <1>0, <1>3, DoesBeginDelete
  <2>3. OnlyBy(p) /\ FilesKnown' /\ "delete" \in Ops /\ can' = can /\ issued' = issued
    BY <1>1, <2>1
  <2>4. LockedFor(p)'
    BY <2>1, <2>3, BeginLocked
  <2>5. KnownFor(p)' /\ CallsFor(p)'
    BY <1>0, <2>1, <2>3 DEF Begun, KnownFor, CallsFor, CallLabels, BaseFor
  <2>6. QED
    BY <2>3, <2>4, <2>5 DEF Sound, BaseFor
<1>4. ASSUME NEW i \in Ids, NEW op \in {"claim", "claimBusy"}, BeginClaim(p, i, op)
      PROVE  Sound(p)
  <2>1. /\ Begun(p, op) /\ i \in issued /\ loc'[p].tgt = i
        /\ loc'[p].call.id = i /\ loc'[p].call.owner = p /\ loc'[p].call.status = Keep
        /\ pc'[p] = "check" /\ won' = won
    BY <1>0, <1>4, DoesBeginClaim
  <2>3. OnlyBy(p) /\ FilesKnown' /\ op \in Ops /\ can' = can /\ issued' = issued
    BY <1>1, <2>1
  <2>4. LockedFor(p)'
    BY <2>1, <2>3, BeginLocked
  <2>5. KnownFor(p)' /\ CallsFor(p)'
    BY <1>0, <2>1, <2>3 DEF Begun, KnownFor, CallsFor, CallIs, CallLabels, BaseFor
  <2>6. QED
    BY <2>3, <2>4, <2>5 DEF Sound, BaseFor
<1>5. ASSUME NEW i \in Ids, NEW op \in {"start", "finish", "edit", "release"}, BeginUpdate(p, i, op)
      PROVE  Sound(p)
  <2>1. /\ Begun(p, op) /\ i \in issued /\ loc'[p].tgt = i
        /\ loc'[p].call.id = i /\ loc'[p].call.owner = (IF op = "release" THEN None ELSE Keep)
        /\ loc'[p].call.status = (CASE op = "start" -> "in_progress"
                                    [] op = "finish" -> "completed" [] OTHER -> Keep)
        /\ pc'[p] = "check"
        /\ won' = IF op = "release" THEN [won EXCEPT ![p] = @ \ {i}] ELSE won
    BY <1>0, <1>5, DoesBeginUpdate
  <2>2. /\ \A q \in Actors \ {p} : won'[q] = won[q]
        /\ won'[p] = IF op = "release" THEN won[p] \ {i} ELSE won[p]
    BY <1>0, <2>1
  <2>3. OnlyBy(p) /\ FilesKnown' /\ op \in Ops /\ can' = can /\ issued' = issued
    BY <1>1, <2>1, <2>2
  <2>4. LockedFor(p)'
    BY <2>1, <2>3, BeginLocked
  <2>5. KnownFor(p)'
    BY <1>0, <2>1, <2>2, <2>3 DEF Begun, KnownFor, BaseFor
  <2>6. CallIs(p, op, loc[p].call)'
    BY <2>1 DEF CallIs
  <2>7. CallsFor(p)'
    BY <1>0, <2>1, <2>2, <2>3, <2>6 DEF Begun, CallsFor, CallLabels, BaseFor
  <2>8. QED
    BY <2>3, <2>4, <2>5, <2>7 DEF Sound, BaseFor
<1>6. ASSUME NEW i \in Ids, NEW j \in Ids, BeginBlock(p, i, j)
      PROVE  Sound(p)
  <2>1. /\ Begun(p, "block") /\ i \in issued /\ loc'[p].tgt = i
        /\ pc'[p] = "reading" /\ won' = won
    BY <1>0, <1>6, DoesBeginBlock
  <2>3. OnlyBy(p) /\ FilesKnown' /\ "block" \in Ops /\ can' = can /\ issued' = issued
    BY <1>1, <2>1
  <2>4. LockedFor(p)'
    BY <2>1, <2>3, BeginLocked
  <2>5. KnownFor(p)' /\ CallsFor(p)'
    BY <1>0, <2>1, <2>3 DEF Begun, KnownFor, CallsFor, CallLabels, BaseFor
  <2>6. QED
    BY <2>3, <2>4, <2>5 DEF Sound, BaseFor
<1>7. ASSUME NEW q \in Actors, BeginUnassign(p, q)
      PROVE  Sound(p)
  <2>1. Begun(p, "unassign") /\ pc'[p] = "list" /\ won' = won
    BY <1>0, <1>7, DoesBeginUnassign
  <2>3. OnlyBy(p) /\ FilesKnown' /\ "unassign" \in Ops /\ can' = can /\ issued' = issued
    BY <1>1, <2>1
  <2>4. LockedFor(p)'
    BY <2>1, <2>3, BeginLocked
  <2>5. KnownFor(p)' /\ CallsFor(p)'
    BY <1>0, <2>1, <2>3 DEF Begun, KnownFor, CallsFor, CallLabels, BaseFor
  <2>6. QED
    BY <2>3, <2>4, <2>5 DEF Sound, BaseFor
<1>8. ASSUME NEW i \in Ids, NEW op \in {"assign", "setOpen"}, NEW owner \in Actors \cup {None, Keep},
             NEW status \in Status \cup {Keep}, BeginToolUpdate(p, i, op, owner, status)
      PROVE  Sound(p)
  <2>1. /\ Begun(p, op) /\ i \in issued /\ loc'[p].tgt = i /\ loc'[p].call.id = i
        /\ op = "assign" => loc'[p].call.status \in {Keep, "completed"}
        /\ pc'[p] = "check" /\ won' = won
    BY <1>0, <1>8, DoesBeginToolUpdate
  <2>2. OnlyBy(p) /\ FilesKnown' /\ op \in Ops /\ can' = can /\ issued' = issued
    BY <1>1, <2>1
  <2>3. LockedFor(p)'
    BY <2>1, <2>2, BeginLocked
  <2>4. CallIs(p, op, loc[p].call)'
    BY <2>1 DEF CallIs
  <2>5. KnownFor(p)' /\ CallsFor(p)'
    BY <1>0, <2>1, <2>2, <2>4 DEF Begun, KnownFor, CallsFor, CallLabels, BaseFor
  <2>6. QED
    BY <2>2, <2>3, <2>5 DEF Sound, BaseFor
<1>9. QED
  BY <1>2, <1>3, <1>4, <1>5, <1>6, <1>7, <1>8 DEF Request

\* What p may do to the locks others hold.
LocksOnlyBy(p) ==
  /\ \A q \in Actors \ {p} : listLock' = q <=> listLock = q
  /\ \A q \in Actors \ {p} : \A i \in Ids : taskLock[i] = q => taskLock'[i] = q

\* A step that only takes or gives up locks is nobody else's business.
LEMMA LockStep ==
  ASSUME Base, NEW p \in Actors, OthersStay(p), UNCHANGED <<file, done, context>>, LocksOnlyBy(p),
         \A q \in Actors \ {p} : won'[q] = won[q]
  PROVE  OnlyBy(p) /\ FilesKnown'
  BY StayKeeps DEF OnlyBy, Base, FilesKnown, context, LocksOnlyBy

\* What the end of an operation adds to what is known.
LEMMA DoesReturn ==
  ASSUME TypeOK, NEW p \in Actors, Return(p)
  PROVE  /\ pc'[p] = "idle" /\ OthersStay(p) /\ Cleared(p)
         /\ \A q \in Actors \ {p} : won'[q] = won[q]
         /\ won'[p] = IF loc[p].ok /\ loc[p].op \in {"claim", "claimBusy"}
                      THEN won[p] \cup {loc[p].tgt} ELSE won[p]
         /\ done' = IF loc[p].ok /\ loc[p].op = "finish" THEN done \cup {loc[p].tgt} ELSE done
<1>1. Move(p, "idle", NoLocals)
  BY DEF Return
<1>2. pc'[p] = "idle" /\ OthersStay(p) /\ Cleared(p)
  BY <1>1, DoesEnd
<1>3. won \in [Actors -> SUBSET Ids]
  BY DEF TypeOK
<1>4. QED
  BY <1>2, <1>3 DEF Return

\* The end of an operation keeps Base.
LEMMA BaseReturn ==
  ASSUME Base, NEW p \in Actors, Return(p), UNCHANGED <<file, context>>, LocksOnlyBy(p),
         listLock' # p, Active(pc[p])
  PROVE  Sound(p)
<1>0. TypeOK /\ BaseFor(p) /\ Shape(can[p], p, pc[p], loc[p])
  BY DEF Base, TypeInv, Shapes
<1>1. /\ pc'[p] = "idle" /\ OthersStay(p) /\ Cleared(p)
      /\ \A q \in Actors \ {p} : won'[q] = won[q]
      /\ won'[p] = IF loc[p].ok /\ loc[p].op \in {"claim", "claimBusy"}
                   THEN won[p] \cup {loc[p].tgt} ELSE won[p]
      /\ done' = IF loc[p].ok /\ loc[p].op = "finish" THEN done \cup {loc[p].tgt} ELSE done
  BY <1>0, DoesReturn
<1>2. OnlyBy(p)
  BY <1>1, StayKeeps DEF OnlyBy, LocksOnlyBy, context
<1>3. FilesKnown'
  BY <1>0, <1>1 DEF Base, FilesKnown, BaseFor, KnownFor, context
<1>4. LockedFor(p)'
  BY <1>1 DEF LockedFor, InList, InTask, Cleared, At
<1>5. KnownFor(p)'
  BY <1>0, <1>1 DEF KnownFor, BaseFor, Cleared, CallLabels, context
<1>6. CallsFor(p)'
  BY <1>0, <1>1 DEF CallsFor, BaseFor, Cleared, CallLabels, context, Shape
<1>7. QED
  BY <1>2, <1>3, <1>4, <1>5, <1>6 DEF Sound, BaseFor

\* The end of an update keeps Base.
LEMMA BaseAfterCall ==
  ASSUME Base, NEW p \in Actors, AfterCall(p), UNCHANGED <<file, listLock, context>>, LocksOnlyBy(p),
         pc[p] \in {"check", "unlock"}
  PROVE  Sound(p)
<1>0. TypeOK /\ BaseFor(p) /\ Shape(can[p], p, pc[p], loc[p]) /\ loc[p] \in Locals
  BY DEF Base, TypeInv, TypeOK, Shapes
<1>1. ASSUME NEW c \in loc[p].todo, UNCHANGED told,
             Move(p, "check", [loc[p] EXCEPT !.call = c, !.todo = @ \ {c}, !.val = Absent])
      PROVE  Sound(p)
  <2>1. GoesOn(p, c, loc[p].todo \ {c})
    BY <1>0, <1>1 DEF Locals, GoesOn
  <2>2. /\ pc'[p] = "check" /\ OthersStay(p) /\ KeepsWho(p) /\ KeepsRead(p)
        /\ loc'[p].ok = loc[p].ok /\ loc'[p].call = c /\ loc'[p].todo = loc[p].todo \ {c}
    BY <1>0, <2>1, DoesCall
  <2>3. OnlyBy(p) /\ FilesKnown' /\ won' = won /\ issued' = issued
    BY <1>1, <2>2, LockStep DEF told, context
  <2>4. loc[p].op \in {"delete", "block", "unassign"}
    BY <1>0, <1>1 DEF BaseFor, CallsFor
  <2>5. LockedFor(p)'
    BY <1>0, <2>2, <2>4 DEF LockedFor, BaseFor, InList, InTask, At, KeepsWho
  <2>6. KnownFor(p)'
    BY <1>0, <1>1, <2>2, <2>3, <2>4 DEF KnownFor, BaseFor, KeepsWho, KeepsRead
  <2>7. CallsFor(p)'
    BY <1>0, <1>1, <2>2, <2>3, <2>4 DEF CallsFor, BaseFor, KeepsWho, At, context, CallIs
  <2>8. QED
    BY <2>3, <2>5, <2>6, <2>7 DEF Sound, BaseFor
<1>2. CASE /\ loc[p].todo = {} /\ listLock = p /\ UNCHANGED told
           /\ Move(p, "unlockList", [loc[p] EXCEPT !.call = None, !.val = Absent])
  <2>2. /\ pc'[p] = "unlockList" /\ OthersStay(p) /\ KeepsWho(p) /\ KeepsRead(p)
        /\ loc'[p].ok = loc[p].ok /\ loc'[p].todo = loc[p].todo
    BY <1>0, <1>2, DoesEndCalls
  <2>3. OnlyBy(p) /\ FilesKnown' /\ won' = won /\ issued' = issued
    BY <1>2, <2>2, LockStep DEF told, context
  <2>4. loc[p].op = "claimBusy"
    BY <1>0, <1>2 DEF BaseFor, LockedFor, InList, At
  <2>5. LockedFor(p)'
    BY <1>0, <1>2, <2>2, <2>4 DEF LockedFor, BaseFor, InList, InTask, At, KeepsWho
  <2>6. KnownFor(p)'
    BY <1>0, <1>2, <2>2, <2>3, <2>4 DEF KnownFor, BaseFor, KeepsWho, KeepsRead, CallLabels
  <2>7. CallsFor(p)'
    BY <1>0, <1>2, <2>2, <2>3, <2>4 DEF CallsFor, BaseFor, KeepsWho, At, context, CallLabels
  <2>8. QED
    BY <2>3, <2>5, <2>6, <2>7 DEF Sound, BaseFor
<1>3. CASE listLock # p /\ Return(p)
  BY <1>3, BaseReturn DEF Active
<1>4. QED
  BY <1>1, <1>2, <1>3 DEF AfterCall

\* An exception keeps Base.
LEMMA BaseThrow ==
  ASSUME Base, NEW p \in Actors, Throw(p), UNCHANGED <<disk, locks, context>>, Active(pc[p])
  PROVE  Sound(p)
<1>0. TypeOK /\ BaseFor(p) /\ Shape(can[p], p, pc[p], loc[p])
  BY DEF Base, TypeInv, Shapes
<1>1. LocksOnlyBy(p) /\ UNCHANGED <<file, done, context>> /\ won' = won /\ issued' = issued
      /\ listLock' = listLock /\ taskLock' = taskLock
  BY DEF LocksOnlyBy, locks, disk, Throw, told, context
<1>2. CASE listLock = p /\ Move(p, "unlockList", [loc[p] EXCEPT !.ok = FALSE, !.call = None, !.val = Absent])
  <2>2. /\ pc'[p] = "unlockList" /\ OthersStay(p) /\ KeepsWho(p) /\ KeepsRead(p)
        /\ loc'[p].ok = FALSE /\ loc'[p].todo = loc[p].todo
    BY <1>0, <1>2, DoesThrowLocked
  <2>3. OnlyBy(p) /\ FilesKnown'
    BY <1>1, <2>2, LockStep
  <2>4. loc[p].op \in {"claimBusy", "create", "reset"}
    BY <1>0, <1>2 DEF BaseFor, LockedFor, InList, At, Active
  <2>5. LockedFor(p)'
    BY <1>0, <1>1, <1>2, <2>2, <2>4 DEF LockedFor, BaseFor, InList, InTask, At, KeepsWho
  <2>6. KnownFor(p)'
    BY <1>0, <1>1, <2>2, <2>3, <2>4 DEF KnownFor, BaseFor, KeepsWho, KeepsRead, CallLabels
  <2>7. CallsFor(p)'
    BY <1>0, <1>1, <2>2, <2>3, <2>4 DEF CallsFor, CallIs, BaseFor, KeepsWho, At, context, CallLabels
  <2>8. QED
    BY <2>3, <2>5, <2>6, <2>7 DEF Sound, BaseFor
<1>3. CASE listLock # p /\ Move(p, "idle", NoLocals)
  <2>2. pc'[p] = "idle" /\ OthersStay(p) /\ Cleared(p)
    BY <1>0, <1>3, DoesEnd
  <2>3. OnlyBy(p) /\ FilesKnown'
    BY <1>1, <2>2, LockStep
  <2>5. LockedFor(p)'
    BY <1>0, <1>1, <1>3, <2>2 DEF LockedFor, BaseFor, InList, InTask, At, Cleared
  <2>6. KnownFor(p)'
    BY <1>0, <1>1, <2>2, <2>3 DEF KnownFor, BaseFor, Cleared, CallLabels
  <2>7. CallsFor(p)'
    BY <1>0, <1>1, <2>2, <2>3 DEF CallsFor, CallIs, BaseFor, Cleared, At, context, CallLabels
  <2>8. QED
    BY <2>3, <2>5, <2>6, <2>7 DEF Sound, BaseFor
<1>4. QED
  BY <1>2, <1>3 DEF Throw

\* Starting to scan with the list's lock.
LEMMA DoesStartScan ==
  ASSUME TypeOK, NEW p \in Actors, NEW S, Move(p, "scan", [loc[p] EXCEPT !.scan = S])
  PROVE  /\ pc'[p] = "scan" /\ OthersStay(p) /\ KeepsWho(p) /\ KeepsCall(p) /\ KeepsRead(p)
         /\ loc'[p].ok = loc[p].ok /\ KeepsFile(p) /\ loc'[p].scan = S
         /\ loc'[p].top = loc[p].top /\ loc'[p].old = loc[p].old
<1> DEFINE m == [loc[p] EXCEPT !.scan = S]
<1>1. loc[p] \in Locals
  BY DEF TypeOK
<1>2. /\ m.op = loc[p].op /\ m.tgt = loc[p].tgt /\ m.peer = loc[p].peer
      /\ m.call = loc[p].call /\ m.todo = loc[p].todo /\ m.seen = loc[p].seen
      /\ m.unread = loc[p].unread /\ m.scan = S /\ m.top = loc[p].top /\ m.old = loc[p].old
      /\ m.val = loc[p].val /\ m.fd = loc[p].fd /\ m.ok = loc[p].ok
  BY <1>1 DEF Locals
<1>3. Move(p, "scan", m)
  OBVIOUS
<1> HIDE DEF m
<1>4. QED
  BY <1>2, <1>3, Moves DEF KeepsWho, KeepsCall, KeepsRead, KeepsFile

\* Taking the list's lock, in fields.
LEMMA DoesLockList ==
  ASSUME TypeOK, NEW p \in Actors, LockList(p)
  PROVE  /\ pc[p] = "lockList" /\ listLock = None /\ listLock' = p
         /\ UNCHANGED <<disk, taskLock, told, context>>
         /\ OthersStay(p) /\ KeepsWho(p) /\ KeepsCall(p) /\ KeepsRead(p) /\ KeepsFile(p)
         /\ loc'[p].ok = loc[p].ok
         /\ \/ pc'[p] = "scan" /\ loc[p].op = "create" /\ loc'[p].scan = {"files", "mark"}
            \/ pc'[p] = "scan" /\ loc[p].op = "reset" /\ loc'[p].scan = {"files"}
            \/ pc'[p] = "list" /\ loc[p].op = "claimBusy"
<1>1. CASE loc[p].op = "create" /\ Move(p, "scan", [loc[p] EXCEPT !.scan = {"files", "mark"}])
  BY <1>1, DoesStartScan DEF LockList, At
<1>2. CASE loc[p].op = "reset" /\ Move(p, "scan", [loc[p] EXCEPT !.scan = {"files"}])
  BY <1>2, DoesStartScan DEF LockList, At
<1>3. CASE loc[p].op = "claimBusy" /\ Goto(p, "list")
  BY <1>3, DoesGoto DEF LockList, At
<1>4. QED
  BY <1>1, <1>2, <1>3 DEF LockList

\* Taking the list's lock keeps Base.
LEMMA BaseLockList ==
  ASSUME Base, NEW p \in Actors, LockList(p)
  PROVE  Sound(p)
<1>0. TypeOK /\ BaseFor(p) /\ Shape(can[p], p, pc[p], loc[p])
  BY DEF Base, TypeInv, Shapes
<1>1. /\ pc[p] = "lockList" /\ listLock = None /\ listLock' = p
      /\ UNCHANGED <<disk, taskLock, told, context>>
      /\ OthersStay(p) /\ KeepsWho(p) /\ KeepsCall(p) /\ KeepsRead(p)
      /\ loc'[p].ok = loc[p].ok
      /\ \/ pc'[p] = "scan" /\ loc[p].op \in {"create", "reset"}
         \/ pc'[p] = "list" /\ loc[p].op = "claimBusy"
  BY <1>0, DoesLockList
<1>2. OnlyBy(p) /\ FilesKnown'
  BY <1>1, LockStep, SentinelsAssumption DEF LocksOnlyBy, disk, told
<1>3. LockedFor(p)'
  BY <1>0, <1>1 DEF LockedFor, BaseFor, InList, InTask, At, KeepsWho
<1>4. KnownFor(p)'
  BY <1>0, <1>1 DEF KnownFor, BaseFor, KeepsWho, KeepsRead, KeepsCall, CallLabels, told, context
<1>5. CallsFor(p)'
  BY <1>0, <1>1 DEF CallsFor, CallIs, BaseFor, KeepsWho, KeepsCall, At, context, told, CallLabels
<1>6. QED
  BY <1>2, <1>3, <1>4, <1>5 DEF Sound, BaseFor

\* A step that only moves p, and leaves everything shared alone.
LEMMA QuietShared ==
  ASSUME Base, NEW p \in Actors, OthersStay(p), UNCHANGED <<file, locks, told, context>>
  PROVE  /\ OnlyBy(p) /\ FilesKnown' /\ won' = won /\ issued' = issued /\ can' = can
         /\ listLock' = listLock /\ taskLock' = taskLock
  BY QuietStep DEF told, locks, context, disk

\* Going on with the same locals, where the locks in use are the same.
LEMMA BaseGoto ==
  ASSUME Base, NEW p \in Actors, NEW label, pc'[p] = label, Active(pc[p]),
         OthersStay(p), KeepsWho(p), KeepsCall(p), loc'[p].seen = loc[p].seen, loc'[p].ok = loc[p].ok,
         UNCHANGED <<file, locks, told, context>>,
         label \notin {"crashed", "write"}, InList(p)' => InList(p), InList(p) => InList(p)',
         InTask(p)' => InTask(p),
         label = "unlockList" => loc[p].op \in {"create", "reset", "claimBusy"},
         label \in CallLabels => pc[p] \in CallLabels \/ loc[p].op = "claim",
         loc[p].op = "finish" => ~loc[p].ok,
         loc[p].op = "claim" => \/ loc[p].ok /\ label \in {"read", "open", "write", "unlock"}
                                \/ ~loc[p].ok /\ label \notin {"read", "open", "write"},
         loc[p].op = "claimBusy" /\ label \in {"lockTask", "read", "open", "write", "unlock"} => loc[p].ok
  PROVE  Sound(p)
<1>0. BaseFor(p) /\ Shape(can[p], p, pc[p], loc[p])
  BY DEF Base, TypeInv, Shapes
<1>1. /\ OnlyBy(p) /\ FilesKnown' /\ won' = won /\ issued' = issued /\ can' = can
      /\ listLock' = listLock /\ taskLock' = taskLock
  BY QuietShared
<1>2. /\ loc'[p].op = loc[p].op /\ loc'[p].tgt = loc[p].tgt
      /\ loc'[p].call = loc[p].call /\ loc'[p].todo = loc[p].todo
  BY DEF KeepsWho, KeepsCall
<1>3. LockedFor(p)'
  BY <1>0, <1>1, <1>2 DEF LockedFor, BaseFor, At, Active
<1>4. KnownFor(p)'
  <2>1. loc[p].op = "claim" /\ label \in CallLabels => loc[p].call.id \in issued
    <3>1. loc[p].op = "claim" => loc[p].tgt \in issued /\ pc[p] # "unlockList"
      BY <1>0 DEF BaseFor, KnownFor, LockedFor, At
    <3>2. loc[p].op = "claim" => loc[p].call.id = loc[p].tgt
      BY <1>0, <3>1 DEF Shape, NoChange
    <3> QED
      BY <3>1, <3>2
  <2> QED
    BY <1>0, <1>1, <1>2, <2>1 DEF KnownFor, BaseFor
<1>5. CallsFor(p)'
  <2>1. loc[p].op = "claim" /\ label \in CallLabels => CallIs(p, loc[p].op, loc[p].call)
    <3>1. loc[p].op = "claim" => pc[p] # "unlockList"
      BY <1>0 DEF BaseFor, LockedFor, At
    <3>2. loc[p].op = "claim" => loc[p].call.owner = p /\ loc[p].call.status = Keep
      BY <1>0, <3>1 DEF Shape, NoChange
    <3> QED
      BY <3>2 DEF CallIs
  <2>2. CallIs(p, loc[p].op, loc[p].call) => CallIs(p, loc[p].op, loc[p].call)'
    BY <1>2 DEF CallIs
  <2>3. \A c : CallIs(p, loc[p].op, c) => CallIs(p, loc'[p].op, c)
    BY <1>2
  <2> QED
    BY <1>0, <1>1, <1>2, <2>1, <2>2, <2>3 DEF CallsFor, BaseFor, At, CallLabels
<1>6. QED
  BY <1>1, <1>3, <1>4, <1>5 DEF Sound, BaseFor

\* The facts every step of p starts from.
LEMMA Facts ==
  ASSUME Base, NEW p \in Actors
  PROVE  /\ TypeOK /\ BaseFor(p) /\ LockedFor(p) /\ KnownFor(p) /\ CallsFor(p)
         /\ Shape(can[p], p, pc[p], loc[p]) /\ loc[p] \in Locals
  BY DEF Base, TypeInv, TypeOK, Shapes, BaseFor

\* The steps of a scan, and those that list what is on disk.
LEMMA BaseScans ==
  ASSUME Base, NEW p \in Actors, ScanFiles(p) \/ ScanMark(p) \/ ReadDir(p) \/ List(p)
  PROVE  Sound(p)
<1>0. TypeOK /\ BaseFor(p) /\ CallsFor(p) /\ Shape(can[p], p, pc[p], loc[p])
  BY Facts
<1>1. CASE ScanFiles(p)
  <2>1. PICK n \in 0..MaxId : Scans(p, n)
    BY <1>1 DEF ScanFiles, Scans
  <2>2. n \in Nat
    BY <2>1
  <2>3. /\ pc'[p] = "scan" /\ OthersStay(p) /\ KeepsWho(p) /\ KeepsCall(p) /\ KeepsRead(p)
        /\ loc'[p].ok = loc[p].ok
    BY <1>0, <2>1, <2>2, DoesScanFiles
  <2>4. QED
    BY <1>0, <1>1, <2>3, BaseGoto
       DEF ScanFiles, At, InList, InTask, Shape, Active, CallLabels, KeepsWho, KeepsRead, disk
<1>2. CASE ScanMark(p)
  <2>3. /\ pc'[p] = "scan" /\ OthersStay(p) /\ KeepsWho(p) /\ KeepsCall(p) /\ KeepsRead(p)
        /\ loc'[p].ok = loc[p].ok
    BY <1>0, <1>2, DoesScanMark
  <2>4. QED
    BY <1>0, <1>2, <2>3, BaseGoto
       DEF ScanMark, At, InList, InTask, Shape, Active, CallLabels, KeepsWho, KeepsRead, disk
<1>3. CASE ReadDir(p)
  <2>3. /\ pc'[p] = "unlinkAll" /\ OthersStay(p) /\ KeepsWho(p) /\ KeepsCall(p)
        /\ loc'[p].seen = loc[p].seen /\ loc'[p].ok = loc[p].ok
    BY <1>0, <1>3, DoesReadDir
  <2>4. QED
    BY <1>0, <1>3, <2>3, BaseGoto
       DEF ReadDir, At, InList, InTask, Shape, Active, CallLabels, KeepsWho, disk
<1>4. CASE List(p)
  <2>3. /\ pc'[p] = "reading" /\ OthersStay(p) /\ KeepsWho(p) /\ KeepsCall(p)
        /\ loc'[p].seen = loc[p].seen /\ loc'[p].ok = loc[p].ok
    BY <1>0, <1>4, DoesList
  <2>4. QED
    BY <1>0, <1>4, <2>3, BaseGoto
       DEF List, At, InList, InTask, Shape, Active, CallLabels, KeepsWho, CallsFor, disk
<1>5. QED
  BY <1>1, <1>2, <1>3, <1>4

\* The steps on the high-water mark keep Base.
LEMMA BaseMarks ==
  ASSUME Base, NEW p \in Actors, OpenMark(p) \/ SkipMark(p) \/ WriteMark(p) \/ UnlinkedAll(p)
  PROVE  Sound(p)
<1>0. TypeOK /\ BaseFor(p) /\ CallsFor(p) /\ LockedFor(p) /\ Shape(can[p], p, pc[p], loc[p])
  BY Facts
<1>1. UNCHANGED <<file, locks, told, context>>
  BY DEF OpenMark, SkipMark, WriteMark, UnlinkedAll, disk
<1>2. PICK label : Goto(p, label) /\ label \in
         (IF OpenMark(p) THEN {"writeMark"} ELSE IF UnlinkedAll(p) THEN {"unlockList"}
          ELSE IF loc[p].op = "reset" THEN {"dir"} ELSE {"unlink"})
  BY DEF OpenMark, SkipMark, WriteMark, UnlinkedAll, AfterMark
<1>3. /\ pc'[p] = label /\ OthersStay(p) /\ KeepsWho(p) /\ KeepsCall(p) /\ KeepsRead(p)
      /\ loc'[p].ok = loc[p].ok
  BY <1>0, <1>2, DoesGoto
<1>4. pc[p] \in {"scan", "writeMark", "unlinkAll"} /\ loc[p].op \in {"reset", "delete"}
  BY <1>0 DEF OpenMark, SkipMark, WriteMark, UnlinkedAll, At, Shape
<1>5. label \in {"writeMark", "dir", "unlink", "unlockList"}
      /\ (label = "unlockList" => loc[p].op = "reset")
      /\ (loc[p].op = "reset" => label # "unlink") /\ (label = "dir" => loc[p].op = "reset")
  BY <1>0, <1>2 DEF UnlinkedAll, At, Shape
<1>6. QED
  BY <1>0, <1>1, <1>3, <1>4, <1>5, BaseGoto
     DEF At, InList, InTask, Active, CallLabels, KeepsWho, KeepsRead

\* A lock that is not got keeps Base.
LEMMA BaseFails ==
  ASSUME Base, NEW p \in Actors, LockListFails(p) \/ LockTaskFails(p)
  PROVE  Sound(p)
  BY BaseThrow DEF LockListFails, LockTaskFails, At, Active

\* Giving up a lock keeps Base.
LEMMA BaseUnlocks ==
  ASSUME Base, NEW p \in Actors, UnlockTask(p) \/ UnlockList(p)
  PROVE  Sound(p)
<1>0. /\ TypeOK /\ BaseFor(p) /\ CallsFor(p) /\ LockedFor(p) /\ Shape(can[p], p, pc[p], loc[p])
      /\ listLock \in Actors \cup {None} /\ taskLock \in [Ids -> Actors \cup {None}]
  BY Facts DEF TypeOK
<1>1. CASE UnlockTask(p)
  <2>1. loc[p].call.id \in Ids /\ loc[p].op # "create" /\ pc[p] = "unlock"
    BY <1>0, <1>1 DEF UnlockTask, At, Shape, CallLabels, Call
  <2>2. taskLock[loc[p].call.id] = p
    BY <1>0, <2>1 DEF LockedFor, InTask
  <2>3. LocksOnlyBy(p) /\ UNCHANGED <<file, listLock, context>>
    BY <1>0, <1>1, <2>1, <2>2 DEF UnlockTask, LocksOnlyBy, disk
  <2>4. QED
    BY <1>1, <2>1, <2>3, BaseAfterCall DEF UnlockTask
<1>2. CASE UnlockList(p)
  <2>1. pc[p] = "unlockList" /\ listLock = p
    BY <1>0, <1>2 DEF UnlockList, At, LockedFor, InList
  <2>2. LocksOnlyBy(p) /\ UNCHANGED <<file, context>> /\ listLock' # p
    BY <1>0, <1>2, <2>1, SentinelsAssumption DEF UnlockList, LocksOnlyBy, disk
  <2>3. QED
    BY <1>2, <2>1, <2>2, BaseReturn DEF UnlockList, Active
<1>3. QED
  BY <1>1, <1>2

\* Taking a task's lock keeps Base.
LEMMA BaseLockTask ==
  ASSUME Base, NEW p \in Actors, LockTask(p)
  PROVE  Sound(p)
<1>0. /\ TypeOK /\ BaseFor(p) /\ CallsFor(p) /\ LockedFor(p) /\ KnownFor(p)
      /\ Shape(can[p], p, pc[p], loc[p]) /\ taskLock \in [Ids -> Actors \cup {None}]
  BY Facts DEF TypeOK
<1>1. loc[p].call.id \in Ids /\ pc[p] = "lockTask" /\ taskLock[loc[p].call.id] = None
  BY <1>0 DEF LockTask, At, Shape, CallLabels, Call
<1>2. PICK label \in {"reread", "read"} :
        Goto(p, label) /\ (label = "reread" <=> loc[p].op = "claim")
  BY DEF LockTask
<1>3. /\ pc'[p] = label /\ OthersStay(p) /\ KeepsWho(p) /\ KeepsCall(p) /\ KeepsRead(p)
      /\ loc'[p].ok = loc[p].ok
  BY <1>0, <1>2, DoesGoto
<1>4. LocksOnlyBy(p) /\ taskLock'[loc[p].call.id] = p /\ listLock' = listLock
  BY <1>0, <1>1, SentinelsAssumption DEF LockTask, LocksOnlyBy
<1>5. OnlyBy(p) /\ FilesKnown' /\ won' = won /\ issued' = issued /\ can' = can
  BY <1>3, <1>4, LockStep DEF LockTask, disk, told, context
<1>6. LockedFor(p)'
  BY <1>0, <1>1, <1>2, <1>3, <1>4 DEF LockedFor, InList, InTask, At, KeepsWho, KeepsCall, Shape
<1>7. KnownFor(p)'
  BY <1>0, <1>1, <1>3, <1>5 DEF KnownFor, KeepsWho, KeepsCall, KeepsRead, CallLabels
<1>8. CallsFor(p)'
  <2>1. /\ loc'[p].op = loc[p].op /\ loc'[p].tgt = loc[p].tgt /\ loc'[p].call = loc[p].call
        /\ loc'[p].todo = loc[p].todo
    BY <1>3 DEF KeepsWho, KeepsCall
  <2>2. CallIs(p, loc[p].op, loc[p].call)' <=> CallIs(p, loc[p].op, loc[p].call)
    BY <2>1 DEF CallIs
  <2>3. QED
    BY <1>0, <1>1, <1>2, <1>3, <1>5, <2>1, <2>2 DEF CallsFor, CallLabels, At
<1>9. QED
  BY <1>5, <1>6, <1>7, <1>8 DEF Sound, BaseFor

\* Reading one file.
LEMMA BaseReadOne ==
  ASSUME Base, NEW p \in Actors, NEW i \in Ids, ReadOne(p, i)
  PROVE  Sound(p)
<1>0. /\ TypeOK /\ BaseFor(p) /\ CallsFor(p) /\ LockedFor(p) /\ KnownFor(p)
      /\ Shape(can[p], p, pc[p], loc[p]) /\ loc[p] \in Locals /\ FilesKnown
  BY Facts DEF Base
<1>1. /\ pc'[p] = "reading" /\ OthersStay(p) /\ KeepsWho(p) /\ KeepsCall(p)
      /\ loc'[p].ok = loc[p].ok /\ loc'[p].seen = [loc[p].seen EXCEPT ![i] = GetTask(i)]
      /\ pc[p] = "reading"
  BY <1>0, DoesReadOne DEF ReadOne, At
<1>2. /\ OnlyBy(p) /\ FilesKnown' /\ won' = won /\ issued' = issued /\ can' = can
      /\ listLock' = listLock /\ taskLock' = taskLock
  BY <1>1, QuietShared DEF ReadOne, disk
<1>3. LockedFor(p)'
  BY <1>0, <1>1, <1>2 DEF LockedFor, InList, InTask, At, KeepsWho, KeepsCall
<1>4. KnownFor(p)'
  <2>1. loc[p].seen \in [Ids -> Task \cup {Absent}]
    BY <1>0 DEF Locals
  <2>2. GetTask(i) # Absent => i \in issued
    BY <1>0 DEF GetTask, FilesKnown
  <2>3. \A j \in Ids : loc'[p].seen[j] # Absent => j \in issued'
    BY <1>0, <1>1, <1>2, <2>1, <2>2 DEF KnownFor
  <2>4. QED
    BY <1>0, <1>1, <1>2, <2>3 DEF KnownFor, KeepsWho, KeepsCall, CallLabels
<1>5. CallsFor(p)'
  BY <1>0, <1>1, <1>2 DEF CallsFor, CallIs, KeepsWho, KeepsCall, CallLabels, At
<1>6. QED
  BY <1>2, <1>3, <1>4, <1>5 DEF Sound, BaseFor

\* Beginning the updates a snapshot led to.
LEMMA BaseCalls ==
  ASSUME Base, NEW p \in Actors, NEW calls, Calls(p, calls), UNCHANGED <<disk, locks, context>>,
         At(p, "reading"), loc[p].op \in {"delete", "block", "unassign"},
         \A c \in calls : c.id \in issued /\ CallIs(p, loc[p].op, c)
  PROVE  Sound(p)
<1>0. /\ TypeOK /\ BaseFor(p) /\ CallsFor(p) /\ LockedFor(p) /\ KnownFor(p)
      /\ Shape(can[p], p, pc[p], loc[p]) /\ loc[p] \in Locals
  BY Facts
<1>1. listLock # p
  BY <1>0 DEF LockedFor, InList, At
<1>2. ASSUME NEW c \in calls, Begins(p, c, calls \ {c}), UNCHANGED told
      PROVE  Sound(p)
  <2>1. /\ pc'[p] = "check" /\ OthersStay(p) /\ KeepsWho(p) /\ loc'[p].ok = loc[p].ok
        /\ loc'[p].call = c /\ loc'[p].todo = calls \ {c} /\ loc'[p].seen = NoLocals.seen
    BY <1>0, <1>2, DoesFirstCall
  <2>2. /\ OnlyBy(p) /\ FilesKnown' /\ won' = won /\ issued' = issued /\ can' = can
        /\ listLock' = listLock /\ taskLock' = taskLock
    BY <1>2, <2>1, QuietShared DEF disk
  <2>3. LockedFor(p)'
    BY <1>0, <1>1, <2>1, <2>2 DEF LockedFor, InList, InTask, At, KeepsWho
  <2>4. \A j \in Ids : loc'[p].seen[j] = Absent
    BY <2>1 DEF NoLocals
  <2>5. KnownFor(p)'
    BY <1>0, <2>1, <2>2, <2>4 DEF KnownFor, KeepsWho
  <2>6. CallIs(p, loc[p].op, loc[p].call)' /\ loc'[p].op = loc[p].op
    BY <2>1 DEF CallIs, KeepsWho
  <2>7. CallsFor(p)'
    BY <1>0, <2>1, <2>2, <2>6 DEF CallsFor, At
  <2>8. QED
    BY <2>2, <2>3, <2>5, <2>7 DEF Sound, BaseFor
<1>3. CASE Return(p)
  <2>1. LocksOnlyBy(p) /\ UNCHANGED <<file, context>> /\ listLock' # p
    BY <1>1 DEF LocksOnlyBy, locks, disk
  <2>2. QED
    BY <1>3, <2>1, BaseReturn DEF At, Active
<1>4. QED
  <2>1. \A c \in calls : Move(p, "check", [loc[p] EXCEPT !.call = c, !.todo = calls \ {c},
                                                         !.seen = NoLocals.seen])
                         <=> Begins(p, c, calls \ {c})
    BY DEF Begins
  <2>2. QED
    BY <1>2, <1>3, <2>1 DEF Calls

\* The updates a snapshot asks for are of tasks that were given out.
LEMMA BaseSnapshotUsed ==
  ASSUME Base, NEW p \in Actors, SnapshotUsed(p)
  PROVE  Sound(p)
<1>0. KnownFor(p) /\ Shape(can[p], p, pc[p], loc[p]) /\ loc[p] \in Locals
  BY Facts
<1>1. /\ At(p, "reading") /\ UNCHANGED <<disk, locks, context>>
      /\ \A i \in Ids : loc[p].seen[i] # Absent => i \in issued
  BY <1>0 DEF SnapshotUsed, KnownFor
<1>2. CASE loc[p].op = "delete" /\ Calls(p, DeleteCalls(p))
  <2>1. \A c \in DeleteCalls(p) : c.id \in issued /\ CallIs(p, loc[p].op, c)
    BY <1>1, <1>2 DEF DeleteCalls, NoChange, CallIs
  <2>2. QED
    BY <1>1, <1>2, <2>1, BaseCalls
<1>3. CASE loc[p].op = "block" /\ Calls(p, BlockCalls(p))
  <2>1. loc[p].tgt \in Ids /\ loc[p].peer \in Ids
    BY <1>0, <1>3 DEF Shape
  <2>2. \A c \in BlockCalls(p) : c.id \in issued /\ CallIs(p, loc[p].op, c)
    BY <1>1, <1>3, <2>1 DEF BlockCalls, NoChange, CallIs
  <2>3. QED
    BY <1>1, <1>3, <2>2, BaseCalls
<1>4. CASE loc[p].op = "unassign" /\ Calls(p, UnassignCalls(p))
  <2>1. \A c \in UnassignCalls(p) : c.id \in issued /\ CallIs(p, loc[p].op, c)
    BY <1>1, <1>4 DEF UnassignCalls, Unresolved, NoChange, CallIs
  <2>2. QED
    BY <1>1, <1>4, <2>1, BaseCalls
<1>5. QED
  BY <1>2, <1>3, <1>4 DEF SnapshotUsed

\* An unlink takes the file from under the descriptors others have on it.
LEMMA DoesUnlink ==
  ASSUME TypeOK, NEW p \in Actors, NEW i \in Ids, NEW label, NEW l, Unlink(p, i, label, l)
  PROVE  /\ pc'[p] = label /\ loc'[p] = l
         /\ file' = [file EXCEPT ![i] = Absent]
         /\ \A q \in Actors \ {p} : Keeps(q)
         /\ \A q \in Actors \ {p} : loc'[q].fd = loc[q].fd \/ (At(q, "write") /\ loc[q].call.id = i)
<1>1. file' = [file EXCEPT ![i] = Absent] /\ pc' = [pc EXCEPT ![p] = label]
  BY DEF Unlink
<1>2. /\ pc \in [Actors -> Labels] /\ loc \in [Actors -> Locals]
  BY DEF TypeOK
<1>3. pc'[p] = label /\ \A q \in Actors \ {p} : pc'[q] = pc[q]
  BY <1>1, <1>2
<1>4. loc'[p] = l
  BY DEF Unlink
<1>5. ASSUME NEW q \in Actors \ {p}
      PROVE  Keeps(q) /\ (loc'[q].fd = loc[q].fd \/ (At(q, "write") /\ loc[q].call.id = i))
  <2> DEFINE m == [loc[q] EXCEPT !.fd = FALSE]
  <2>1. /\ m.op = loc[q].op /\ m.tgt = loc[q].tgt /\ m.peer = loc[q].peer
        /\ m.call = loc[q].call /\ m.todo = loc[q].todo /\ m.seen = loc[q].seen
        /\ m.unread = loc[q].unread /\ m.scan = loc[q].scan /\ m.top = loc[q].top
        /\ m.old = loc[q].old /\ m.val = loc[q].val /\ m.ok = loc[q].ok /\ m.fd = FALSE
    BY <1>2 DEF Locals
  <2>2. \/ loc'[q] = m /\ At(q, "write") /\ loc[q].call.id = i
        \/ loc'[q] = loc[q]
    BY DEF Unlink
  <2> HIDE DEF m
  <2>3. QED
    BY <1>3, <2>1, <2>2 DEF Keeps, KeepsWho, KeepsCall, KeepsRead, KeepsScan
<1>6. QED
  BY <1>1, <1>3, <1>4, <1>5

\* Removing one of the files listed.
LEMMA DoesUnlinkOne ==
  ASSUME TypeOK, NEW p \in Actors, NEW i \in loc[p].unread,
         Unlink(p, i, "unlinkAll", [loc[p] EXCEPT !.unread = @ \ {i}])
  PROVE  /\ KeepsWho(p) /\ KeepsCall(p) /\ loc'[p].seen = loc[p].seen /\ KeepsFile(p)
         /\ KeepsScan(p) /\ loc'[p].ok = loc[p].ok /\ i \in Ids
<1> DEFINE m == [loc[p] EXCEPT !.unread = @ \ {i}]
<1>1. loc[p] \in Locals
  BY DEF TypeOK
<1>2. /\ m.op = loc[p].op /\ m.tgt = loc[p].tgt /\ m.peer = loc[p].peer
      /\ m.call = loc[p].call /\ m.todo = loc[p].todo /\ m.seen = loc[p].seen
      /\ m.scan = loc[p].scan /\ m.top = loc[p].top /\ m.old = loc[p].old
      /\ m.val = loc[p].val /\ m.fd = loc[p].fd /\ m.ok = loc[p].ok /\ i \in Ids
  BY <1>1 DEF Locals
<1>3. loc'[p] = m
  BY DEF Unlink
<1> HIDE DEF m
<1>4. QED
  BY <1>2, <1>3 DEF KeepsWho, KeepsCall, KeepsScan, KeepsFile

\* Unlinking files keeps Base.
LEMMA BaseUnlinks ==
  ASSUME Base, NEW p \in Actors, UnlinkOne(p) \/ DeleteFile(p)
  PROVE  Sound(p)
<1>0. /\ TypeOK /\ BaseFor(p) /\ CallsFor(p) /\ LockedFor(p) /\ KnownFor(p) /\ FilesKnown
      /\ Shape(can[p], p, pc[p], loc[p]) /\ loc[p] \in Locals
      /\ file \in [Ids -> Task \cup {Absent, Torn}]
  BY Facts DEF Base, TypeOK
<1>1. ASSUME NEW i \in Ids, NEW label, NEW l, Unlink(p, i, label, l),
             UNCHANGED <<mark, locks, told, context>>
      PROVE  /\ OnlyBy(p) /\ FilesKnown' /\ won' = won /\ issued' = issued /\ can' = can
             /\ listLock' = listLock /\ taskLock' = taskLock
             /\ pc'[p] = label /\ loc'[p] = l
  <2>1. /\ file' = [file EXCEPT ![i] = Absent] /\ pc'[p] = label /\ loc'[p] = l
        /\ \A q \in Actors \ {p} : Keeps(q)
    BY <1>0, <1>1, DoesUnlink
  <2>2. FilesKnown'
    BY <1>0, <1>1, <2>1 DEF FilesKnown, told, context
  <2>3. QED
    BY <1>1, <2>1, <2>2 DEF OnlyBy, locks, told, context
<1>2. CASE UnlinkOne(p)
  <2>1. PICK i \in loc[p].unread : Unlink(p, i, "unlinkAll", [loc[p] EXCEPT !.unread = @ \ {i}])
    BY <1>2 DEF UnlinkOne
  <2>2. /\ KeepsWho(p) /\ KeepsCall(p) /\ loc'[p].seen = loc[p].seen
        /\ loc'[p].ok = loc[p].ok /\ i \in Ids
    BY <1>0, <2>1, DoesUnlinkOne
  <2>3. /\ OnlyBy(p) /\ FilesKnown' /\ won' = won /\ issued' = issued /\ can' = can
        /\ listLock' = listLock /\ taskLock' = taskLock /\ pc'[p] = "unlinkAll"
    BY <1>1, <1>2, <2>1, <2>2 DEF UnlinkOne
  <2>4. pc[p] = "unlinkAll" /\ loc[p].op = "reset"
    BY <1>0, <1>2 DEF UnlinkOne, At, Shape
  <2>5. LockedFor(p)'
    BY <1>0, <2>2, <2>3, <2>4 DEF LockedFor, InList, InTask, At, KeepsWho, KeepsCall
  <2>6. KnownFor(p)' /\ CallsFor(p)'
    BY <1>0, <2>2, <2>3, <2>4 DEF KnownFor, CallsFor, CallIs, KeepsWho, KeepsCall, CallLabels
  <2>7. QED
    BY <2>3, <2>5, <2>6 DEF Sound, BaseFor
<1>3. CASE DeleteFile(p)
  <2>1. pc[p] = "unlink" /\ loc[p].op = "delete" /\ loc[p].tgt \in Ids /\ listLock # p
    BY <1>0, <1>3 DEF DeleteFile, At, Shape, LockedFor, InList
  <2>2. CASE Return(p) /\ UNCHANGED file
    <3>1. LocksOnlyBy(p) /\ UNCHANGED <<file, context>> /\ listLock' # p
      BY <1>3, <2>1, <2>2 DEF LocksOnlyBy, locks, DeleteFile
    <3>2. QED
      BY <2>1, <2>2, <3>1, BaseReturn DEF Active
  <2>3. CASE Unlink(p, loc[p].tgt, "list", loc[p]) /\ UNCHANGED told
    <3>1. UNCHANGED <<mark, locks, told, context>>
      BY <1>3, <2>3 DEF DeleteFile
    <3>2. /\ OnlyBy(p) /\ FilesKnown' /\ won' = won /\ issued' = issued /\ can' = can
          /\ listLock' = listLock /\ taskLock' = taskLock
          /\ pc'[p] = "list" /\ loc'[p] = loc[p]
      BY <1>1, <2>1, <2>3, <3>1
    <3>3. LockedFor(p)'
      BY <1>0, <2>1, <3>2 DEF LockedFor, InList, InTask, At
    <3>4. KnownFor(p)' /\ CallsFor(p)'
      BY <1>0, <2>1, <3>2 DEF KnownFor, CallsFor, CallIs, CallLabels
    <3>5. QED
      BY <3>2, <3>3, <3>4 DEF Sound, BaseFor
  <2>4. QED
    BY <1>3, <2>2, <2>3 DEF DeleteFile
<1>4. QED
  BY <1>2, <1>3

\* Deciding on a claim from the task read under its lock.
LEMMA DoesReread ==
  ASSUME TypeOK, NEW p \in Actors, Reread(p)
  PROVE  /\ pc[p] = "reread" /\ OthersStay(p) /\ KeepsWho(p) /\ KeepsCall(p) /\ KeepsRead(p)
         /\ loc'[p].ok = loc[p].ok /\ UNCHANGED <<disk, locks, told, context>>
         /\ \/ /\ pc'[p] = "list" /\ GetTask(loc[p].tgt) # Absent
               /\ Claimable(p, GetTask(loc[p].tgt))
            \/ pc'[p] = "unlock"
<1>1. CASE GetTask(loc[p].tgt) # Absent /\ Claimable(p, GetTask(loc[p].tgt))
  <2>1. Takes(p, "list", GetTask(loc[p].tgt))
    BY <1>1 DEF Reread, Takes
  <2>2. QED
    BY <1>1, <2>1, DoesSetVal DEF Reread, At
<1>2. CASE ~(GetTask(loc[p].tgt) # Absent /\ Claimable(p, GetTask(loc[p].tgt)))
  <2>1. Goto(p, "unlock")
    BY <1>2 DEF Reread
  <2>2. QED
    BY <2>1, DoesGoto DEF Reread, At
<1>3. QED
  BY <1>1, <1>2

\* Deciding on a claim from the list.
LEMMA DoesClaimDecided ==
  ASSUME TypeOK, NEW p \in Actors, ClaimDecided(p)
  PROVE  /\ pc[p] = "reading" /\ loc[p].op = "claim" /\ OthersStay(p) /\ KeepsWho(p) /\ KeepsCall(p)
         /\ \A i \in Ids : loc'[p].seen[i] = Absent
         /\ UNCHANGED <<disk, locks, told, context>>
         /\ \/ loc'[p].ok = TRUE /\ pc'[p] = "read"
            \/ loc'[p].ok = FALSE /\ pc'[p] = "unlock"
<1>1. PICK free \in BOOLEAN : Decides(p, IF free THEN "read" ELSE "unlock", free)
  BY DEF ClaimDecided, Decides
<1>2. /\ pc'[p] = (IF free THEN "read" ELSE "unlock") /\ OthersStay(p) /\ KeepsWho(p) /\ KeepsCall(p)
      /\ loc'[p].ok = free /\ loc'[p].seen = NoLocals.seen
  BY <1>1, DoesDecide
<1>3. QED
  BY <1>2 DEF ClaimDecided, At, NoLocals

\* What a claim with the busy check decides from.
Free(p) ==
  LET seen == loc[p].seen
      task == seen[loc[p].tgt]
  IN /\ task # Absent /\ Claimable(p, task)
     /\ task.blockedBy \cap Unresolved(seen) = {}
     /\ BusyWith(p, seen) = {}

\* What the decision with the busy check rests on.
LEMMA DoesBusyClaimDecided ==
  ASSUME TypeOK, NEW p \in Actors, BusyClaimDecided(p)
  PROVE  /\ pc[p] = "reading" /\ loc[p].op = "claimBusy" /\ loc[p].unread = {}
         /\ OthersStay(p) /\ KeepsWho(p) /\ KeepsCall(p)
         /\ \A i \in Ids : loc'[p].seen[i] = Absent
         /\ UNCHANGED <<disk, locks, told, context>>
         /\ \/ loc'[p].ok = TRUE /\ pc'[p] = "check" /\ Free(p)
            \/ loc'[p].ok = FALSE /\ pc'[p] = "unlockList"
<1>1. PICK free \in BOOLEAN : /\ DecidesBusy(p, IF free THEN "check" ELSE "unlockList", free)
                              /\ free => Free(p)
  <2>1. CASE Free(p)
    <3>1. DecidesBusy(p, "check", TRUE)
      BY <2>1 DEF BusyClaimDecided, DecidesBusy, Free
    <3>2. QED
      BY <2>1, <3>1
  <2>2. CASE ~Free(p)
    <3>1. DecidesBusy(p, "unlockList", FALSE)
      BY <2>2 DEF BusyClaimDecided, DecidesBusy, Free
    <3>2. QED
      BY <2>2, <3>1
  <2>3. QED
    BY <2>1, <2>2
<1>2. /\ pc'[p] = (IF free THEN "check" ELSE "unlockList") /\ OthersStay(p) /\ KeepsWho(p)
      /\ KeepsCall(p) /\ loc'[p].ok = free /\ loc'[p].seen = NoLocals.seen
  BY <1>1, DoesDecideBusy
<1>3. QED
  BY <1>1, <1>2 DEF BusyClaimDecided, At, NoLocals

\* Deciding a claim keeps Base.
LEMMA BaseClaims ==
  ASSUME Base, NEW p \in Actors, Reread(p) \/ ClaimDecided(p) \/ BusyClaimDecided(p)
  PROVE  Sound(p)
<1>0. /\ TypeOK /\ BaseFor(p) /\ CallsFor(p) /\ LockedFor(p) /\ KnownFor(p)
      /\ Shape(can[p], p, pc[p], loc[p]) /\ loc[p] \in Locals
  BY Facts
<1>1. CASE Reread(p)
  <2>1. /\ pc[p] = "reread" /\ OthersStay(p) /\ KeepsWho(p) /\ KeepsCall(p) /\ KeepsRead(p)
        /\ loc'[p].ok = loc[p].ok /\ UNCHANGED <<disk, locks, told, context>>
        /\ pc'[p] \in {"list", "unlock"}
    BY <1>0, <1>1, DoesReread
  <2>2. loc[p].op = "claim" /\ ~loc[p].ok
    BY <1>0, <2>1 DEF Shape, CallsFor
  <2>3. QED
    BY <2>1, <2>2, BaseGoto DEF InList, InTask, Active, KeepsWho, KeepsRead, disk
<1>2. ASSUME NEW ok \in BOOLEAN, NEW label,
             loc'[p].ok = ok, pc'[p] = label, pc[p] = "reading", OthersStay(p), KeepsWho(p), KeepsCall(p),
             \A i \in Ids : loc'[p].seen[i] = Absent, UNCHANGED <<disk, locks, told, context>>,
             \/ loc[p].op = "claim" /\ label = IF ok THEN "read" ELSE "unlock"
             \/ loc[p].op = "claimBusy" /\ label = IF ok THEN "check" ELSE "unlockList"
      PROVE  Sound(p)
  <2>1. /\ OnlyBy(p) /\ FilesKnown' /\ won' = won /\ issued' = issued /\ can' = can
        /\ listLock' = listLock /\ taskLock' = taskLock
    BY <1>2, QuietShared DEF disk
  <2>2. /\ loc'[p].op = loc[p].op /\ loc'[p].tgt = loc[p].tgt /\ loc'[p].call = loc[p].call
        /\ loc'[p].todo = loc[p].todo
    BY <1>2 DEF KeepsWho, KeepsCall
  <2>3. loc[p].call.id = loc[p].tgt /\ loc[p].call.owner = p /\ loc[p].call.status = Keep
    BY <1>0, <1>2 DEF Shape, NoChange
  <2>4. LockedFor(p)'
    BY <1>0, <1>2, <2>1, <2>2 DEF LockedFor, InList, InTask, At
  <2>5. KnownFor(p)'
    BY <1>0, <1>2, <2>1, <2>2, <2>3 DEF KnownFor
  <2>6. CallIs(p, loc[p].op, loc[p].call)'
    BY <1>2, <2>2, <2>3 DEF CallIs
  <2>7. CallsFor(p)'
    BY <1>0, <1>2, <2>1, <2>2, <2>6 DEF CallsFor, At
  <2>8. QED
    BY <2>1, <2>4, <2>5, <2>7 DEF Sound, BaseFor
<1>3. CASE ClaimDecided(p)
  BY <1>0, <1>2, <1>3, DoesClaimDecided
<1>4. CASE BusyClaimDecided(p)
  BY <1>0, <1>2, <1>4, DoesBusyClaimDecided
<1>5. QED
  BY <1>1, <1>3, <1>4

\* The look before the lock keeps Base.
LEMMA BaseCheck ==
  ASSUME Base, NEW p \in Actors, Check(p)
  PROVE  Sound(p)
<1>0. /\ TypeOK /\ CallsFor(p) /\ LockedFor(p) /\ KnownFor(p)
      /\ Shape(can[p], p, pc[p], loc[p]) /\ pc[p] = "check"
  BY Facts DEF Check, At
<1>1. CASE AfterCall(p)
  <2>1. LocksOnlyBy(p) /\ UNCHANGED <<file, listLock, context>>
    BY DEF Check, LocksOnlyBy, disk, locks
  <2>2. QED
    BY <1>0, <1>1, <2>1, BaseAfterCall
<1>2. CASE ~AfterCall(p)
  <2>1. PICK label \in {"lockList", "lockTask"} :
          Goto(p, label) /\ (label = "lockList" <=> loc[p].op = "claimBusy" /\ listLock # p)
    BY <1>2 DEF Check
  <2>2. UNCHANGED <<file, locks, told, context>>
    BY <1>2 DEF Check, disk
  <2>3. /\ pc'[p] = label /\ OthersStay(p) /\ KeepsWho(p) /\ KeepsCall(p) /\ KeepsRead(p)
        /\ loc'[p].ok = loc[p].ok
    BY <1>0, <2>1, DoesGoto
  <2>4. InList(p)' => InList(p)
    BY <1>0, <2>1, <2>3 DEF InList, LockedFor, At, KeepsWho, Shape
  <2>5. InList(p) => InList(p)'
    BY <1>0, <2>1, <2>3 DEF InList, LockedFor, At, KeepsWho, Shape
  <2>6. InTask(p)' => InTask(p)
    BY <1>0, <2>1, <2>3 DEF InTask, KeepsWho
  <2>7. /\ loc[p].op = "finish" => ~loc[p].ok
        /\ loc[p].op = "claim" => ~loc[p].ok
        /\ loc[p].op = "claimBusy" /\ label = "lockTask" => loc[p].ok
    BY <1>0, <2>1 DEF CallsFor, At, LockedFor, InList
  <2>8. loc'[p].seen = loc[p].seen /\ Active(pc[p]) /\ pc[p] \in CallLabels
    BY <1>0, <2>3 DEF KeepsRead, Active, CallLabels
  <2>9. QED
    BY <1>0, <2>1, <2>2, <2>3, <2>4, <2>5, <2>6, <2>7, <2>8, BaseGoto
<1>3. QED
  BY <1>1, <1>2

\* Reading the task to merge the update into.
LEMMA DoesReadForUpdate ==
  ASSUME TypeOK, NEW p \in Actors, ReadForUpdate(p)
  PROVE  /\ pc[p] = "read" /\ OthersStay(p) /\ KeepsWho(p) /\ KeepsCall(p) /\ KeepsRead(p)
         /\ loc'[p].ok = loc[p].ok /\ UNCHANGED <<disk, locks, told, context>>
         /\ \/ pc'[p] = "unlock" /\ GetTask(loc[p].call.id) = Absent
            \/ /\ pc'[p] = "open" /\ GetTask(loc[p].call.id) # Absent
               /\ loc'[p].val = Merge(GetTask(loc[p].call.id), loc[p].call)
<1>1. CASE GetTask(loc[p].call.id) = Absent
  BY <1>1, DoesGoto DEF ReadForUpdate, At
<1>2. CASE GetTask(loc[p].call.id) # Absent
  <2>1. Takes(p, "open", Merge(GetTask(loc[p].call.id), loc[p].call))
    BY <1>2 DEF ReadForUpdate, Takes
  <2>2. QED
    BY <1>2, <2>1, DoesSetVal DEF ReadForUpdate, At
<1>3. QED
  BY <1>1, <1>2

\* Reading keeps Base.
LEMMA BaseReads ==
  ASSUME Base, NEW p \in Actors, ReadForUpdate(p)
  PROVE  Sound(p)
<1>0. /\ TypeOK /\ CallsFor(p) /\ LockedFor(p) /\ Shape(can[p], p, pc[p], loc[p])
  BY Facts
<1>1. /\ pc[p] = "read" /\ OthersStay(p) /\ KeepsWho(p) /\ KeepsCall(p) /\ KeepsRead(p)
      /\ loc'[p].ok = loc[p].ok /\ UNCHANGED <<file, locks, told, context>>
      /\ pc'[p] \in {"unlock", "open"} /\ loc'[p].seen = loc[p].seen
  BY <1>0, DoesReadForUpdate DEF disk, KeepsRead
<1>2. /\ loc[p].op = "finish" => ~loc[p].ok
      /\ loc[p].op = "claim" => loc[p].ok
      /\ loc[p].op = "claimBusy" => loc[p].ok
      /\ Active(pc[p]) /\ pc[p] \in CallLabels /\ loc[p].op \notin {"create", "reset"}
  BY <1>0, <1>1 DEF CallsFor, At, Active, CallLabels, Shape
<1>3. /\ InList(p)' <=> InList(p)
      /\ InTask(p)' => InTask(p)
  BY <1>1, <1>2 DEF InList, InTask, KeepsWho
<1>4. QED
  BY <1>1, <1>2, <1>3, BaseGoto

\* Opening a file for writing keeps Base; a new task's id is given out.
LEMMA BaseOpen ==
  ASSUME Base, NEW p \in Actors, Open(p)
  PROVE  Sound(p)
<1>0. /\ TypeOK /\ CallsFor(p) /\ LockedFor(p) /\ KnownFor(p) /\ FilesKnown
      /\ Shape(can[p], p, pc[p], loc[p]) /\ file \in [Ids -> Task \cup {Absent, Torn}]
  BY Facts DEF Base, TypeOK
<1>1. /\ pc[p] = "open" /\ pc'[p] = "write" /\ OthersStay(p) /\ KeepsWho(p) /\ KeepsCall(p)
      /\ KeepsRead(p) /\ loc'[p].ok = loc[p].ok /\ can' = can
      /\ UNCHANGED <<mark, locks, told, can>>
      /\ file' = [file EXCEPT ![loc[p].call.id] = Torn]
      /\ issued' = IF loc[p].op = "create" THEN issued \cup {loc[p].tgt} ELSE issued
  BY <1>0, DoesOpen DEF Open, At
<1>2. OnlyBy(p)
  BY <1>1, StayKeeps DEF OnlyBy, locks, told
<1>3. FilesKnown'
  <2>1. loc[p].op = "create" => loc[p].call.id = loc[p].tgt
    BY <1>0, <1>1 DEF Shape, NoChange
  <2>2. loc[p].op # "create" => loc[p].call.id \in issued
    BY <1>0, <1>1 DEF KnownFor, CallLabels
  <2>3. QED
    BY <1>0, <1>1, <2>1, <2>2 DEF FilesKnown, told
<1>4. LockedFor(p)'
  BY <1>0, <1>1 DEF LockedFor, InList, InTask, At, KeepsWho, KeepsCall, locks
<1>5. KnownFor(p)'
  <2>1. loc[p].op = "create" => loc[p].call.id = loc[p].tgt
    BY <1>0, <1>1 DEF Shape, NoChange
  <2>2. QED
    BY <1>0, <1>1, <2>1 DEF KnownFor, KeepsWho, KeepsCall, KeepsRead, CallLabels, told
<1>6. CallsFor(p)'
  <2>1. /\ loc'[p].op = loc[p].op /\ loc'[p].tgt = loc[p].tgt /\ loc'[p].call = loc[p].call
        /\ loc'[p].todo = loc[p].todo /\ won' = won
    BY <1>1 DEF KeepsWho, KeepsCall, told
  <2>2. CallIs(p, loc[p].op, loc[p].call)' <=> CallIs(p, loc[p].op, loc[p].call)
    BY <2>1 DEF CallIs
  <2>3. QED
    BY <1>0, <1>1, <2>1, <2>2 DEF CallsFor, CallLabels, At
<1>7. QED
  BY <1>2, <1>3, <1>4, <1>5, <1>6 DEF Sound, BaseFor

\* Writing a file keeps Base.
LEMMA BaseWrite ==
  ASSUME Base, NEW p \in Actors, Write(p)
  PROVE  Sound(p)
<1>0. /\ TypeOK /\ CallsFor(p) /\ LockedFor(p) /\ KnownFor(p) /\ FilesKnown /\ TypeInv
      /\ Shape(can[p], p, pc[p], loc[p]) /\ file \in [Ids -> Task \cup {Absent, Torn}]
  BY Facts DEF Base, TypeOK
<1>1. /\ pc[p] = "write" /\ pc'[p] = (IF loc[p].op = "create" THEN "unlockList" ELSE "unlock")
      /\ OthersStay(p) /\ KeepsWho(p) /\ KeepsCall(p)
      /\ KeepsRead(p) /\ loc'[p].ok = (loc[p].ok \/ loc[p].op = "finish")
      /\ UNCHANGED <<mark, locks, told, context>>
      /\ (file' = [file EXCEPT ![loc[p].call.id] = loc[p].val] \/ file' = file)
  BY <1>0, DoesWrite DEF Write, At
<1>2. OnlyBy(p)
  BY <1>1, StayKeeps DEF OnlyBy, locks, told, context
<1>3. FilesKnown'
  BY <1>0, <1>1 DEF FilesKnown, KnownFor, told, context
<1>4. LockedFor(p)'
  BY <1>0, <1>1 DEF LockedFor, InList, InTask, At, KeepsWho, KeepsCall, Shape, locks
<1>5. KnownFor(p)'
  BY <1>0, <1>1 DEF KnownFor, KeepsWho, KeepsCall, KeepsRead, CallLabels, told, context
<1>6. CallsFor(p)'
  <2>1. /\ loc'[p].op = loc[p].op /\ loc'[p].tgt = loc[p].tgt /\ loc'[p].call = loc[p].call
        /\ loc'[p].todo = loc[p].todo /\ won' = won
    BY <1>1 DEF KeepsWho, KeepsCall, told
  <2>2. CallIs(p, loc[p].op, loc[p].call)' <=> CallIs(p, loc[p].op, loc[p].call)
    BY <2>1 DEF CallIs
  <2>3. QED
    BY <1>0, <1>1, <2>1, <2>2 DEF CallsFor, CallLabels, At, context
<1>7. QED
  BY <1>2, <1>3, <1>4, <1>5, <1>6 DEF Sound, BaseFor

\* Choosing the next id keeps Base.
LEMMA BaseAllocate ==
  ASSUME Base, NEW p \in Actors, Allocate(p)
  PROVE  Sound(p)
<1>0. /\ TypeOK /\ CallsFor(p) /\ LockedFor(p) /\ KnownFor(p)
      /\ Shape(can[p], p, pc[p], loc[p])
  BY Facts
<1>1. /\ pc[p] = "scan" /\ loc[p].op = "create" /\ UNCHANGED <<file, locks, told, context>>
  BY DEF Allocate, At, disk
<1>2. CASE HighestId(p) + 1 \in Ids
  <2>1. /\ pc'[p] = "open" /\ OthersStay(p) /\ loc'[p].op = loc[p].op
        /\ loc'[p].todo = loc[p].todo /\ KeepsRead(p) /\ loc'[p].ok = loc[p].ok
        /\ loc'[p].call = NoChange(HighestId(p) + 1)
    BY <1>0, <1>2, DoesAllocate
  <2>2. /\ OnlyBy(p) /\ FilesKnown' /\ won' = won /\ issued' = issued /\ can' = can
        /\ listLock' = listLock /\ taskLock' = taskLock
    BY <1>1, <2>1, QuietShared
  <2>3. LockedFor(p)'
    BY <1>0, <1>1, <2>1, <2>2 DEF LockedFor, InList, InTask, At
  <2>4. KnownFor(p)'
    BY <1>0, <1>1, <2>1, <2>2 DEF KnownFor, KeepsRead
  <2>5. CallIs(p, "create", loc[p].call)'
    BY <2>1 DEF CallIs, NoChange
  <2>6. CallsFor(p)'
    BY <1>0, <1>1, <2>1, <2>2, <2>5 DEF CallsFor
  <2>7. QED
    BY <2>2, <2>3, <2>4, <2>6 DEF Sound, BaseFor
<1>3. CASE Goto(p, "unlockList")
  <2>1. /\ pc'[p] = "unlockList" /\ OthersStay(p) /\ KeepsWho(p) /\ KeepsCall(p) /\ KeepsRead(p)
        /\ loc'[p].ok = loc[p].ok
    BY <1>0, <1>3, DoesGoto
  <2>2. QED
    BY <1>1, <2>1, BaseGoto DEF InList, InTask, Active, CallLabels, KeepsWho, KeepsRead
<1>4. QED
  BY <1>2, <1>3 DEF Allocate

\* A crash leaves nothing but the locks.
LEMMA BaseCrash ==
  ASSUME Base, NEW p \in Actors, Crash(p)
  PROVE  Sound(p)
<1>0. TypeOK /\ KnownFor(p) /\ won \in [Actors -> SUBSET Ids]
  BY Facts DEF TypeOK
<1>1. pc'[p] = "crashed" /\ OthersStay(p) /\ Cleared(p)
  BY <1>0, DoesEnd DEF Crash
<1>2. /\ UNCHANGED <<file, locks, done, context>> /\ won'[p] = {}
      /\ \A q \in Actors \ {p} : won'[q] = won[q]
  BY <1>0 DEF Crash, disk
<1>3. OnlyBy(p) /\ FilesKnown'
  BY <1>1, <1>2, QuietStep
<1>4. LockedFor(p)'
  BY <1>1 DEF LockedFor, InList, InTask, Cleared, At
<1>5. KnownFor(p)'
  BY <1>1, <1>2 DEF KnownFor, Cleared, CallLabels
<1>6. CallsFor(p)'
  BY <1>1, <1>2 DEF CallsFor, Cleared, CallLabels
<1>7. QED
  BY <1>3, <1>4, <1>5, <1>6 DEF Sound, BaseFor

\* A stale lock is taken from a dead actor.
LEMMA BaseStale ==
  ASSUME Base, StaleLock
  PROVE  Base'
<1>0. TypeInv' /\ TypeInv
  BY TypeCrash DEF Base
<1>1. UNCHANGED <<disk, pc, loc, told, context>>
  BY DEF StaleLock, StaleListLock, StaleTaskLock
<1>2. FilesKnown'
  BY <1>1 DEF Base, FilesKnown, disk, told, context
<1>3. ASSUME NEW p \in Actors
      PROVE  BaseFor(p)'
  <2>1. BaseFor(p) /\ Shape(can[p], p, pc[p], loc[p])
    BY Facts
  <2>2. KnownFor(p)' /\ CallsFor(p)'
    BY <1>1, <2>1 DEF BaseFor, KnownFor, CallsFor, CallIs, At, told, context
  <2>3. CASE At(p, "crashed")
    BY <1>1, <2>1, <2>2, <2>3 DEF LockedFor, InList, InTask, At, Shape, Active, BaseFor
  <2>4. CASE ~At(p, "crashed")
    <3>1. CASE StaleListLock
      BY <1>1, <2>1, <2>2, <2>4, <3>1, SentinelsAssumption DEF StaleListLock, LockedFor, InList, InTask, At, BaseFor
    <3>2. ASSUME NEW i \in Ids, StaleTaskLock(i)
          PROVE  LockedFor(p)'
      <4>1. taskLock' = [taskLock EXCEPT ![i] = None] /\ listLock' = listLock
            /\ taskLock[i] # p /\ taskLock \in [Ids -> Actors \cup {None}]
        BY <1>0, <2>4, <3>2 DEF StaleTaskLock, At, TypeInv, TypeOK
      <4>2. InTask(p) => taskLock'[loc[p].call.id] = taskLock[loc[p].call.id]
        BY <2>1, <4>1 DEF BaseFor, LockedFor
      <4>3. QED
        BY <1>1, <2>1, <4>1, <4>2 DEF BaseFor, LockedFor, InList, InTask, At
    <3>3. QED
      BY <3>1, <3>2, <2>2 DEF StaleLock, BaseFor
  <2>5. QED
    BY <2>2, <2>3, <2>4 DEF BaseFor
<1>4. QED
  BY <1>0, <1>2, <1>3 DEF Base

\* Every step of an agent keeps Base.
LEMMA BaseSteps ==
  ASSUME Base, NEW p \in Actors, Request(p) \/ Step(p) \/ Crash(p)
  PROVE  Sound(p)
  BY BaseBegins, BaseLockList, BaseFails, BaseLockTask, BaseUnlocks, BaseScans, BaseAllocate,
     BaseMarks, BaseUnlinks, BaseReadOne, BaseSnapshotUsed, BaseClaims, BaseCheck, BaseReads,
     BaseOpen, BaseWrite, BaseCrash DEF Step

\* Base is inductive.
LEMMA BaseNext == Base /\ [Next]_vars => Base'
<1> SUFFICES ASSUME Base, [Next]_vars PROVE Base'
  OBVIOUS
<1>1. TypeInv'
  BY TypeNext DEF Base
<1>2. ASSUME NEW p \in Actors, Request(p) \/ Step(p) \/ Crash(p)
      PROVE  Base'
  BY <1>1, <1>2, BaseSteps, BaseBy DEF Sound
<1>3. CASE StaleLock
  BY <1>3, BaseStale
<1>4. CASE UNCHANGED vars
  <2>1. FilesKnown'
    BY <1>4 DEF Base, FilesKnown, vars, disk, told, context
  <2>2. ASSUME NEW p \in Actors PROVE BaseFor(p)'
    BY <1>4 DEF Base, BaseFor, LockedFor, KnownFor, CallsFor, CallIs, InList, InTask, At, vars, disk,
       locks, told, context
  <2>3. QED
    BY <1>1, <2>1, <2>2 DEF Base
<1>5. QED
  BY <1>2, <1>3, <1>4 DEF Next

\* Base holds at first.
LEMMA BaseInit == Init => Base
<1> SUFFICES ASSUME Init PROVE Base
  OBVIOUS
<1>1. TypeInv
  BY TypeInit
<1>2. FilesKnown
  BY DEF Init, FilesKnown
<1>3. ASSUME NEW p \in Actors PROVE BaseFor(p)
  <2>1. /\ pc[p] = "idle" /\ loc[p].op = "none" /\ loc[p].todo = {} /\ won[p] = {}
        /\ listLock # p /\ \A i \in Ids : loc[p].seen[i] = Absent
    BY SentinelsAssumption DEF Init, NoLocals
  <2>2. QED
    BY <2>1 DEF BaseFor, LockedFor, KnownFor, CallsFor, InList, InTask, At, CallLabels
<1>4. QED
  BY <1>1, <1>2, <1>3 DEF Base

-----------------------------------------------------------------------------
(* Ids only grow: the high-water mark and the files cover all that were    *)
(* given out, and a scan under the lock sees it.                           *)

\* Nobody deletes single tasks.
Undeleted == \A p \in Actors : "delete" \notin can[p]

Above(n) == \A i \in issued : i <= n

\* No id that was given out is above both the mark and the files.
Covered == \A i \in issued : i <= MarkValue \/ \E j \in Ids : file[j] # Absent /\ i <= j

\* Where the scan of actor p stands.
Scanned(p) ==
  /\ At(p, "scan") /\ "files" \notin loc[p].scan =>
       /\ \A i \in issued : i <= loc[p].top \/ i <= MarkValue
       /\ loc[p].top = 0 \/ \E j \in Ids : file[j] # Absent /\ loc[p].top <= j
  /\ At(p, "scan") /\ "mark" \notin loc[p].scan /\ (loc[p].op = "reset" => "files" \notin loc[p].scan)
       => loc[p].old = MarkValue
  /\ At(p, "open") /\ loc[p].op = "create" => \A i \in issued : i < loc[p].tgt
  /\ At(p, "writeMark") => Above(loc[p].top) /\ \E j \in Ids : file[j] # Absent /\ loc[p].top <= j
  /\ pc[p] \in {"dir", "unlinkAll"} => Above(MarkValue)

IdsGrow == Covered /\ \A p \in Actors : Scanned(p)

\* The labels of a scan and of what follows it under the list's lock.
Scanning(p) ==
  \/ pc[p] \in {"scan", "writeMark", "dir", "unlinkAll"}
  \/ At(p, "open") /\ loc[p].op = "create"

\* A step that leaves the mark and the ids alone and removes no file.
Steady ==
  /\ mark' = mark /\ issued' = issued
  /\ \A i \in Ids : file[i] # Absent => file'[i] # Absent

\* Of who does not scan nothing is asked.
LEMMA NotScanning ==
  ASSUME NEW p \in Actors, ~Scanning(p)
  PROVE  Scanned(p)
  BY DEF Scanning, Scanned, At

\* Where no single task is deleted, who scans holds the list's lock.
LEMMA ScanningIsLocked ==
  ASSUME Base, Undeleted, NEW p \in Actors, Scanning(p)
  PROVE  listLock = p /\ loc[p].op \in {"create", "reset"}
<1>1. LockedFor(p) /\ Shape(can[p], p, pc[p], loc[p])
  BY Facts
<1>2. loc[p].op \in {"create", "reset"}
  BY <1>1 DEF Shape, Active, Undeleted, Scanning, At
<1>3. QED
  BY <1>1, <1>2 DEF LockedFor, InList, Scanning, At

\* A steady step leaves the scans of the others where they are.
LEMMA SteadyOthers ==
  ASSUME Base, NEW p \in Actors, OnlyBy(p), Steady, NEW q \in Actors, q # p, Scanned(q)
  PROVE  Scanned(q)'
<1>1. /\ pc'[q] = pc[q] /\ loc'[q].op = loc[q].op /\ loc'[q].tgt = loc[q].tgt
      /\ loc'[q].scan = loc[q].scan /\ loc'[q].top = loc[q].top /\ loc'[q].old = loc[q].old
  BY DEF OnlyBy, Keeps, KeepsWho, KeepsScan
<1>2. MarkValue' = MarkValue /\ issued' = issued
  BY DEF Steady, MarkValue
<1>3. \A i \in Ids : file[i] # Absent => file'[i] # Absent
  BY DEF Steady
<1>4. QED
  BY <1>1, <1>2, <1>3 DEF Scanned, At, Above

\* Ids stay covered while files, mark and ids are steady.
LEMMA SteadyCovered ==
  ASSUME Covered, Steady
  PROVE  Covered'
<1>1. MarkValue' = MarkValue /\ issued' = issued
  BY DEF Steady, MarkValue
<1>2. QED
  BY <1>1 DEF Covered, Steady

\* Under the list's lock nobody else scans.
LEMMA OthersDoNotScan ==
  ASSUME Base, Undeleted, NEW p \in Actors, OnlyBy(p), listLock = p, NEW q \in Actors, q # p
  PROVE  Scanned(q)'
<1>1. ~Scanning(q)
  BY ScanningIsLocked
<1>2. pc'[q] = pc[q] /\ loc'[q].op = loc[q].op
  BY DEF OnlyBy, Keeps, KeepsWho
<1>3. ~Scanning(q)'
  BY <1>1, <1>2 DEF Scanning, At
<1>4. QED
  BY <1>3 DEF Scanning, Scanned, At

\* A steady step of who does not scan keeps the ids growing.
LEMMA IdsQuiet ==
  ASSUME Base, NEW p \in Actors, OnlyBy(p), Steady, IdsGrow, ~Scanning(p)' \/ Scanned(p)'
  PROVE  IdsGrow'
<1>1. Scanned(p)'
  BY DEF Scanning, Scanned, At
<1>2. QED
  BY <1>1, SteadyOthers, SteadyCovered DEF IdsGrow

\* A step under the list's lock concerns the scan of its holder only.
LEMMA IdsLocked ==
  ASSUME Base, Undeleted, NEW p \in Actors, OnlyBy(p), listLock = p, Covered', Scanned(p)'
  PROVE  IdsGrow'
  BY OthersDoNotScan DEF IdsGrow

\* The steps that scan.
LEMMA IdsScan ==
  ASSUME Base, IdsGrow, NEW p \in Actors, ScanFiles(p) \/ ScanMark(p), OnlyBy(p)
  PROVE  IdsGrow'
<1>0. /\ TypeOK /\ Covered /\ Scanned(p) /\ loc[p] \in Locals
      /\ Shape(can[p], p, pc[p], loc[p])
  BY Facts DEF IdsGrow
<1>1. Steady /\ MarkValue' = MarkValue /\ issued' = issued /\ file' = file
  BY DEF ScanFiles, ScanMark, Steady, MarkValue, disk, context
<1>2. CASE ScanFiles(p)
  <2>1. PICK n \in 0..MaxId : IsHighestFile(n) /\ Scans(p, n)
    BY <1>2 DEF ScanFiles, Scans
  <2>2. n \in Nat
    BY <2>1
  <2>3. /\ pc'[p] = "scan" /\ pc[p] = "scan" /\ loc'[p].op = loc[p].op
        /\ loc'[p].old = loc[p].old /\ loc'[p].top = n
        /\ loc'[p].scan = (loc[p].scan \ {"files"}) \cup (IF loc[p].op = "reset" THEN {"mark"} ELSE {})
    BY <1>0, <1>2, <2>1, <2>2, DoesScanFiles DEF ScanFiles, At, KeepsWho
  <2>4. /\ \A i \in Ids : file[i] # Absent => i <= n
        /\ n = 0 \/ (n \in Ids /\ file[n] # Absent)
    BY <2>1 DEF IsHighestFile
  <2>5. issued \subseteq Ids /\ Ids \subseteq Nat
    BY <1>0, ConstantsAssumption DEF TypeOK, Ids
  <2>6. \A i \in issued : i <= n \/ i <= MarkValue
    <3> SUFFICES ASSUME NEW i \in issued, ~(i <= MarkValue) PROVE i <= n
      OBVIOUS
    <3>1. PICK j \in Ids : file[j] # Absent /\ i <= j
      BY <1>0 DEF Covered
    <3>2. j <= n /\ i \in Nat /\ j \in Nat
      BY <2>4, <2>5, <3>1
    <3>3. QED
      BY <2>2, <3>1, <3>2
  <2>7. n = 0 \/ \E j \in Ids : file[j] # Absent /\ n <= j
    BY <2>2, <2>4
  <2>8. "mark" \notin loc'[p].scan => loc[p].op # "reset" /\ "mark" \notin loc[p].scan
    BY <2>3
  <2>9. Scanned(p)'
    BY <1>0, <1>1, <2>3, <2>6, <2>7, <2>8 DEF Scanned, At
  <2>10. QED
    BY <1>1, <2>9, IdsQuiet
<1>3. CASE ScanMark(p)
  <2>1. /\ pc'[p] = "scan" /\ pc[p] = "scan" /\ loc'[p].op = loc[p].op
        /\ loc'[p].top = loc[p].top
        /\ loc'[p].old = MarkValue /\ loc'[p].scan = loc[p].scan \ {"mark"}
    BY <1>0, <1>3, DoesScanMark DEF ScanMark, At, KeepsWho
  <2>2. Scanned(p)'
    BY <1>0, <1>1, <2>1 DEF Scanned, At
  <2>3. QED
    BY <1>1, <2>2, IdsQuiet
<1>4. QED
  BY <1>2, <1>3

\* The steps under the list's lock that move the mark, the ids or the files.
LEMMA IdsMarks ==
  ASSUME Base, Undeleted, IdsGrow, NEW p \in Actors, OnlyBy(p),
         OpenMark(p) \/ SkipMark(p) \/ WriteMark(p) \/ ReadDir(p) \/ UnlinkOne(p)
  PROVE  IdsGrow'
<1>0. /\ TypeOK /\ Covered /\ Scanned(p) /\ loc[p] \in Locals
      /\ Shape(can[p], p, pc[p], loc[p]) /\ mark \in Nat \cup {Torn} /\ issued \subseteq Ids
      /\ Ids \subseteq Nat /\ loc[p].top \in Nat /\ loc[p].old \in Nat
      /\ file \in [Ids -> Task \cup {Absent, Torn}]
  BY Facts, ConstantsAssumption DEF IdsGrow, TypeOK, Ids, Locals
<1>1. /\ pc[p] \in {"scan", "writeMark", "dir", "unlinkAll"}
      /\ listLock = p /\ loc[p].op = "reset"
  <2>1. pc[p] \in {"scan", "writeMark", "dir", "unlinkAll"} /\ loc[p].op # "create"
    BY <1>0 DEF OpenMark, SkipMark, WriteMark, ReadDir, UnlinkOne, At, Shape
  <2>2. QED
    BY <2>1, ScanningIsLocked DEF Scanning
<1>2. MarkValue \in Nat
  BY <1>0 DEF MarkValue
<1>3. CASE OpenMark(p)
  <2>1. pc'[p] = "writeMark" /\ pc[p] = "scan" /\ loc'[p] = loc[p]
    BY <1>0, <1>3, Moves DEF OpenMark, At, Goto
  <2>2. mark' = Torn /\ file' = file /\ issued' = issued /\ loc[p].scan = {}
        /\ loc[p].top > loc[p].old
    BY <1>3 DEF OpenMark, NeedsMark, context
  <2>3. /\ \A i \in issued : i <= loc[p].top \/ i <= loc[p].old
        /\ loc[p].top = 0 \/ \E j \in Ids : file[j] # Absent /\ loc[p].top <= j
    BY <1>0, <2>1, <2>2 DEF Scanned, At
  <2>4. PICK j \in Ids : file[j] # Absent /\ loc[p].top <= j
    BY <1>0, <2>2, <2>3
  <2>5. \A i \in issued : i <= loc[p].top /\ i <= j
    BY <1>0, <2>2, <2>3, <2>4
  <2>6. Covered'
    BY <2>2, <2>4, <2>5 DEF Covered
  <2>7. Scanned(p)'
    BY <2>1, <2>2, <2>4, <2>5 DEF Scanned, At, Above
  <2>8. QED
    BY <1>1, <2>6, <2>7, IdsLocked
<1>4. CASE SkipMark(p)
  <2>1. pc'[p] = "dir" /\ pc[p] = "scan" /\ loc'[p] = loc[p]
    BY <1>0, <1>1, <1>4, Moves DEF SkipMark, AfterMark, At, Goto
  <2>2. mark' = mark /\ file' = file /\ issued' = issued /\ loc[p].scan = {}
        /\ ~(loc[p].top > loc[p].old)
    BY <1>4 DEF SkipMark, NeedsMark, context, disk
  <2>3. /\ \A i \in issued : i <= loc[p].top \/ i <= MarkValue
        /\ loc[p].old = MarkValue
    BY <1>0, <2>1, <2>2 DEF Scanned, At
  <2>5. \A i \in issued : i <= MarkValue
    <3> SUFFICES ASSUME NEW i \in issued PROVE i <= MarkValue
      OBVIOUS
    <3>1. i \in Nat /\ (i <= loc[p].top \/ i <= MarkValue)
      BY <1>0, <2>3
    <3>2. QED
      BY <1>0, <1>2, <2>2, <2>3, <3>1
  <2>6. Steady /\ MarkValue' = MarkValue
    BY <2>2 DEF Steady, MarkValue
  <2>7. Scanned(p)'
    BY <2>1, <2>2, <2>5, <2>6 DEF Scanned, At, Above
  <2>8. QED
    BY <2>6, <2>7, IdsQuiet
<1>5. CASE WriteMark(p)
  <2>1. pc'[p] = "dir" /\ pc[p] = "writeMark" /\ loc'[p] = loc[p]
    BY <1>0, <1>1, <1>5, Moves DEF WriteMark, AfterMark, At, Goto
  <2>2. mark' = loc[p].top /\ file' = file /\ issued' = issued
    BY <1>5 DEF WriteMark, context
  <2>3. \A i \in issued : i <= loc[p].top
    BY <1>0, <2>1 DEF Scanned, At, Above
  <2>4. MarkValue' = loc[p].top
    BY <1>0, <2>2, SentinelsAssumption DEF MarkValue
  <2>5. Covered'
    BY <2>2, <2>3, <2>4 DEF Covered
  <2>6. Scanned(p)'
    BY <2>1, <2>2, <2>3, <2>4 DEF Scanned, At, Above
  <2>7. QED
    BY <1>1, <2>5, <2>6, IdsLocked
<1>6. CASE ReadDir(p)
  <2>1. pc'[p] = "unlinkAll" /\ pc[p] = "dir"
    BY <1>0, <1>6, DoesReadDir DEF ReadDir, At
  <2>2. Steady /\ MarkValue' = MarkValue /\ issued' = issued
    BY <1>6 DEF ReadDir, Steady, MarkValue, disk, context
  <2>3. Scanned(p)'
    BY <1>0, <2>1, <2>2 DEF Scanned, At, Above
  <2>4. QED
    BY <2>2, <2>3, IdsQuiet
<1>7. CASE UnlinkOne(p)
  <2>1. PICK i \in loc[p].unread : Unlink(p, i, "unlinkAll", [loc[p] EXCEPT !.unread = @ \ {i}])
    BY <1>7 DEF UnlinkOne
  <2>2. pc'[p] = "unlinkAll" /\ pc[p] = "unlinkAll"
    BY <1>0, <1>7, <2>1 DEF Unlink, UnlinkOne, At, TypeOK
  <2>3. MarkValue' = MarkValue /\ issued' = issued
    BY <1>7 DEF UnlinkOne, MarkValue, context
  <2>4. \A k \in issued : k <= MarkValue
    BY <1>0, <2>2 DEF Scanned, Above
  <2>5. Covered'
    BY <2>3, <2>4 DEF Covered
  <2>6. Scanned(p)'
    BY <2>2, <2>3, <2>4 DEF Scanned, At, Above
  <2>7. QED
    BY <1>1, <2>5, <2>6, IdsLocked
<1>8. QED
  BY <1>3, <1>4, <1>5, <1>6, <1>7

\* The id createTask takes is above all that were given out.
LEMMA IdsAllocate ==
  ASSUME Base, Undeleted, IdsGrow, NEW p \in Actors, OnlyBy(p), Allocate(p)
  PROVE  IdsGrow'
<1>0. /\ TypeOK /\ Covered /\ Scanned(p) /\ loc[p] \in Locals
      /\ issued \subseteq Ids /\ Ids \subseteq Nat /\ loc[p].top \in Nat /\ loc[p].old \in Nat
  BY Facts, ConstantsAssumption DEF IdsGrow, TypeOK, Ids, Locals
<1>1. Steady /\ issued' = issued /\ pc[p] = "scan" /\ loc[p].scan = {} /\ loc[p].op = "create"
  BY DEF Allocate, Steady, disk, context, At
<1>2. CASE HighestId(p) + 1 \in Ids
  <2>1. pc'[p] = "open" /\ loc'[p].tgt = HighestId(p) + 1
    BY <1>0, <1>2, DoesAllocate
  <2>2. \A i \in issued : i <= loc[p].top \/ i <= loc[p].old
    BY <1>0, <1>1 DEF Scanned, At
  <2>3. \A i \in issued : i < HighestId(p) + 1
    BY <1>0, <2>2 DEF HighestId
  <2>4. Scanned(p)'
    BY <1>1, <2>1, <2>3 DEF Scanned, At
  <2>5. QED
    BY <1>1, <2>4, IdsQuiet
<1>3. CASE Goto(p, "unlockList")
  <2>1. pc'[p] = "unlockList"
    BY <1>0, <1>3, DoesGoto
  <2>2. QED
    BY <1>1, <2>1, IdsQuiet DEF Scanning, At
<1>4. QED
  BY <1>2, <1>3 DEF Allocate

\* Giving an id out, and writing.
LEMMA IdsWrites ==
  ASSUME Base, Undeleted, IdsGrow, NEW p \in Actors, OnlyBy(p), Open(p) \/ Write(p)
  PROVE  IdsGrow'
<1>0. /\ TypeOK /\ Covered /\ Scanned(p) /\ loc[p] \in Locals
      /\ Shape(can[p], p, pc[p], loc[p]) /\ file \in [Ids -> Task \cup {Absent, Torn}]
      /\ issued \subseteq Ids /\ Ids \subseteq Nat
  BY Facts, ConstantsAssumption DEF IdsGrow, TypeOK, Ids, Locals
<1>1. CASE Write(p)
  <2>1. pc'[p] \in {"unlock", "unlockList"} /\ pc[p] = "write"
    BY <1>0, <1>1, DoesWrite DEF Write, At
  <2>2. loc[p].val \in Task
    BY <1>0, <2>1 DEF Shape
  <2>3. Steady
    BY <1>0, <1>1, <2>2, SentinelsAssumption DEF Write, Steady, context
  <2>4. QED
    BY <2>1, <2>3, IdsQuiet DEF Scanning, At
<1>2. CASE Open(p)
  <2>1. pc'[p] = "write" /\ pc[p] = "open" /\ loc'[p].op = loc[p].op /\ mark' = mark
        /\ file' = [file EXCEPT ![loc[p].call.id] = Torn]
    BY <1>0, <1>2, DoesOpen DEF Open, At, KeepsWho
  <2>2. ~Scanning(p)'
    BY <2>1 DEF Scanning, At
  <2>3. \A i \in Ids : file[i] # Absent => file'[i] # Absent
    BY <1>0, <2>1, SentinelsAssumption
  <2>4. CASE loc[p].op # "create"
    <3>1. Steady
      BY <1>2, <2>1, <2>3, <2>4 DEF Open, Steady
    <3>2. QED
      BY <2>2, <3>1, IdsQuiet
  <2>5. CASE loc[p].op = "create"
    <3>1. loc[p].tgt \in Ids /\ loc[p].call.id = loc[p].tgt
      BY <1>0, <2>1, <2>5 DEF Shape, NoChange
    <3>2. issued' = issued \cup {loc[p].tgt} /\ MarkValue' = MarkValue
      BY <1>2, <2>1, <2>5 DEF Open, MarkValue
    <3>3. loc[p].tgt <= loc[p].tgt /\ file'[loc[p].tgt] # Absent
      <4>1. loc[p].tgt \in Nat
        BY <1>0, <3>1
      <4>2. file' = [file EXCEPT ![loc[p].tgt] = Torn]
        BY <2>1, <3>1
      <4>3. file'[loc[p].tgt] = Torn
        BY <1>0, <3>1, <4>2
      <4>4. QED
        BY <4>1, <4>3, SentinelsAssumption
    <3>4. Covered'
      <4>1. ASSUME NEW i \in issued'
            PROVE  i <= MarkValue' \/ \E j \in Ids : file'[j] # Absent /\ i <= j
        <5>1. CASE i = loc[p].tgt
          BY <3>1, <3>3, <5>1
        <5>2. CASE i \in issued
          <6>1. i <= MarkValue \/ \E j \in Ids : file[j] # Absent /\ i <= j
            BY <1>0, <5>2 DEF Covered
          <6>2. QED
            BY <2>3, <3>2, <6>1
        <5>3. QED
          BY <3>2, <5>1, <5>2, <4>1
      <4>2. QED
        BY <4>1 DEF Covered
    <3>5. listLock = p
      BY <2>1, <2>5, ScanningIsLocked DEF Scanning, At
    <3>6. Scanned(p)'
      BY <2>2 DEF Scanned, Scanning, At
    <3>7. QED
      BY <3>4, <3>5, <3>6, IdsLocked
  <2>6. QED
    BY <2>4, <2>5
<1>3. QED
  BY <1>1, <1>2

\* The steps that neither scan nor begin a scan.
LEMMA IdsOther ==
  ASSUME Base, Undeleted, IdsGrow, NEW p \in Actors, OnlyBy(p),
         \/ Request(p) \/ LockList(p) \/ LockListFails(p) \/ LockTask(p) \/ LockTaskFails(p)
         \/ UnlockTask(p) \/ UnlockList(p) \/ UnlinkedAll(p) \/ DeleteFile(p) \/ List(p)
         \/ (\E i \in Ids : ReadOne(p, i)) \/ SnapshotUsed(p) \/ Reread(p) \/ ClaimDecided(p)
         \/ BusyClaimDecided(p) \/ Check(p) \/ ReadForUpdate(p) \/ Crash(p)
  PROVE  IdsGrow'
<1>0. /\ TypeOK /\ Scanned(p) /\ loc[p] \in Locals /\ can \in [Actors -> SUBSET Ops]
      /\ Shape(can[p], p, pc[p], loc[p])
  BY Facts DEF IdsGrow, TypeOK
<1>1. ~DeleteFile(p) /\ \A i \in Ids : ~BeginDelete(p, i)
  BY <1>0 DEF DeleteFile, BeginDelete, Begin, Shape, Active, At, Undeleted
<1>2. Steady
  BY <1>1 DEF Steady, Request, BeginCreate, BeginReset, BeginDelete, BeginClaim, BeginUpdate,
     BeginToolUpdate, BeginBlock, BeginUnassign, Begin, LockList, LockListFails, LockTask, LockTaskFails, UnlockTask, UnlockList,
     UnlinkedAll, List, ReadOne, SnapshotUsed, Reread, ClaimDecided, BusyClaimDecided, Check,
     ReadForUpdate, Crash, disk, context
<1>3. CASE LockList(p)
  <2>1. \/ pc'[p] = "scan" /\ loc'[p].op = "create" /\ loc'[p].scan = {"files", "mark"}
        \/ pc'[p] = "scan" /\ loc'[p].op = "reset" /\ loc'[p].scan = {"files"}
        \/ pc'[p] = "list"
    BY <1>0, <1>3, DoesLockList DEF KeepsWho
  <2>2. Scanned(p)'
    BY <2>1 DEF Scanned, At
  <2>3. QED
    BY <1>2, <2>2, IdsQuiet
<1>4. CASE ~LockList(p)
  <2> DEFINE To == {"idle", "crashed", "lockList", "lockTask", "check", "list", "reading", "reread",
                    "read", "unlock", "unlockList"}
             Goes(L) == \E label \in L : pc' = [pc EXCEPT ![p] = label]
  <2>a. Request(p) => Goes(To)
    BY <1>1 DEF Request, BeginCreate, BeginReset, BeginClaim, BeginUpdate,
       BeginToolUpdate, BeginBlock, BeginUnassign, Begin, Move
  <2>b. AfterCall(p) \/ Throw(p) \/ Return(p) => Goes(To)
    BY DEF AfterCall, Throw, Return, Move
  <2>c. LockListFails(p) \/ LockTask(p) \/ LockTaskFails(p) \/ UnlockTask(p) \/ UnlockList(p) => Goes(To)
    BY <2>b DEF LockListFails, LockTask, LockTaskFails, UnlockTask, UnlockList, Goto, Move
  <2>d. UnlinkedAll(p) \/ List(p) \/ (\E i \in Ids : ReadOne(p, i)) \/ Reread(p) \/ Crash(p) => Goes(To)
    BY DEF UnlinkedAll, List, ReadOne, Reread, Crash, Goto, Move
  <2>e. ClaimDecided(p) \/ BusyClaimDecided(p) \/ Check(p) => Goes(To)
    BY <2>b DEF ClaimDecided, BusyClaimDecided, Check, Goto, Move
  <2>f. SnapshotUsed(p) => Goes(To)
    BY <2>b DEF SnapshotUsed, Calls, Move
  <2>g. ReadForUpdate(p) => Goes(To \cup {"open"})
    BY DEF ReadForUpdate, Goto, Move
  <2>1. Goes(To) \/ (ReadForUpdate(p) /\ Goes(To \cup {"open"}))
    BY <1>1, <1>4, <2>a, <2>c, <2>d, <2>e, <2>f, <2>g
  <2>2. pc'[p] \notin {"scan", "writeMark", "dir", "unlinkAll"} /\ (pc'[p] = "open" => ReadForUpdate(p))
    BY <1>0, <2>1 DEF TypeOK
  <2>3. ReadForUpdate(p) => loc'[p].op # "create"
    BY <1>0, DoesReadForUpdate DEF KeepsWho, Shape
  <2>4. QED
    BY <1>2, <2>2, <2>3, IdsQuiet DEF Scanning, At
<1>5. QED
  BY <1>3, <1>4

-----------------------------------------------------------------------------
(* A new task is nobody else's until it is written.                        *)

\* Every step of an agent keeps the ids growing.
LEMMA IdsSteps ==
  ASSUME Base, Undeleted, IdsGrow, NEW p \in Actors, Request(p) \/ Step(p) \/ Crash(p)
  PROVE  IdsGrow'
<1>1. OnlyBy(p)
  BY BaseSteps DEF Sound
<1>2. QED
  BY <1>1, IdsScan, IdsMarks, IdsAllocate, IdsWrites, IdsOther DEF Step

\* IdsGrow is inductive where no single task is deleted.
LEMMA IdsNext == Base /\ Undeleted /\ IdsGrow /\ [Next]_vars => IdsGrow' /\ Undeleted'
<1> SUFFICES ASSUME Base, Undeleted, IdsGrow, [Next]_vars PROVE IdsGrow' /\ Undeleted'
  OBVIOUS
<1>1. CASE StaleLock \/ UNCHANGED vars
  <2>1. UNCHANGED <<disk, pc, loc, context>>
    BY <1>1 DEF StaleLock, StaleListLock, StaleTaskLock, vars
  <2>2. IdsGrow'
    BY <2>1 DEF IdsGrow, Covered, Scanned, Above, At, MarkValue, disk, context
  <2>3. QED
    BY <2>1, <2>2 DEF Undeleted, context
<1>2. ASSUME NEW p \in Actors, Request(p) \/ Step(p) \/ Crash(p)
      PROVE  IdsGrow' /\ Undeleted'
  <2>1. can' = can
    BY <1>2, BaseSteps DEF Sound, OnlyBy
  <2>2. QED
    BY <1>2, <2>1, IdsSteps DEF Undeleted
<1>3. QED
  BY <1>1, <1>2 DEF Next

\* IdsGrow holds at first: every id that was given out has a file.
LEMMA IdsInit == Init => IdsGrow
<1> SUFFICES ASSUME Init PROVE IdsGrow
  OBVIOUS
<1>1. Base /\ issued \subseteq Ids /\ Ids \subseteq Nat
  BY BaseInit, ConstantsAssumption DEF Base, TypeInv, TypeOK, Ids
<1>2. Covered
  <2>1. ASSUME NEW i \in issued PROVE file[i] # Absent /\ i <= i /\ i \in Ids
    BY <1>1 DEF Init
  <2>2. QED
    BY <2>1 DEF Covered
<1>3. ASSUME NEW p \in Actors PROVE Scanned(p)
  BY DEF Init, Scanned, At
<1>4. QED
  BY <1>2, <1>3 DEF IdsGrow

\* What is p's: the tasks it was told are its own, and the one it is giving back.
Mine(p) ==
  won[p] \cup (IF loc[p].op = "release" /\ pc[p] \in {"check", "lockTask", "read", "open", "write"}
               THEN {loc[p].tgt} ELSE {})

\* A creator that has not written its task yet.
New(p) == loc[p].op = "create" /\ pc[p] \in {"open", "write"}

\* Actor q has nothing to do with task i.
Apart(q, i) ==
  /\ i \notin Mine(q)
  /\ pc[q] \in CallLabels \ {"check"} => loc[q].call.id # i
  /\ loc[q].op \in {"claim", "claimBusy"} /\ ~At(q, "check") => loc[q].tgt # i

\* Until a new task is written, nobody else has to do with it.
NewFor(p) ==
  New(p) => /\ file[loc[p].tgt] = (IF At(p, "open") THEN Absent ELSE Torn)
            /\ loc[p].tgt \notin done /\ loc[p].tgt \notin won[p]
            /\ \A q \in Actors \ {p} : Apart(q, loc[p].tgt)

\* A step of q keeps it apart from a task that is not on disk yet.
ApartKept(q, i) == Apart(q, i)' /\ (i \in done' => i \in done) /\ file'[i] = file[i]

\* A call that begins has nothing to do with a task that is not on disk.
LEMMA ApartBegins ==
  ASSUME Base, NEW q \in Actors, NEW i \in Ids, Apart(q, i), Request(q)
  PROVE  ApartKept(q, i)
<1>0. TypeOK
  BY Facts
<1>1. done' = done /\ file' = file
  BY DEF Request, BeginCreate, BeginReset, BeginDelete, BeginClaim, BeginUpdate,
     BeginToolUpdate, BeginBlock, BeginUnassign, Begin, disk
<1>2. CASE BeginCreate(q) \/ BeginReset(q)
  <2>1. pc'[q] = "lockList" /\ won' = won /\ loc'[q].op \in {"create", "reset"}
    BY <1>0, <1>2, DoesBeginList DEF Begun
  <2>2. QED
    BY <1>1, <2>1 DEF ApartKept, Apart, Mine, CallLabels
<1>3. ASSUME NEW j \in Ids, BeginDelete(q, j)
      PROVE  ApartKept(q, i)
  <2>1. pc'[q] = "scan" /\ won' = won /\ loc'[q].op = "delete"
    BY <1>0, <1>3, DoesBeginDelete DEF Begun
  <2>2. QED
    BY <1>1, <2>1 DEF ApartKept, Apart, Mine, CallLabels
<1>4. ASSUME NEW j \in Ids, NEW op \in {"claim", "claimBusy"}, BeginClaim(q, j, op)
      PROVE  ApartKept(q, i)
  <2>1. pc'[q] = "check" /\ won' = won /\ loc'[q].op = op
    BY <1>0, <1>4, DoesBeginClaim DEF Begun
  <2>2. QED
    BY <1>1, <2>1 DEF ApartKept, Apart, Mine, CallLabels, At
<1>5. ASSUME NEW j \in Ids, NEW op \in {"start", "finish", "edit", "release"}, BeginUpdate(q, j, op)
      PROVE  ApartKept(q, i)
  <2>1. /\ pc'[q] = "check" /\ loc'[q].op = op /\ loc'[q].tgt = j
        /\ (op = "release" => j \in won[q])
        /\ won' = IF op = "release" THEN [won EXCEPT ![q] = @ \ {j}] ELSE won
    BY <1>0, <1>5, DoesBeginUpdate DEF Begun
  <2>2. won'[q] \subseteq won[q]
    BY <1>0, <2>1 DEF TypeOK
  <2>3. QED
    BY <1>1, <2>1, <2>2 DEF ApartKept, Apart, Mine, CallLabels, At
<1>6. ASSUME NEW j \in Ids, NEW k \in Ids, BeginBlock(q, j, k)
      PROVE  ApartKept(q, i)
  <2>1. pc'[q] = "reading" /\ won' = won /\ loc'[q].op = "block"
    BY <1>0, <1>6, DoesBeginBlock DEF Begun
  <2>2. QED
    BY <1>1, <2>1 DEF ApartKept, Apart, Mine, CallLabels
<1>7. ASSUME NEW r \in Actors, BeginUnassign(q, r)
      PROVE  ApartKept(q, i)
  <2>1. pc'[q] = "list" /\ won' = won /\ loc'[q].op = "unassign"
    BY <1>0, <1>7, DoesBeginUnassign DEF Begun
  <2>2. QED
    BY <1>1, <2>1 DEF ApartKept, Apart, Mine, CallLabels
<1>8. ASSUME NEW j \in Ids, NEW op \in {"assign", "setOpen"}, NEW owner \in Actors \cup {None, Keep},
             NEW status \in Status \cup {Keep}, BeginToolUpdate(q, j, op, owner, status)
      PROVE  ApartKept(q, i)
  <2>1. pc'[q] = "check" /\ won' = won /\ loc'[q].op = op
    BY <1>0, <1>8, DoesBeginToolUpdate DEF Begun
  <2>2. QED
    BY <1>1, <2>1 DEF ApartKept, Apart, Mine, CallLabels, At
<1>9. QED
  BY <1>2, <1>3, <1>4, <1>5, <1>6, <1>7, <1>8 DEF Request

\* The end of an operation has nothing to do with it either.
LEMMA ApartReturn ==
  ASSUME Base, NEW q \in Actors, NEW i \in Ids, Apart(q, i), Return(q), file' = file,
         loc[q].ok /\ loc[q].op \in {"claim", "claimBusy", "finish"} => loc[q].tgt # i
  PROVE  ApartKept(q, i)
<1>1. /\ pc'[q] = "idle" /\ loc'[q].op = "none"
      /\ won'[q] = IF loc[q].ok /\ loc[q].op \in {"claim", "claimBusy"}
                   THEN won[q] \cup {loc[q].tgt} ELSE won[q]
      /\ done' = IF loc[q].ok /\ loc[q].op = "finish" THEN done \cup {loc[q].tgt} ELSE done
  BY Facts, DoesReturn DEF Cleared
<1>2. QED
  BY <1>1 DEF ApartKept, Apart, Mine, CallLabels

\* A step that leaves what q is about.
LEMMA ApartStays ==
  ASSUME Base, NEW q \in Actors, NEW i \in Ids, Apart(q, i), KeepsWho(q),
         loc'[q].call = loc[q].call \/ pc'[q] \notin CallLabels \ {"check"},
         file'[i] = file[i], UNCHANGED told,
         pc'[q] \in CallLabels \ {"check"} => loc[q].call.id # i,
         loc[q].op \in {"claim", "claimBusy"} => loc[q].tgt # i,
         pc[q] \in {"check", "lockTask", "read", "open", "write"}
           \/ pc'[q] \notin {"check", "lockTask", "read", "open", "write"}
           \/ loc[q].op # "release"
  PROVE  ApartKept(q, i)
<1>1. /\ loc'[q].op = loc[q].op /\ loc'[q].tgt = loc[q].tgt /\ won' = won /\ done' = done
  BY DEF KeepsWho, told
<1>2. i \notin Mine(q)'
  BY <1>1 DEF Apart, Mine
<1>3. QED
  BY <1>1, <1>2 DEF ApartKept, Apart

\* Nor has the end of an update.
LEMMA ApartAfterCall ==
  ASSUME Base, NEW q \in Actors, NEW i \in Ids, Apart(q, i), AfterCall(q), file' = file, listLock # q,
         pc[q] \in {"check", "unlock"}
  PROVE  ApartKept(q, i)
<1>0. TypeOK /\ CallsFor(q) /\ loc[q] \in Locals /\ Shape(can[q], q, pc[q], loc[q]) /\ LockedFor(q)
  BY Facts
<1>1. ASSUME NEW c \in loc[q].todo, UNCHANGED told,
             Move(q, "check", [loc[q] EXCEPT !.call = c, !.todo = @ \ {c}, !.val = Absent])
      PROVE  ApartKept(q, i)
  <2>1. GoesOn(q, c, loc[q].todo \ {c})
    BY <1>0, <1>1 DEF Locals, GoesOn
  <2>2. pc'[q] = "check" /\ KeepsWho(q)
    BY <1>0, <2>1, DoesCall
  <2>3. loc[q].op \in {"delete", "block", "unassign"}
    BY <1>0, <1>1 DEF CallsFor
  <2>4. QED
    BY <1>1, <2>2, <2>3, ApartStays DEF CallLabels
<1>2. CASE Return(q)
  <2>1. loc[q].ok /\ loc[q].op = "finish" => loc[q].tgt # i
    BY <1>0 DEF CallsFor, Apart, At, CallLabels
  <2>2. loc[q].ok /\ loc[q].op = "claim" => loc[q].tgt # i
    BY <1>0 DEF CallsFor, Apart, At, CallLabels
  <2>3. loc[q].ok => loc[q].op # "claimBusy"
    BY <1>0 DEF LockedFor, InList
  <2>4. QED
    BY <1>2, <2>1, <2>2, <2>3, ApartReturn
<1>3. QED
  BY <1>1, <1>2 DEF AfterCall

\* The steps of others, without the list's lock, stay clear of it.
LEMMA ApartSteps ==
  ASSUME Base, Undeleted, NEW q \in Actors, NEW i \in Ids, Apart(q, i), listLock # q,
         GetTask(i) = Absent, Step(q)
  PROVE  ApartKept(q, i)
<1>0. /\ TypeOK /\ CallsFor(q) /\ loc[q] \in Locals /\ Shape(can[q], q, pc[q], loc[q])
      /\ LockedFor(q) /\ file \in [Ids -> Task \cup {Absent, Torn}]
  BY Facts DEF TypeOK
<1>1. ~Scanning(q) /\ ~At(q, "unlink") /\ ~InList(q)
  BY <1>0, ScanningIsLocked DEF Shape, Active, Undeleted, At, LockedFor
<1>2. CASE LockList(q)
  <2>1. /\ pc[q] = "lockList" /\ KeepsWho(q) /\ pc'[q] \in {"scan", "list"} /\ file' = file
        /\ UNCHANGED told
    BY <1>0, <1>2, DoesLockList DEF disk
  <2>2. loc[q].op \in {"claim", "claimBusy"} => loc[q].tgt # i
    BY <2>1 DEF Apart, At
  <2>3. QED
    BY <2>1, <2>2, ApartStays DEF CallLabels
<1>3. CASE LockListFails(q) \/ LockTaskFails(q)
  <2>1. pc'[q] = "idle" /\ loc'[q].op = "none" /\ won' = won /\ done' = done /\ file' = file
    BY <1>0, <1>3, DoesEnd DEF LockListFails, LockTaskFails, Throw, told, disk, Cleared
  <2>2. QED
    BY <2>1 DEF ApartKept, Apart, Mine, CallLabels
<1>4. CASE LockTask(q)
  <2>1. PICK label \in {"reread", "read"} : Goto(q, label)
    BY <1>4 DEF LockTask
  <2>2. /\ pc[q] = "lockTask" /\ pc'[q] = label /\ KeepsWho(q) /\ KeepsCall(q) /\ file' = file
        /\ UNCHANGED told
    BY <1>0, <1>4, <2>1, DoesGoto DEF LockTask, At, disk
  <2>3. loc[q].op \in {"claim", "claimBusy"} => loc[q].tgt # i
    BY <2>2 DEF Apart, At
  <2>4. QED
    BY <2>2, <2>3, ApartStays DEF CallLabels, KeepsCall, Apart
<1>5. CASE UnlockTask(q)
  BY <1>0, <1>5, ApartAfterCall DEF UnlockTask, At, disk
<1>6. CASE UnlockList(q)
  <2>1. FALSE
    BY <1>0, <1>1, <1>6 DEF UnlockList, At, LockedFor, InList
  <2>2. QED
    BY <2>1
<1>7. CASE \/ ScanFiles(q) \/ ScanMark(q) \/ Allocate(q) \/ OpenMark(q) \/ SkipMark(q) \/ WriteMark(q)
           \/ ReadDir(q) \/ UnlinkOne(q) \/ UnlinkedAll(q) \/ DeleteFile(q)
  <2>1. FALSE
    BY <1>1, <1>7 DEF ScanFiles, ScanMark, Allocate, OpenMark, SkipMark, WriteMark, ReadDir, UnlinkOne,
       UnlinkedAll, DeleteFile, At, Scanning
  <2>2. QED
    BY <2>1
<1>8. CASE List(q)
  <2>1. /\ pc[q] = "list" /\ pc'[q] = "reading" /\ KeepsWho(q) /\ file' = file /\ UNCHANGED told
    BY <1>0, <1>8, DoesList DEF List, At, disk
  <2>2. loc[q].op \in {"claim", "claimBusy"} => loc[q].tgt # i
    BY <2>1 DEF Apart, At
  <2>3. QED
    BY <2>1, <2>2, ApartStays DEF CallLabels
<1>9. ASSUME NEW j \in Ids, ReadOne(q, j)
      PROVE  ApartKept(q, i)
  <2>1. /\ pc[q] = "reading" /\ pc'[q] = "reading" /\ KeepsWho(q) /\ file' = file /\ UNCHANGED told
    BY <1>0, <1>9, DoesReadOne DEF ReadOne, At, disk
  <2>2. loc[q].op \in {"claim", "claimBusy"} => loc[q].tgt # i
    BY <2>1 DEF Apart, At
  <2>3. QED
    BY <2>1, <2>2, ApartStays DEF CallLabels
<1>10. CASE SnapshotUsed(q)
  <2>1. PICK calls : Calls(q, calls) /\ loc[q].op \in {"delete", "block", "unassign"}
    BY <1>10 DEF SnapshotUsed
  <2>2. file' = file
    BY <1>10 DEF SnapshotUsed, disk
  <2>3. CASE Return(q)
    BY <2>1, <2>2, <2>3, ApartReturn
  <2>4. ASSUME NEW c \in calls, UNCHANGED told,
               Move(q, "check", [loc[q] EXCEPT !.call = c, !.todo = calls \ {c}, !.seen = NoLocals.seen])
        PROVE  ApartKept(q, i)
    <3>1. Begins(q, c, calls \ {c})
      BY <2>4 DEF Begins
    <3>2. pc'[q] = "check" /\ KeepsWho(q)
      BY <1>0, <3>1, DoesFirstCall
    <3>3. QED
      BY <2>1, <2>2, <2>4, <3>2, ApartStays DEF CallLabels
  <2>5. QED
    BY <2>1, <2>3, <2>4 DEF Calls
<1>11. CASE Reread(q)
  <2>1. /\ pc[q] = "reread" /\ pc'[q] \in {"list", "unlock"} /\ KeepsWho(q) /\ KeepsCall(q)
        /\ file' = file /\ UNCHANGED told
    BY <1>0, <1>11, DoesReread DEF disk
  <2>2. loc[q].op = "claim" /\ loc[q].tgt # i /\ loc[q].call.id = loc[q].tgt
    BY <1>0, <2>1 DEF Apart, At, Shape, NoChange
  <2>3. QED
    BY <2>1, <2>2, ApartStays DEF CallLabels, KeepsCall
<1>12. CASE ClaimDecided(q)
  <2>1. /\ pc[q] = "reading" /\ loc[q].op = "claim" /\ pc'[q] \in {"read", "unlock"} /\ KeepsWho(q)
        /\ KeepsCall(q) /\ file' = file /\ UNCHANGED told
    BY <1>0, <1>12, DoesClaimDecided DEF disk
  <2>2. loc[q].tgt # i /\ loc[q].call.id = loc[q].tgt
    BY <1>0, <2>1 DEF Apart, At, Shape, NoChange
  <2>3. QED
    BY <2>1, <2>2, ApartStays DEF CallLabels, KeepsCall
<1>13. CASE BusyClaimDecided(q)
  <2>1. FALSE
    BY <1>0, <1>1, <1>13, DoesBusyClaimDecided DEF InList
  <2>2. QED
    BY <2>1
<1>14. CASE Check(q)
  <2>1. CASE AfterCall(q)
    BY <1>0, <1>14, <2>1, ApartAfterCall DEF Check, At, disk
  <2>2. CASE ~AfterCall(q)
    <3>1. PICK label \in {"lockList", "lockTask"} : Goto(q, label)
      BY <1>14, <2>2 DEF Check
    <3>2. /\ pc[q] = "check" /\ GetTask(loc[q].call.id) # Absent /\ file' = file /\ UNCHANGED told
      BY <1>14, <2>2 DEF Check, At, disk
    <3>3. pc'[q] = label /\ KeepsWho(q) /\ KeepsCall(q)
      BY <1>0, <3>1, DoesGoto
    <3>4. loc[q].call.id # i
      BY <3>2
    <3>5. loc[q].op \in {"claim", "claimBusy"} => loc[q].tgt # i
      BY <1>0, <3>2, <3>4 DEF Shape, NoChange
    <3>6. QED
      BY <3>2, <3>3, <3>4, <3>5, ApartStays DEF CallLabels, KeepsCall
  <2>3. QED
    BY <2>1, <2>2
<1>15. CASE ReadForUpdate(q)
  <2>1. /\ pc[q] = "read" /\ pc'[q] \in {"unlock", "open"} /\ KeepsWho(q) /\ KeepsCall(q)
        /\ file' = file /\ UNCHANGED told
    BY <1>0, <1>15, DoesReadForUpdate DEF disk
  <2>2. QED
    BY <2>1, ApartStays DEF CallLabels, KeepsCall, Apart, At
<1>16. CASE Open(q) \/ Write(q)
  <2>1. /\ pc[q] \in {"open", "write"} /\ pc'[q] \in {"write", "unlock", "unlockList"} /\ KeepsWho(q)
        /\ KeepsCall(q) /\ UNCHANGED told
    BY <1>0, <1>16, DoesOpen, DoesWrite DEF Open, Write, At
  <2>2. loc[q].call.id # i /\ (loc[q].op \in {"claim", "claimBusy"} => loc[q].tgt # i)
    BY <2>1 DEF Apart, CallLabels, At
  <2>3. file'[i] = file[i]
    BY <1>0, <1>16, <2>2 DEF Open, Write
  <2>4. QED
    BY <2>1, <2>2, <2>3, ApartStays DEF CallLabels, KeepsCall
<1>17. QED
  BY <1>2, <1>3, <1>4, <1>5, <1>6, <1>7, <1>8, <1>9, <1>10, <1>11, <1>12, <1>13, <1>14, <1>15, <1>16
     DEF Step

\* The steps that lead to a write.
LEMMA WaysToWrite ==
  ASSUME TypeOK, NEW p \in Actors, Request(p) \/ Step(p) \/ Crash(p), pc'[p] \in {"open", "write"}
  PROVE  Allocate(p) \/ ReadForUpdate(p) \/ Open(p)
<1> DEFINE To == {"idle", "crashed", "lockList", "lockTask", "check", "list", "reading", "reread",
                  "read", "unlock", "unlockList", "scan", "writeMark", "dir", "unlinkAll", "unlink"}
           Goes == \E label \in To : pc' = [pc EXCEPT ![p] = label]
<1>1. Request(p) => Goes
  BY DEF Request, BeginCreate, BeginReset, BeginDelete, BeginClaim, BeginUpdate,
     BeginToolUpdate, BeginBlock, BeginUnassign, Begin, Move
<1>2. AfterCall(p) \/ Throw(p) \/ Return(p) => Goes
  BY DEF AfterCall, Throw, Return, Move
<1>3. ASSUME \/ LockList(p) \/ LockListFails(p) \/ LockTask(p) \/ LockTaskFails(p)
             \/ UnlockTask(p) \/ UnlockList(p)
      PROVE  Goes
  BY <1>2, <1>3 DEF LockList, LockListFails, LockTask, LockTaskFails, UnlockTask, UnlockList, Goto, Move
<1>4. UnlinkedAll(p) \/ List(p) \/ (\E i \in Ids : ReadOne(p, i)) \/ Reread(p) \/ Crash(p) => Goes
  BY DEF UnlinkedAll, List, ReadOne, Reread, Crash, Goto, Move
<1>5. ClaimDecided(p) \/ BusyClaimDecided(p) \/ Check(p) => Goes
  BY <1>2 DEF ClaimDecided, BusyClaimDecided, Check, Goto, Move
<1>6. SnapshotUsed(p) => Goes
  BY <1>2 DEF SnapshotUsed, Calls, Move
<1>7. ScanFiles(p) \/ ScanMark(p) \/ OpenMark(p) \/ SkipMark(p) \/ WriteMark(p) => Goes
  BY DEF ScanFiles, ScanMark, OpenMark, SkipMark, WriteMark, AfterMark, Goto, Move
<1>8. ReadDir(p) \/ UnlinkOne(p) \/ DeleteFile(p) => Goes
  BY <1>2 DEF ReadDir, UnlinkOne, DeleteFile, Unlink, Move
<1>9. Write(p) => Goes
  BY DEF Write, Move
<1>10. ~Goes
  BY DEF TypeOK
<1> HIDE DEF Goes, To
<1>11. Request(p) \/ Crash(p) => FALSE
  BY <1>1, <1>4, <1>10
<1>12. QED
  BY <1>3, <1>4, <1>5, <1>6, <1>7, <1>8, <1>9, <1>10, <1>11, Zenon DEF Step

\* What another actor's step leaves of Apart.
LEMMA ApartOthers ==
  ASSUME NEW r \in Actors, OnlyBy(r), NEW q \in Actors, q # r, NEW i, Apart(q, i)
  PROVE  Apart(q, i)'
<1>1. /\ pc'[q] = pc[q] /\ loc'[q].op = loc[q].op /\ loc'[q].tgt = loc[q].tgt
      /\ loc'[q].call = loc[q].call /\ won'[q] = won[q]
  BY DEF OnlyBy, Keeps, KeepsWho, KeepsCall
<1>2. QED
  BY <1>1 DEF Apart, Mine, At

\* The creator of a task keeps it new until it is written.
LEMMA NewByCreator ==
  ASSUME Base, Undeleted, IdsGrow, NEW p \in Actors, NewFor(p), Request(p) \/ Step(p) \/ Crash(p)
  PROVE  NewFor(p)'
<1>0. /\ TypeOK /\ OnlyBy(p) /\ Shape(can[p], p, pc[p], loc[p]) /\ FilesKnown /\ BaseFor(p)
      /\ file \in [Ids -> Task \cup {Absent, Torn}] /\ issued \subseteq Ids /\ Ids \subseteq Nat
      /\ BaseFor(p)' /\ TypeInv'
  BY Facts, BaseSteps, TypeNext, ConstantsAssumption DEF Sound, Base, TypeOK, Ids, Next
<1> SUFFICES ASSUME New(p)'
             PROVE  \E i \in Ids :
                      /\ loc'[p].tgt = i
                      /\ file'[i] = (IF pc'[p] = "open" THEN Absent ELSE Torn)
                      /\ i \notin done' /\ i \notin won'[p]
                      /\ \A q \in Actors \ {p} : Apart(q, i)'
  BY DEF NewFor, At
<1>1. CASE Allocate(p)
  <2>1. HighestId(p) + 1 \in Ids
    <3>1. CASE Goto(p, "unlockList")
      BY <1>0, <3>1, DoesGoto DEF New
    <3>2. QED
      BY <1>1, <3>1 DEF Allocate
  <2>2. pc'[p] = "open" /\ loc'[p].tgt = HighestId(p) + 1 /\ loc[p].op = "create" /\ listLock = p
    BY <1>0, <1>1, <2>1, DoesAllocate, ScanningIsLocked DEF Scanning, Allocate, At
  <2>3. file' = file /\ done' = done /\ issued' = issued
    BY <1>1 DEF Allocate, disk, told, context
  <2>4. PICK i \in Ids : i = loc'[p].tgt
    BY <2>1, <2>2
  <2>5. i \notin issued
    <3>1. Scanned(p)'
      BY <1>0, <1>1, IdsAllocate DEF IdsGrow
    <3>2. loc'[p].op = "create"
      BY DEF New
    <3>3. \A j \in issued : j < i
      BY <2>2, <2>3, <2>4, <3>1, <3>2 DEF Scanned, At
    <3>4. QED
      BY <1>0, <3>3
  <2>6. ASSUME NEW q \in Actors \ {p}
        PROVE  Apart(q, i)'
    <3>1. BaseFor(q) /\ Shape(can[q], q, pc[q], loc[q])
      BY Facts
    <3>2. loc[q].op = "create" => pc[q] \notin CallLabels
      BY <2>2, <3>1 DEF BaseFor, LockedFor, InList, CallLabels, Shape
    <3>3. Apart(q, i)
      BY <2>5, <3>1, <3>2 DEF Apart, Mine, BaseFor, KnownFor
    <3>4. QED
      BY <1>0, <3>3, ApartOthers
  <2>7. file[i] = Absent /\ i \notin done /\ i \notin won[p]
    BY <1>0, <2>5 DEF FilesKnown, BaseFor, KnownFor
  <2>8. won' = won
    BY <1>1 DEF Allocate, told
  <2>9. QED
    BY <2>2, <2>3, <2>4, <2>6, <2>7, <2>8
<1>2. CASE Open(p)
  <2>1. /\ pc[p] = "open" /\ pc'[p] = "write" /\ loc'[p].op = loc[p].op /\ loc'[p].tgt = loc[p].tgt
        /\ done' = done /\ won' = won /\ file' = [file EXCEPT ![loc[p].call.id] = Torn]
    BY <1>0, <1>2, DoesOpen DEF Open, At, KeepsWho, told
  <2>2. loc[p].op = "create" /\ New(p)
    BY <2>1 DEF New
  <2>3. PICK i \in Ids : i = loc[p].tgt /\ loc[p].call.id = i
    BY <1>0, <2>1, <2>2 DEF Shape, NoChange
  <2>4. i \notin done /\ i \notin won[p] /\ \A q \in Actors \ {p} : Apart(q, i)
    BY <2>2, <2>3 DEF NewFor
  <2>5. \A q \in Actors \ {p} : Apart(q, i)'
    BY <1>0, <2>4, ApartOthers
  <2>6. QED
    BY <1>0, <2>1, <2>3, <2>4, <2>5
<1>3. CASE ReadForUpdate(p)
  <2>1. loc'[p].op # "create"
    BY <1>0, <1>3, DoesReadForUpdate DEF KeepsWho, Shape
  <2>2. QED
    BY <2>1 DEF New
<1>4. QED
  BY <1>0, <1>1, <1>2, <1>3, WaysToWrite DEF New

\* The others leave a new task alone.
LEMMA NewByOthers ==
  ASSUME Base, Undeleted, NEW r \in Actors, Request(r) \/ Step(r) \/ Crash(r),
         NEW p \in Actors, p # r, NewFor(p)
  PROVE  NewFor(p)'
<1>0. /\ TypeOK /\ OnlyBy(r) /\ Shape(can[p], p, pc[p], loc[p]) /\ LockedFor(p)
  BY Facts, BaseSteps DEF Sound
<1>1. pc'[p] = pc[p] /\ loc'[p].op = loc[p].op /\ loc'[p].tgt = loc[p].tgt /\ won'[p] = won[p]
  BY <1>0 DEF OnlyBy, Keeps, KeepsWho
<1> SUFFICES ASSUME New(p) PROVE NewFor(p)'
  BY <1>1 DEF NewFor, New
<1>2. PICK i \in Ids : i = loc[p].tgt
  BY <1>0 DEF New, Shape
<1>3. /\ listLock = p /\ file[i] = (IF At(p, "open") THEN Absent ELSE Torn) /\ i \notin done
      /\ i \notin won[p] /\ \A q \in Actors \ {p} : Apart(q, i)
  BY <1>0, <1>2 DEF New, LockedFor, InList, NewFor
<1>4. ApartKept(r, i)
  <2>1. CASE Request(r)
    BY <1>3, <2>1, ApartBegins
  <2>2. CASE Step(r)
    BY <1>0, <1>3, <2>2, ApartSteps DEF GetTask
  <2>3. CASE Crash(r)
    <3>1. pc'[r] = "crashed" /\ loc'[r].op = "none" /\ file' = file /\ done' = done /\ won'[r] = {}
      BY <1>0, <2>3, DoesEnd DEF Crash, disk, Cleared, TypeOK
    <3>2. QED
      BY <3>1 DEF ApartKept, Apart, Mine, CallLabels
  <2>4. QED
    BY <2>1, <2>2, <2>3
<1>5. \A q \in Actors \ {p} : Apart(q, i)'
  BY <1>0, <1>3, <1>4, ApartOthers DEF ApartKept
<1>6. QED
  BY <1>1, <1>2, <1>3, <1>4, <1>5 DEF NewFor, ApartKept, At

-----------------------------------------------------------------------------
(* Ids are fresh.                                                          *)

Somebody(op) == \E p \in Actors : op \in can[p]

\* Single tasks are deleted only where nobody creates one.
CreatedAlone == Somebody("create") => ~Somebody("delete")

Unwritten == \A p \in Actors : NewFor(p)

Fresh == Base /\ CreatedAlone /\ (Undeleted => IdsGrow /\ Unwritten)

\* A new task's file is Absent, then Torn, and nobody else's, whoever moves.
LEMMA UnwrittenNext ==
  ASSUME Base, Undeleted, IdsGrow, Unwritten, [Next]_vars
  PROVE  Unwritten'
<1>1. CASE StaleLock \/ UNCHANGED vars
  <2>1. UNCHANGED <<file, pc, loc, won, done>>
    BY <1>1 DEF StaleLock, StaleListLock, StaleTaskLock, vars, disk, told
  <2>2. QED
    BY <2>1 DEF Unwritten, NewFor, New, Apart, Mine, At
<1>2. ASSUME NEW p \in Actors, Request(p) \/ Step(p) \/ Crash(p)
      PROVE  Unwritten'
  <2>1. NewFor(p)'
    BY <1>2, NewByCreator DEF Unwritten
  <2>2. ASSUME NEW q \in Actors, q # p
        PROVE  NewFor(q)'
    BY <1>2, <2>2, NewByOthers DEF Unwritten
  <2>3. QED
    BY <2>1, <2>2 DEF Unwritten
<1>3. QED
  BY <1>1, <1>2 DEF Next

\* Fresh is inductive.
LEMMA FreshNext == Fresh /\ [Next]_vars => Fresh'
<1> SUFFICES ASSUME Fresh, [Next]_vars PROVE Fresh'
  OBVIOUS
<1>1. can' = can
  <2>1. ASSUME NEW p \in Actors, Request(p) \/ Step(p) \/ Crash(p)
        PROVE  can' = can
    BY <2>1, BaseSteps DEF Fresh, Sound, OnlyBy
  <2>2. QED
    BY <2>1 DEF Next, StaleLock, StaleListLock, StaleTaskLock, vars, context
<1>2. Base'
  BY BaseNext DEF Fresh
<1>3. CASE Undeleted
  BY <1>1, <1>2, <1>3, IdsNext, UnwrittenNext DEF Fresh, CreatedAlone, Somebody
<1>4. CASE ~Undeleted
  BY <1>1, <1>2, <1>4 DEF Fresh, CreatedAlone, Somebody, Undeleted
<1>5. QED
  BY <1>3, <1>4

\* Fresh holds at first.
LEMMA FreshInit == Init /\ CreatedAlone => Fresh
<1> SUFFICES ASSUME Init, CreatedAlone PROVE Fresh
  OBVIOUS
<1>1. Unwritten
  BY DEF Init, Unwritten, NewFor, New
<1>2. QED
  BY <1>1, BaseInit, IdsInit DEF Fresh

\* Where single tasks are deleted there is no new task.
LEMMA FreshCases ==
  ASSUME Fresh
  PROVE  /\ Unwritten
         /\ \A p \in Actors : loc[p].op = "create" => Undeleted
<1>1. ASSUME NEW p \in Actors, loc[p].op = "create"
      PROVE  Undeleted
  <2>1. Shape(can[p], p, pc[p], loc[p])
    BY Facts DEF Fresh
  <2>2. "create" \in can[p]
    BY <1>1, <2>1 DEF Shape
  <2>3. QED
    BY <2>2 DEF Fresh, CreatedAlone, Somebody, Undeleted
<1>2. ASSUME NEW p \in Actors
      PROVE  NewFor(p)
  BY <1>1 DEF Fresh, Unwritten, NewFor, New
<1>3. QED
  BY <1>1, <1>2 DEF Unwritten

\* An id that createTask is about to use was never given out.
LEMMA FreshIds == Fresh => IdsNeverReused
<1> SUFFICES ASSUME Fresh, NEW p \in Actors, At(p, "open"), loc[p].op = "create"
             PROVE  loc[p].tgt \notin issued
  BY DEF IdsNeverReused
<1>1. Scanned(p) /\ issued \subseteq Nat
  BY FreshCases, ConstantsAssumption DEF Fresh, IdsGrow, Base, TypeInv, TypeOK, Ids
<1>2. \A i \in issued : i < loc[p].tgt
  BY <1>1 DEF Scanned, At
<1>3. Shape(can[p], p, pc[p], loc[p])
  BY Facts DEF Fresh
<1>4. loc[p].tgt \in Ids
  BY <1>3 DEF Shape, At
<1>5. loc[p].tgt \in Int
  BY <1>4, ConstantsAssumption DEF Ids
<1>6. ~(loc[p].tgt < loc[p].tgt)
  BY <1>5
<1>7. QED
  BY <1>2, <1>6

\* createTask never gives out an id twice, whatever resets, crashes and
\* failed operations come between, where no single task is deleted.
THEOREM IdsAreFresh == Spec /\ CreatedAlone => []IdsNeverReused
<1>1. Fresh => IdsNeverReused
  BY FreshIds
<1> QED
  BY <1>1, FreshInit, FreshNext, PTL DEF Spec

-----------------------------------------------------------------------------
(* Every step is of one kind, as far as claims and completions go.         *)

\* The labels of an update that is going on.
Updating == {"check", "lockTask", "read", "open", "write"}

\* Actor p has decided that a task becomes its own, and nobody knows yet.
Claiming(p) ==
  \/ loc[p].op = "claim" /\ (loc[p].ok \/ pc[p] \in {"list", "reading"})
  \/ loc[p].op = "claimBusy" /\ loc[p].ok

\* No file changes but by being unlinked.
OnlyUnlinked == \A i \in Ids : file'[i] = file[i] \/ file'[i] = Absent

\* A step that makes no claim, writes no file and reports nothing.
Quiet(p) ==
  /\ OnlyUnlinked
  /\ Mine(p)' \subseteq Mine(p) /\ won'[p] \subseteq won[p] /\ done' = done
  /\ pc'[p] \in {"open", "write"} => loc'[p].op = "create"
  /\ Claiming(p)' => /\ Claiming(p) /\ loc'[p].op = loc[p].op /\ loc'[p].tgt = loc[p].tgt
                     /\ pc'[p] \in {"unlock", "unlockList"} =>
                          pc[p] \in {"unlock", "unlockList"} \/ file[loc[p].tgt] \notin Task
  /\ loc'[p].op = "finish" => ~loc'[p].ok
  /\ loc'[p].op = loc[p].op \/ loc'[p].op \notin {"crash", "timeout"}

\* The end of an operation that has something to report.
Told(p) ==
  /\ file' = file /\ pc'[p] = "idle" /\ loc'[p].op = "none" /\ loc[p].ok
  /\ \/ /\ loc[p].op = "finish" /\ pc[p] = "unlock"
        /\ won'[p] = won[p] /\ done' = done \cup {loc[p].tgt}
     \/ /\ \/ loc[p].op = "claim" /\ pc[p] = "unlock"
           \/ loc[p].op = "claimBusy" /\ pc[p] = "unlockList"
        /\ won'[p] = won[p] \cup {loc[p].tgt} /\ done' = done

\* Going on with an operation.
LEMMA QuietMoves ==
  ASSUME NEW p \in Actors, KeepsWho(p), loc'[p].ok => loc[p].ok, OnlyUnlinked, UNCHANGED told,
         pc'[p] \in {"open", "write"} => loc[p].op = "create",
         loc[p].op = "release" /\ pc'[p] \in Updating => pc[p] \in Updating,
         loc[p].op = "claim" /\ pc'[p] \in {"list", "reading"} => loc[p].ok \/ pc[p] \in {"list", "reading"},
         loc[p].op \in {"claim", "claimBusy"} /\ loc'[p].ok /\ pc'[p] \in {"unlock", "unlockList"} =>
           pc[p] \in {"unlock", "unlockList"} \/ file[loc[p].tgt] \notin Task,
         loc[p].op = "finish" => ~loc'[p].ok
  PROVE  Quiet(p)
<1>1. loc'[p].op = loc[p].op /\ loc'[p].tgt = loc[p].tgt /\ won' = won /\ done' = done
  BY DEF KeepsWho, told
<1>2. Mine(p)' \subseteq Mine(p)
  BY <1>1 DEF Mine, Updating
<1>3. QED
  BY <1>1, <1>2 DEF Quiet, Claiming

\* Ending an operation that has nothing to report, or a process.
LEMMA QuietEnds ==
  ASSUME NEW p \in Actors, pc'[p] \in {"idle", "crashed"}, loc'[p].op = "none", OnlyUnlinked,
         won'[p] \subseteq won[p], done' = done
  PROVE  Quiet(p)
  BY DEF Quiet, Mine, Claiming

\* Every request is quiet.
LEMMA QuietBegins ==
  ASSUME Base, NEW p \in Actors, Request(p)
  PROVE  Quiet(p)
<1>0. TypeOK
  BY Facts
<1>1. ASSUME NEW op, Begun(p, op), pc'[p] \notin {"open", "write"},
             op \notin {"crash", "timeout"}, op = "claim" => pc'[p] \notin {"list", "reading"},
             won'[p] \subseteq won[p], op = "release" => loc'[p].tgt \in won[p]
      PROVE  Quiet(p)
  <2>1. Mine(p)' \subseteq Mine(p)
    BY <1>1 DEF Mine, Begun
  <2>2. QED
    BY <1>1, <2>1 DEF Quiet, Begun, Claiming, OnlyUnlinked, disk
<1>2. CASE BeginCreate(p) \/ BeginReset(p)
  BY <1>0, <1>1, <1>2, DoesBeginList DEF Begun
<1>3. ASSUME NEW i \in Ids, BeginDelete(p, i)
      PROVE  Quiet(p)
  BY <1>0, <1>1, <1>3, DoesBeginDelete
<1>4. ASSUME NEW i \in Ids, NEW op \in {"claim", "claimBusy"}, BeginClaim(p, i, op)
      PROVE  Quiet(p)
  BY <1>0, <1>1, <1>4, DoesBeginClaim
<1>5. ASSUME NEW i \in Ids, NEW op \in {"start", "finish", "edit", "release"}, BeginUpdate(p, i, op)
      PROVE  Quiet(p)
  <2>1. /\ Begun(p, op) /\ loc'[p].tgt = i /\ pc'[p] = "check"
        /\ (op \in {"start", "release"} => i \in won[p])
        /\ won' = IF op = "release" THEN [won EXCEPT ![p] = @ \ {i}] ELSE won
    BY <1>0, <1>5, DoesBeginUpdate
  <2>2. won'[p] \subseteq won[p]
    BY <1>0, <2>1 DEF TypeOK
  <2>3. QED
    BY <1>1, <2>1, <2>2
<1>6. ASSUME NEW i \in Ids, NEW j \in Ids, BeginBlock(p, i, j)
      PROVE  Quiet(p)
  BY <1>0, <1>1, <1>6, DoesBeginBlock
<1>7. ASSUME NEW q \in Actors, BeginUnassign(p, q)
      PROVE  Quiet(p)
  BY <1>0, <1>1, <1>7, DoesBeginUnassign
<1>8. ASSUME NEW i \in Ids, NEW op \in {"assign", "setOpen"}, NEW owner \in Actors \cup {None, Keep},
             NEW status \in Status \cup {Keep}, BeginToolUpdate(p, i, op, owner, status)
      PROVE  Quiet(p)
  BY <1>0, <1>1, <1>8, DoesBeginToolUpdate
<1>9. QED
  BY <1>2, <1>3, <1>4, <1>5, <1>6, <1>7, <1>8 DEF Request

\* The end of an update reports what the operation found.
LEMMA KindsOfReturn ==
  ASSUME Base, NEW p \in Actors, Return(p), file' = file, pc[p] \in {"check", "unlock", "unlockList", "reading", "unlink"},
         listLock # p \/ pc[p] = "unlockList"
  PROVE  Quiet(p) \/ Told(p)
<1>0. TypeOK /\ CallsFor(p) /\ LockedFor(p) /\ Shape(can[p], p, pc[p], loc[p])
  BY Facts
<1>1. /\ pc'[p] = "idle" /\ loc'[p].op = "none"
      /\ won'[p] = (IF loc[p].ok /\ loc[p].op \in {"claim", "claimBusy"}
                    THEN won[p] \cup {loc[p].tgt} ELSE won[p])
      /\ done' = (IF loc[p].ok /\ loc[p].op = "finish" THEN done \cup {loc[p].tgt} ELSE done)
  BY <1>0, DoesReturn DEF Cleared
<1>2. CASE loc[p].ok /\ loc[p].op \in {"claim", "claimBusy", "finish"}
  <2>1. CASE loc[p].op \in {"claim", "finish"}
    BY <1>0, <1>1, <1>2, <2>1 DEF CallsFor, Told, At
  <2>2. CASE loc[p].op = "claimBusy"
    BY <1>0, <1>1, <1>2, <2>2 DEF LockedFor, InList, Told
  <2>3. QED
    BY <1>2, <2>1, <2>2
<1>3. CASE ~(loc[p].ok /\ loc[p].op \in {"claim", "claimBusy", "finish"})
  BY <1>1, <1>3, QuietEnds DEF OnlyUnlinked
<1>4. QED
  BY <1>2, <1>3

\* After an update: on to the next one, or the end.
LEMMA KindsOfAfterCall ==
  ASSUME Base, NEW p \in Actors, AfterCall(p), file' = file,
         pc[p] = "unlock" \/ (pc[p] = "check" /\ GetTask(loc[p].call.id) = Absent)
  PROVE  Quiet(p) \/ Told(p)
<1>0. /\ TypeOK /\ CallsFor(p) /\ LockedFor(p) /\ Shape(can[p], p, pc[p], loc[p]) /\ loc[p] \in Locals
      /\ file \in [Ids -> Task \cup {Absent, Torn}]
  BY Facts DEF TypeOK
<1>1. ASSUME NEW c \in loc[p].todo, UNCHANGED told,
             Move(p, "check", [loc[p] EXCEPT !.call = c, !.todo = @ \ {c}, !.val = Absent])
      PROVE  Quiet(p)
  <2>1. GoesOn(p, c, loc[p].todo \ {c})
    BY <1>0, <1>1 DEF Locals, GoesOn
  <2>2. pc'[p] = "check" /\ KeepsWho(p) /\ loc'[p].ok = loc[p].ok
    BY <1>0, <2>1, DoesCall
  <2>3. loc[p].op \in {"delete", "block", "unassign"}
    BY <1>0, <1>1 DEF CallsFor
  <2>4. QED
    BY <1>1, <2>2, <2>3, QuietMoves DEF OnlyUnlinked
<1>2. CASE /\ loc[p].todo = {} /\ listLock = p /\ UNCHANGED told
           /\ Move(p, "unlockList", [loc[p] EXCEPT !.call = None, !.val = Absent])
  <2>1. pc'[p] = "unlockList" /\ KeepsWho(p) /\ loc'[p].ok = loc[p].ok
    BY <1>0, <1>2, DoesEndCalls
  <2>2. loc[p].op = "claimBusy" /\ loc[p].call.id = loc[p].tgt
    BY <1>0, <1>2 DEF LockedFor, InList, At, Shape, NoChange
  <2>3. pc[p] = "unlock" \/ file[loc[p].tgt] \notin Task
    BY <2>2, SentinelsAssumption DEF GetTask
  <2>4. QED
    BY <1>2, <2>1, <2>2, <2>3, QuietMoves DEF OnlyUnlinked
<1>3. CASE listLock # p /\ Return(p)
  BY <1>3, KindsOfReturn
<1>4. QED
  BY <1>1, <1>2, <1>3 DEF AfterCall

\* An exception is quiet.
LEMMA QuietThrow ==
  ASSUME Base, NEW p \in Actors, Throw(p), file' = file
  PROVE  Quiet(p)
<1>0. TypeOK
  BY Facts
<1>1. UNCHANGED told /\ OnlyUnlinked
  BY DEF Throw, OnlyUnlinked
<1>2. CASE Move(p, "unlockList", [loc[p] EXCEPT !.ok = FALSE, !.call = None, !.val = Absent])
  <2>1. pc'[p] = "unlockList" /\ KeepsWho(p) /\ loc'[p].ok = FALSE
    BY <1>0, <1>2, DoesThrowLocked
  <2>2. QED
    BY <1>1, <2>1, QuietMoves DEF Updating
<1>3. CASE Move(p, "idle", NoLocals)
  BY <1>0, <1>1, <1>3, DoesEnd, QuietEnds DEF Cleared, told
<1>4. QED
  BY <1>2, <1>3 DEF Throw

\* The steps that change no file, by their labels.
LEMMA QuietLists ==
  ASSUME Base, NEW p \in Actors,
         \/ LockList(p) \/ List(p) \/ (\E i \in Ids : ReadOne(p, i)) \/ LockTask(p) \/ ScanFiles(p)
         \/ ScanMark(p) \/ ReadDir(p)
  PROVE  Quiet(p)
<1>0. /\ TypeOK /\ CallsFor(p) /\ LockedFor(p) /\ Shape(can[p], p, pc[p], loc[p])
  BY Facts
<1>1. CASE LockList(p)
  <2>1. /\ pc[p] = "lockList" /\ pc'[p] \in {"scan", "list"} /\ KeepsWho(p) /\ loc'[p].ok = loc[p].ok
        /\ UNCHANGED <<disk, told>>
    BY <1>0, <1>1, DoesLockList
  <2>2. loc[p].op \in {"create", "reset", "claimBusy"}
    BY <1>0, <2>1 DEF Shape
  <2>3. QED
    BY <2>1, <2>2, QuietMoves DEF OnlyUnlinked, disk
<1>2. CASE List(p)
  <2>1. /\ pc[p] = "list" /\ pc'[p] = "reading" /\ KeepsWho(p) /\ loc'[p].ok = loc[p].ok
        /\ UNCHANGED <<disk, told>>
    BY <1>0, <1>2, DoesList DEF List, At
  <2>2. QED
    BY <1>0, <2>1, QuietMoves DEF OnlyUnlinked, disk, CallsFor, Updating, At
<1>3. ASSUME NEW i \in Ids, ReadOne(p, i)
      PROVE  Quiet(p)
  <2>1. /\ pc[p] = "reading" /\ pc'[p] = "reading" /\ KeepsWho(p) /\ loc'[p].ok = loc[p].ok
        /\ UNCHANGED <<disk, told>>
    BY <1>0, <1>3, DoesReadOne DEF ReadOne, At
  <2>2. QED
    BY <1>0, <2>1, QuietMoves DEF OnlyUnlinked, disk, CallsFor, Updating, At
<1>4. CASE LockTask(p)
  <2>1. PICK label \in {"reread", "read"} : Goto(p, label)
    BY <1>4 DEF LockTask
  <2>2. /\ pc[p] = "lockTask" /\ pc'[p] = label /\ KeepsWho(p) /\ loc'[p].ok = loc[p].ok
        /\ UNCHANGED <<disk, told>>
    BY <1>0, <1>4, <2>1, DoesGoto DEF LockTask, At
  <2>3. QED
    BY <1>0, <2>2, QuietMoves DEF OnlyUnlinked, disk, CallsFor, Updating, At
<1>5. CASE ScanFiles(p)
  <2>1. PICK n \in 0..MaxId : Scans(p, n)
    BY <1>5 DEF ScanFiles, Scans
  <2>2. n \in Nat
    BY <2>1
  <2>3. /\ pc[p] = "scan" /\ pc'[p] = "scan" /\ KeepsWho(p) /\ loc'[p].ok = loc[p].ok
        /\ UNCHANGED <<disk, told>>
    BY <1>0, <1>5, <2>1, <2>2, DoesScanFiles DEF ScanFiles, At
  <2>4. QED
    BY <1>0, <2>3, QuietMoves DEF OnlyUnlinked, disk, Updating, Shape
<1>6. CASE ScanMark(p) \/ ReadDir(p)
  <2>1. /\ pc[p] \in {"scan", "dir"} /\ pc'[p] \in {"scan", "unlinkAll"} /\ KeepsWho(p)
        /\ loc'[p].ok = loc[p].ok /\ UNCHANGED <<disk, told>>
    BY <1>0, <1>6, DoesScanMark, DoesReadDir DEF ScanMark, ReadDir, At
  <2>2. QED
    BY <1>0, <2>1, QuietMoves DEF OnlyUnlinked, disk, Updating, Shape
<1>7. QED
  BY <1>1, <1>2, <1>3, <1>4, <1>5, <1>6

\* Choosing an id, the mark and unlinking are quiet.
LEMMA QuietMarks ==
  ASSUME Base, NEW p \in Actors,
         Allocate(p) \/ OpenMark(p) \/ SkipMark(p) \/ WriteMark(p) \/ UnlinkedAll(p) \/ UnlinkOne(p)
  PROVE  Quiet(p)
<1>0. /\ TypeOK /\ Shape(can[p], p, pc[p], loc[p]) /\ loc[p] \in Locals
      /\ file \in [Ids -> Task \cup {Absent, Torn}]
  BY Facts DEF TypeOK
<1>1. CASE Allocate(p)
  <2>1. loc[p].op = "create" /\ UNCHANGED <<disk, told>>
    BY <1>1 DEF Allocate
  <2>2. CASE HighestId(p) + 1 \in Ids
    <3>1. /\ loc'[p].op = "create" /\ loc'[p].ok = loc[p].ok
      BY <1>0, <1>1, <2>1, <2>2, DoesAllocate
    <3>2. QED
      BY <2>1, <3>1 DEF Quiet, OnlyUnlinked, Mine, Claiming, disk, told
  <2>3. CASE Goto(p, "unlockList")
    <3>1. /\ loc'[p].op = "create" /\ loc'[p].ok = loc[p].ok
      BY <1>0, <2>1, <2>3, DoesGoto DEF KeepsWho
    <3>2. QED
      BY <2>1, <3>1 DEF Quiet, OnlyUnlinked, Mine, Claiming, disk, told
  <2>4. QED
    BY <1>1, <2>2, <2>3 DEF Allocate
<1>2. CASE OpenMark(p) \/ SkipMark(p) \/ WriteMark(p) \/ UnlinkedAll(p)
  <2>1. PICK label \in {"writeMark", "dir", "unlink", "unlockList"} : Goto(p, label)
    BY <1>2 DEF OpenMark, SkipMark, WriteMark, UnlinkedAll, AfterMark
  <2>2. pc'[p] = label /\ KeepsWho(p) /\ loc'[p].ok = loc[p].ok
    BY <1>0, <2>1, DoesGoto
  <2>3. loc[p].op \in {"reset", "delete"} /\ OnlyUnlinked /\ UNCHANGED told
    BY <1>0, <1>2 DEF OpenMark, SkipMark, WriteMark, UnlinkedAll, At, Shape, OnlyUnlinked, disk
  <2>4. QED
    BY <2>2, <2>3, QuietMoves DEF Updating
<1>3. CASE UnlinkOne(p)
  <2>1. PICK i \in loc[p].unread : Unlink(p, i, "unlinkAll", [loc[p] EXCEPT !.unread = @ \ {i}])
    BY <1>3 DEF UnlinkOne
  <2>2. /\ KeepsWho(p) /\ loc'[p].ok = loc[p].ok /\ i \in Ids
    BY <1>0, <2>1, DoesUnlinkOne
  <2>3. pc'[p] = "unlinkAll" /\ OnlyUnlinked
    BY <1>0, <2>1, <2>2 DEF Unlink, OnlyUnlinked, TypeOK
  <2>4. loc[p].op = "reset" /\ UNCHANGED told
    BY <1>0, <1>3 DEF UnlinkOne, At, Shape
  <2>5. QED
    BY <2>2, <2>3, <2>4, QuietMoves DEF Updating
<1>4. QED
  BY <1>1, <1>2, <1>3

\* What a step may be to the claims.
Kinds(p) ==
  \/ Quiet(p) \/ Told(p)
  \/ Reread(p) /\ At(p, "list")'
  \/ BusyClaimDecided(p) /\ At(p, "check")'
  \/ ReadForUpdate(p) /\ At(p, "open")'
  \/ Open(p) \/ Write(p)

\* The decisions of a claim.
LEMMA KindsOfClaims ==
  ASSUME Base, NEW p \in Actors, Reread(p) \/ ClaimDecided(p) \/ BusyClaimDecided(p)
  PROVE  Kinds(p)
<1>0. /\ TypeOK /\ CallsFor(p) /\ Shape(can[p], p, pc[p], loc[p])
  BY Facts
<1>1. CASE Reread(p) /\ pc'[p] # "list"
  <2>1. /\ pc[p] = "reread" /\ pc'[p] = "unlock" /\ KeepsWho(p) /\ loc'[p].ok = loc[p].ok
        /\ UNCHANGED <<disk, told>>
    BY <1>0, <1>1, DoesReread
  <2>2. loc[p].op = "claim" /\ ~loc[p].ok
    BY <1>0, <2>1 DEF Shape, CallsFor
  <2>3. QED
    BY <2>1, <2>2, QuietMoves DEF OnlyUnlinked, disk, Updating, Kinds
<1>2. CASE ClaimDecided(p)
  <2>1. /\ pc[p] = "reading" /\ loc[p].op = "claim" /\ KeepsWho(p) /\ UNCHANGED <<disk, told>>
        /\ \/ loc'[p].ok = TRUE /\ pc'[p] = "read"
           \/ loc'[p].ok = FALSE /\ pc'[p] = "unlock"
    BY <1>0, <1>2, DoesClaimDecided
  <2>2. QED
    BY <2>1 DEF Kinds, Quiet, OnlyUnlinked, Mine, Claiming, KeepsWho, disk, told
<1>3. CASE BusyClaimDecided(p) /\ pc'[p] # "check"
  <2>1. /\ pc[p] = "reading" /\ loc[p].op = "claimBusy" /\ KeepsWho(p) /\ UNCHANGED <<disk, told>>
        /\ loc'[p].ok = FALSE /\ pc'[p] = "unlockList"
    BY <1>0, <1>3, DoesBusyClaimDecided
  <2>2. QED
    BY <2>1, QuietMoves DEF OnlyUnlinked, disk, Updating, Kinds
<1>4. QED
  BY <1>1, <1>2, <1>3 DEF Kinds, At

\* The look before the lock, and the read under it.
LEMMA KindsOfUpdates ==
  ASSUME Base, NEW p \in Actors, Check(p) \/ ReadForUpdate(p)
  PROVE  Kinds(p)
<1>0. /\ TypeOK /\ CallsFor(p) /\ LockedFor(p) /\ Shape(can[p], p, pc[p], loc[p])
  BY Facts
<1>1. CASE Check(p)
  <2>1. CASE AfterCall(p) /\ GetTask(loc[p].call.id) = Absent
    BY <1>1, <2>1, KindsOfAfterCall DEF Check, At, disk, Kinds
  <2>2. ASSUME NEW label \in {"lockList", "lockTask"}, Goto(p, label), UNCHANGED told
        PROVE  Quiet(p)
    <3>1. pc[p] = "check" /\ pc'[p] = label /\ KeepsWho(p) /\ loc'[p].ok = loc[p].ok /\ file' = file
      BY <1>0, <1>1, <2>2, DoesGoto DEF Check, At, disk
    <3>2. QED
      BY <1>0, <2>2, <3>1, QuietMoves DEF OnlyUnlinked, CallsFor, Updating, At
  <2>3. QED
    BY <1>1, <2>1, <2>2 DEF Check, Kinds
<1>2. CASE ReadForUpdate(p) /\ pc'[p] # "open"
  <2>1. /\ pc[p] = "read" /\ pc'[p] = "unlock" /\ KeepsWho(p) /\ loc'[p].ok = loc[p].ok
        /\ UNCHANGED <<disk, told>> /\ GetTask(loc[p].call.id) = Absent
    BY <1>0, <1>2, DoesReadForUpdate
  <2>2. file[loc[p].call.id] \notin Task
    BY <2>1, SentinelsAssumption DEF GetTask
  <2>3. loc[p].op \in {"claim", "claimBusy"} => loc[p].call.id = loc[p].tgt
    BY <1>0, <2>1 DEF Shape, NoChange
  <2>4. QED
    BY <1>0, <2>1, <2>2, <2>3, QuietMoves DEF OnlyUnlinked, disk, Updating, Kinds, CallsFor, At
<1>3. QED
  BY <1>1, <1>2 DEF Kinds, At

\* Every step of an agent is of one of these kinds.
LEMMA KindsOfSteps ==
  ASSUME Base, NEW p \in Actors, Request(p) \/ Step(p) \/ Crash(p)
  PROVE  Kinds(p)
<1>0. /\ TypeOK /\ LockedFor(p) /\ Shape(can[p], p, pc[p], loc[p])
  BY Facts
<1>1. CASE LockListFails(p) \/ LockTaskFails(p)
  BY <1>1, QuietThrow DEF LockListFails, LockTaskFails, disk, Kinds
<1>2. CASE UnlockTask(p)
  BY <1>2, KindsOfAfterCall DEF UnlockTask, At, disk, Kinds
<1>3. CASE UnlockList(p)
  BY <1>3, KindsOfReturn DEF UnlockList, At, disk, Kinds
<1>4. CASE DeleteFile(p)
  <2>1. pc[p] = "unlink" /\ loc[p].op = "delete" /\ listLock # p
    BY <1>0, <1>4 DEF DeleteFile, At, Shape, LockedFor, InList
  <2>2. CASE Return(p) /\ UNCHANGED file
    BY <2>1, <2>2, KindsOfReturn DEF Kinds
  <2>3. CASE Unlink(p, loc[p].tgt, "list", loc[p]) /\ UNCHANGED told
    <3>1. pc'[p] = "list" /\ loc'[p] = loc[p] /\ file' = [file EXCEPT ![loc[p].tgt] = Absent]
      BY <1>0, <2>3 DEF Unlink, TypeOK
    <3>2. KeepsWho(p) /\ OnlyUnlinked
      BY <1>0, <3>1 DEF KeepsWho, OnlyUnlinked, TypeOK
    <3>3. QED
      BY <2>1, <2>3, <3>1, <3>2, QuietMoves DEF Updating, Kinds
  <2>4. QED
    BY <1>4, <2>2, <2>3 DEF DeleteFile
<1>5. CASE SnapshotUsed(p)
  <2>1. PICK calls : Calls(p, calls) /\ loc[p].op \in {"delete", "block", "unassign"}
    BY <1>5 DEF SnapshotUsed
  <2>2. pc[p] = "reading" /\ file' = file /\ listLock # p
    BY <1>0, <1>5, <2>1 DEF SnapshotUsed, At, disk, LockedFor, InList
  <2>3. ASSUME NEW c \in calls, Begins(p, c, calls \ {c}), UNCHANGED told
        PROVE  Quiet(p)
    <3>1. pc'[p] = "check" /\ KeepsWho(p) /\ loc'[p].ok = loc[p].ok
      BY <1>0, <2>3, DoesFirstCall
    <3>2. QED
      BY <2>1, <2>2, <2>3, <3>1, QuietMoves DEF OnlyUnlinked
  <2>4. QED
    BY <2>1, <2>2, <2>3, KindsOfReturn DEF Calls, Begins, Kinds
<1>6. CASE Crash(p)
  <2>1. pc'[p] = "crashed" /\ loc'[p].op = "none" /\ file' = file /\ done' = done /\ won'[p] = {}
    BY <1>0, <1>6, DoesEnd DEF Crash, disk, Cleared, TypeOK
  <2>2. QED
    BY <2>1, QuietEnds DEF OnlyUnlinked, Kinds
<1>7. QED
  BY <1>1, <1>2, <1>3, <1>4, <1>5, <1>6, QuietBegins, QuietLists, QuietMarks, KindsOfClaims,
     KindsOfUpdates DEF Kinds, Step

-----------------------------------------------------------------------------
(* What a file holds while it is rewritten.                                *)

\* Actor q is writing task i, which is not a new one.
Writing(q, i) == loc[q].op # "create" /\ pc[q] \in {"open", "write"} /\ loc[q].call.id = i

\* What the file holds while it is rewritten.
TornFor(p) == At(p, "write") /\ loc[p].op # "create" => file[loc[p].call.id] \in {Absent, Torn}

\* An operation is one of those an agent calls.
OpFor(p) == loc[p].op \notin {"crash", "timeout"}

Whole == Fresh /\ \A p \in Actors : TornFor(p) /\ OpFor(p)

\* Two that hold the same task's lock are one.
LEMMA OneUpdater ==
  ASSUME Base, NEW p \in Actors, NEW q \in Actors, InTask(p), InTask(q), loc[p].call.id = loc[q].call.id
  PROVE  p = q
  BY Facts DEF LockedFor

\* What a step leaves of the others' operations.
LEMMA OthersKeep ==
  ASSUME Base, NEW p \in Actors, Request(p) \/ Step(p) \/ Crash(p), NEW q \in Actors, q # p
  PROVE  /\ pc'[q] = pc[q] /\ loc'[q].op = loc[q].op /\ loc'[q].tgt = loc[q].tgt
         /\ loc'[q].call = loc[q].call /\ loc'[q].val = loc[q].val /\ loc'[q].ok = loc[q].ok
         /\ loc'[q].seen = loc[q].seen /\ loc'[q].unread = loc[q].unread
         /\ won'[q] = won[q] /\ can' = can
  BY BaseSteps DEF Sound, OnlyBy, Keeps, KeepsWho, KeepsCall, KeepsRead

\* The only way a file comes to hold another task than before.
LEMMA FileChanges ==
  ASSUME Base, NEW p \in Actors, Request(p) \/ Step(p) \/ Crash(p), NEW i \in Ids
  PROVE  \/ file'[i] \in {file[i], Absent, Torn}
         \/ /\ Write(p) /\ pc[p] = "write" /\ loc[p].call.id = i /\ loc[p].fd
            /\ file'[i] = loc[p].val /\ loc[p].val \in Task
<1>0. /\ TypeOK /\ Shape(can[p], p, pc[p], loc[p]) /\ file \in [Ids -> Task \cup {Absent, Torn}]
  BY Facts DEF TypeOK
<1>1. CASE Quiet(p) \/ Told(p)
  BY <1>1 DEF Quiet, OnlyUnlinked, Told
<1>2. CASE Reread(p) \/ BusyClaimDecided(p) \/ ReadForUpdate(p)
  BY <1>2 DEF Reread, BusyClaimDecided, ReadForUpdate, disk
<1>3. CASE Open(p)
  BY <1>0, <1>3 DEF Open
<1>4. CASE Write(p)
  BY <1>0, <1>4 DEF Write, At, Shape
<1>5. QED
  BY <1>1, <1>2, <1>3, <1>4, KindsOfSteps DEF Kinds

\* Whose file it can be that is written.
LEMMA WrittenApart ==
  ASSUME Whole, NEW p \in Actors, NEW q \in Actors, p # q, pc[p] = "write", InTask(q)
  PROVE  loc[p].call.id # loc[q].call.id
<1>0. Base /\ Shape(can[p], p, pc[p], loc[p]) /\ Shape(can[q], q, pc[q], loc[q]) /\ NewFor(p)
  BY Facts, FreshCases DEF Whole, Fresh, Unwritten
<1>1. CASE loc[p].op = "create"
  <2>1. New(p) /\ loc[p].call.id = loc[p].tgt
    BY <1>0, <1>1 DEF New, Shape, NoChange
  <2>2. Apart(q, loc[p].tgt)
    BY <1>0, <2>1 DEF NewFor
  <2>3. pc[q] \in CallLabels \ {"check"} => loc[q].call.id # loc[p].tgt
    BY <2>2 DEF Apart
  <2>4. CASE pc[q] \in {"reread", "list", "reading"}
    <3>1. loc[q].op = "claim" /\ loc[q].call.id = loc[q].tgt
      BY <1>0, <2>4 DEF InTask, Shape, NoChange
    <3>2. QED
      BY <2>1, <2>2, <2>4, <3>1 DEF Apart, At
  <2>5. QED
    BY <2>1, <2>3, <2>4 DEF InTask, CallLabels
<1>2. CASE loc[p].op # "create"
  BY <1>0, <1>2, OneUpdater DEF InTask
<1>3. QED
  BY <1>1, <1>2

\* A file that another rewrites stays torn or unlinked.
LEMMA TornOthers ==
  ASSUME Whole, NEW p \in Actors, Request(p) \/ Step(p) \/ Crash(p), NEW q \in Actors, q # p
  PROVE  TornFor(q)'
<1>1. SUFFICES ASSUME pc[q] = "write", loc[q].op # "create"
               PROVE  file'[loc[q].call.id] \in {Absent, Torn}
  BY OthersKeep DEF TornFor, At, Whole, Fresh
<1>2. /\ Base /\ loc[q].call.id \in Ids /\ file[loc[q].call.id] \in {Absent, Torn} /\ InTask(q)
  <2>1. Shape(can[q], q, pc[q], loc[q]) /\ Base
    BY Facts DEF Whole, Fresh
  <2>2. QED
    BY <1>1, <2>1 DEF Whole, TornFor, At, Shape, CallLabels, Call, InTask
<1>3. QED
  BY <1>2, FileChanges, WrittenApart

\* A file that p rewrites is torn first.
LEMMA TornBy ==
  ASSUME Whole, NEW p \in Actors, Request(p) \/ Step(p) \/ Crash(p)
  PROVE  TornFor(p)'
<1>0. /\ Base /\ TypeOK /\ Shape(can[p], p, pc[p], loc[p]) /\ file \in [Ids -> Task \cup {Absent, Torn}]
  BY Facts DEF Whole, Fresh, TypeOK
<1> SUFFICES ASSUME pc'[p] = "write", loc'[p].op # "create"
             PROVE  file'[loc'[p].call.id] = Torn
  BY DEF TornFor, At
<1>1. CASE Open(p)
  <2>1. loc'[p].call = loc[p].call /\ loc[p].call.id \in Ids
    BY <1>0, <1>1, DoesOpen DEF Open, At, KeepsCall, Shape, CallLabels, Call
  <2>2. QED
    BY <1>0, <1>1, <2>1 DEF Open
<1>2. CASE Quiet(p) \/ Told(p)
  BY <1>2 DEF Quiet, Told
<1>3. CASE Write(p)
  BY <1>0, <1>3, DoesWrite
<1>4. QED
  BY <1>0, <1>1, <1>2, <1>3, KindsOfSteps DEF Kinds, At

\* An operation changes only where it begins or ends.
LEMMA OpBy ==
  ASSUME Base, NEW p \in Actors, Request(p) \/ Step(p) \/ Crash(p), OpFor(p)
  PROVE  OpFor(p)'
<1>0. TypeOK
  BY Facts
<1>1. CASE Quiet(p) \/ Told(p)
  BY <1>1 DEF Quiet, Told, OpFor
<1>2. CASE Reread(p) \/ BusyClaimDecided(p) \/ ReadForUpdate(p) \/ Open(p) \/ Write(p)
  <2>1. KeepsWho(p)
    BY <1>0, <1>2, DoesReread, DoesBusyClaimDecided, DoesReadForUpdate, DoesOpen, DoesWrite
  <2>2. QED
    BY <2>1 DEF KeepsWho, OpFor
<1>3. QED
  BY <1>1, <1>2, KindsOfSteps DEF Kinds

\* Whole is inductive.
LEMMA WholeNext == Whole /\ [Next]_vars => Whole'
<1> SUFFICES ASSUME Whole, [Next]_vars PROVE Whole'
  OBVIOUS
<1>1. Fresh'
  BY FreshNext DEF Whole
<1>2. CASE StaleLock \/ UNCHANGED vars
  <2>1. UNCHANGED <<file, pc, loc>>
    BY <1>2 DEF StaleLock, StaleListLock, StaleTaskLock, vars, disk
  <2>2. QED
    BY <1>1, <2>1 DEF Whole, TornFor, OpFor, At
<1>3. ASSUME NEW p \in Actors, Request(p) \/ Step(p) \/ Crash(p)
      PROVE  Whole'
  <2>1. ASSUME NEW q \in Actors
        PROVE  TornFor(q)' /\ OpFor(q)'
    <3>1. Base /\ OpFor(p) /\ OpFor(q)
      BY DEF Whole, Fresh
    <3>2. OpFor(q)'
      BY <1>3, <3>1, OpBy, OthersKeep DEF OpFor
    <3>3. QED
      BY <1>3, <3>2, TornBy, TornOthers
  <2>2. QED
    BY <1>1, <2>1 DEF Whole
<1>4. QED
  BY <1>2, <1>3 DEF Next

\* Whole holds at first.
LEMMA WholeInit == Init /\ CreatedAlone => Whole
  BY FreshInit DEF Init, Whole, TornFor, OpFor, NoLocals, At

-----------------------------------------------------------------------------
(* Claims stand.                                                           *)

\* Every operation that writes a task holds the list's lock, or is its owner's.
ListLocked ==
  \A p \in Actors : can[p] \subseteq {"claimBusy", "release", "create", "reset", "crash", "timeout"}

\* Nobody claims under the list's lock, and nobody takes a task from its owner:
\* no owner is written by the edits of TaskUpdateTool or for a killed teammate.
TaskLocked == \A p \in Actors : can[p] \cap {"claimBusy", "unassign", "assign", "setOpen"} = {}

Guarded == ListLocked \/ TaskLocked

Named(p, i) == file[i] \in Task => file[i].owner = p

\* Task i is nobody's but p's.
Clear(p, i) == \A q \in Actors \ {p} : i \notin Mine(q)

Offered(p, t) == t # Absent /\ t.owner \in {None, p}

\* What p holds names it, and every write that is under way will.
OwnFor(p) ==
  \A i \in Mine(p) :
    /\ Named(p, i) /\ Clear(p, i)
    /\ \A q \in Actors : Writing(q, i) /\ (q = p => i \in won[p]) => loc[q].val.owner = p

\* What p claims is nobody else's; the file says so before p is told.
ClaimFor(p) ==
  /\ Claiming(p) => Clear(p, loc[p].tgt)
  /\ Claiming(p) /\ pc[p] \in {"unlock", "unlockList"} => Named(p, loc[p].tgt)
  /\ loc[p].op \in {"claim", "claimBusy"} /\ pc[p] \in {"open", "write"} => loc[p].val.owner = p

\* Where a claim under the list's lock has looked, nothing changes.
SeenFor(p) ==
  loc[p].op = "claimBusy" =>
    /\ pc[p] # "reading" => \A i \in Ids : loc[p].seen[i] = Absent
    /\ \A i \in Ids : Offered(p, loc[p].seen[i]) => Clear(p, i)

Claims ==
  /\ Whole /\ Guarded
  /\ \A p \in Actors : OwnFor(p) /\ ClaimFor(p) /\ SeenFor(p)

\* What an operation can be where the claims are guarded.
LEMMA GuardedOps ==
  ASSUME Whole, Guarded, NEW p \in Actors
  PROVE  /\ loc[p].op \notin {"unassign", "assign", "setOpen"}
         /\ loc[p].op = "claimBusy" => ListLocked
         /\ ListLocked => loc[p].op \in {"none", "claimBusy", "release", "create", "reset"}
<1>1. Shape(can[p], p, pc[p], loc[p]) /\ OpFor(p)
  BY Facts DEF Whole, Fresh
<1>2. (loc[p].op = "none" \/ loc[p].op \in can[p]) /\ loc[p].op \notin {"crash", "timeout"}
  BY <1>1 DEF Shape, OpFor
<1>3. CASE ListLocked
  <2>1. can[p] \subseteq {"claimBusy", "release", "create", "reset", "crash", "timeout"}
    BY <1>3 DEF ListLocked
  <2>2. QED
    BY <1>2, <1>3, <2>1
<1>4. CASE TaskLocked /\ ~ListLocked
  BY <1>2, <1>4 DEF TaskLocked
<1>5. QED
  BY <1>3, <1>4 DEF Guarded

\* The facts about p that Claims gives.
LEMMA ClaimFacts ==
  ASSUME Claims, NEW p \in Actors
  PROVE  /\ Base /\ Whole /\ Fresh /\ OwnFor(p) /\ ClaimFor(p) /\ SeenFor(p) /\ TornFor(p) /\ NewFor(p) /\ Guarded
         /\ TypeOK /\ LockedFor(p) /\ KnownFor(p) /\ CallsFor(p)
         /\ Shape(can[p], p, pc[p], loc[p]) /\ loc[p] \in Locals
         /\ file \in [Ids -> Task \cup {Absent, Torn}]
<1>1. Base /\ Whole /\ Fresh /\ OwnFor(p) /\ ClaimFor(p) /\ SeenFor(p) /\ TornFor(p) /\ NewFor(p) /\ Guarded
  BY FreshCases DEF Claims, Whole, Fresh, Unwritten
<1>2. QED
  BY <1>1, Facts DEF TypeOK

\* The labels and calls of a claim.
LEMMA ClaimLabels ==
  ASSUME Base, NEW p \in Actors, Claiming(p)
  PROVE  /\ loc[p].op = "claim" => InTask(p) /\ loc[p].call.id = loc[p].tgt
                                   /\ pc[p] \in {"list", "reading", "read", "open", "write", "unlock"}
         /\ loc[p].op = "claimBusy" => InList(p) /\ listLock = p
         /\ loc[p].op = "claimBusy" /\ pc[p] \in CallLabels => loc[p].call.id = loc[p].tgt
<1>1. CallsFor(p) /\ LockedFor(p) /\ Shape(can[p], p, pc[p], loc[p])
  BY Facts
<1>2. ASSUME loc[p].op = "claim"
      PROVE  pc[p] \in {"list", "reading", "read", "open", "write", "unlock"}
  BY <1>1, <1>2 DEF Claiming, CallsFor
<1>3. loc[p].op \in {"claim", "claimBusy"} /\ pc[p] # "unlockList" => loc[p].call.id = loc[p].tgt
  BY <1>1 DEF Shape, NoChange
<1>4. loc[p].op = "claimBusy" => loc[p].ok
  BY DEF Claiming
<1>5. QED
  BY <1>1, <1>2, <1>3, <1>4 DEF InTask, InList, LockedFor, CallLabels

\* No two claim the same task at a time.
LEMMA ClaimersDiffer ==
  ASSUME Whole, Guarded, NEW p \in Actors, NEW q \in Actors, Claiming(p), Claiming(q), loc[p].tgt = loc[q].tgt
  PROVE  p = q
<1>0. Base
  BY DEF Whole, Fresh
<1>1. CASE loc[p].op = "claimBusy" \/ loc[q].op = "claimBusy"
  <2>1. loc[p].op \in {"claim", "claimBusy"} /\ loc[q].op \in {"claim", "claimBusy"}
    BY DEF Claiming
  <2>2. loc[p].op = "claimBusy" /\ loc[q].op = "claimBusy"
    BY <1>1, <2>1, GuardedOps
  <2>3. QED
    BY <1>0, <2>2, ClaimLabels
<1>2. CASE loc[p].op = "claim" /\ loc[q].op = "claim"
  BY <1>0, <1>2, ClaimLabels, OneUpdater
<1>3. QED
  BY <1>1, <1>2 DEF Claiming

\* Whose a task can become by a step of p.
LEMMA MineSteps ==
  ASSUME Base, NEW p \in Actors, Request(p) \/ Step(p) \/ Crash(p), NEW i \in Mine(p)'
  PROVE  \/ i \in Mine(p) /\ (i \in won'[p] => i \in won[p])
         \/ Told(p) /\ loc[p].op \in {"claim", "claimBusy"} /\ i = loc[p].tgt
<1>0. TypeOK
  BY Facts
<1>1. CASE Quiet(p)
  BY <1>1 DEF Quiet
<1>2. CASE Told(p)
  BY <1>2 DEF Told, Mine
<1>3. ASSUME KeepsWho(p), won' = won,
             pc[p] \in Updating \/ pc'[p] \notin Updating \/ loc[p].op # "release"
      PROVE  i \in Mine(p) /\ (i \in won'[p] => i \in won[p])
  BY <1>3 DEF Mine, KeepsWho, Updating
<1>4. CASE Reread(p) /\ At(p, "list")'
  BY <1>0, <1>3, <1>4, DoesReread DEF told, At, Updating
<1>5. CASE BusyClaimDecided(p)
  BY <1>0, <1>3, <1>5, DoesBusyClaimDecided DEF told
<1>6. CASE ReadForUpdate(p)
  BY <1>0, <1>3, <1>6, DoesReadForUpdate DEF told, Updating
<1>7. CASE Open(p)
  BY <1>0, <1>3, <1>7, DoesOpen DEF Open, At, told, Updating
<1>8. CASE Write(p)
  BY <1>0, <1>3, <1>8, DoesWrite DEF Write, At, told, Updating
<1>9. QED
  BY <1>1, <1>2, <1>4, <1>5, <1>6, <1>7, <1>8, KindsOfSteps DEF Kinds

\* Being told of a claim, p had made one.
LEMMA ToldClaimed ==
  ASSUME Claims, NEW p \in Actors, Told(p), loc[p].op \in {"claim", "claimBusy"}
  PROVE  Claiming(p) /\ Clear(p, loc[p].tgt) /\ Named(p, loc[p].tgt)
<1>1. Claiming(p) /\ pc[p] \in {"unlock", "unlockList"}
  BY DEF Told, Claiming
<1>2. QED
  BY <1>1, ClaimFacts DEF ClaimFor

\* A file that names p is rewritten only with p as its owner.
LEMMA NamedStays ==
  ASSUME Claims, NEW p \in Actors, Request(p) \/ Step(p) \/ Crash(p), NEW r \in Actors,
         NEW i \in Mine(r), Named(r, i), r = p => i \in Mine(p)' /\ (Write(p) => i \in won[p])
  PROVE  Named(r, i)'
<1>0. /\ Base /\ OwnFor(r) /\ i \in Ids /\ KnownFor(r) /\ NewFor(p) /\ Shape(can[p], p, pc[p], loc[p])
  <2>1. Shape(can[r], r, pc[r], loc[r]) /\ CallsFor(r) /\ KnownFor(r) /\ TypeOK
    BY ClaimFacts
  <2>2. i \in Ids
    <3>1. CASE i \in won[r]
      BY <2>1, <3>1 DEF TypeOK
    <3>2. CASE i \notin won[r]
      <4>1. i = loc[r].tgt /\ loc[r].op = "release" /\ pc[r] \in CallLabels
        BY <3>2 DEF Mine, CallLabels
      <4>2. QED
        BY <2>1, <4>1 DEF CallsFor, Shape, Call
    <3>3. QED
      BY <3>1, <3>2
  <2>3. QED
    BY <2>2, ClaimFacts
<1>1. CASE file'[i] \in {file[i], Absent, Torn}
  BY <1>1, SentinelsAssumption DEF Named
<1>2. CASE /\ Write(p) /\ pc[p] = "write" /\ loc[p].call.id = i /\ file'[i] = loc[p].val
  <2>1. CASE loc[p].op = "create"
    <3>1. New(p) /\ i = loc[p].tgt
      BY <1>0, <1>2, <2>1 DEF New, Shape, NoChange
    <3>2. r # p => i \notin Mine(r)
      BY <1>0, <3>1 DEF NewFor, Apart
    <3>3. r = p
      BY <3>2
    <3>4. i \notin won[p]
      BY <1>0, <3>1 DEF NewFor
    <3>5. QED
      BY <1>2, <3>3, <3>4
  <2>2. CASE loc[p].op # "create"
    <3>1. Writing(p, i)
      BY <1>2, <2>2 DEF Writing
    <3>2. loc[p].val.owner = r
      BY <1>0, <1>2, <3>1 DEF OwnFor
    <3>3. QED
      BY <1>2, <3>2 DEF Named
  <2>3. QED
    BY <2>1, <2>2
<1>3. QED
  BY <1>0, <1>1, <1>2, FileChanges

\* Reading a task that names r, p will not write another owner's name.
LEMMA ReadNames ==
  ASSUME Claims, NEW p \in Actors, ReadForUpdate(p), At(p, "open")', NEW r \in Actors,
         NEW i \in Mine(r), loc[p].call.id = i, r = p => i \in won[p]
  PROVE  loc'[p].val.owner = r
<1>0. /\ Base /\ TypeOK /\ OwnFor(r) /\ OwnFor(p) /\ ClaimFor(p) /\ CallsFor(p) /\ Whole /\ Guarded
      /\ Shape(can[p], p, pc[p], loc[p]) /\ file \in [Ids -> Task \cup {Absent, Torn}]
  BY ClaimFacts
<1>1. /\ pc[p] = "read" /\ GetTask(i) # Absent /\ loc'[p].val = Merge(GetTask(i), loc[p].call)
  BY <1>0, DoesReadForUpdate DEF At
<1>2. i \in Ids /\ CallIs(p, loc[p].op, loc[p].call)
  BY <1>0, <1>1 DEF Shape, CallLabels, Call, CallsFor
<1>3. file[i] \in Task /\ GetTask(i) = file[i] /\ file[i].owner = r
  <2>1. file[i] \in Task /\ GetTask(i) = file[i]
    BY <1>0, <1>1, <1>2 DEF GetTask
  <2>2. QED
    BY <1>0, <2>1 DEF OwnFor, Named
<1>4. loc'[p].val.owner = Pick(loc[p].call.owner, r)
  BY <1>1, <1>3 DEF Merge
<1>5. CASE loc[p].op \in {"claim", "claimBusy"}
  <2>1. Claiming(p)
    BY <1>0, <1>1, <1>5 DEF CallsFor, Claiming
  <2>2. loc[p].tgt = i
    BY <1>0, <1>1, <1>5, <2>1, ClaimLabels DEF CallLabels
  <2>3. r = p
    BY <1>0, <2>1, <2>2 DEF ClaimFor, Clear
  <2>4. loc[p].call.owner = p
    BY <1>2, <1>5 DEF CallIs
  <2>5. QED
    BY <1>4, <2>3, <2>4 DEF Pick
<1>6. CASE loc[p].op = "release"
  <2>1. loc[p].tgt = i /\ i \notin won[p] /\ i \in Mine(p)
    BY <1>0, <1>1, <1>6 DEF CallsFor, CallLabels, Mine
  <2>2. QED
    BY <1>0, <2>1 DEF OwnFor, Clear
<1>7. CASE loc[p].op \notin {"claim", "claimBusy", "release"}
  <2>1. loc[p].op \notin {"unassign", "assign", "setOpen"}
    BY <1>0, GuardedOps
  <2>2. loc[p].call.owner = Keep
    BY <1>2, <1>7, <2>1 DEF CallIs
  <2>3. QED
    BY <1>4, <2>2 DEF Pick
<1>8. QED
  BY <1>5, <1>6, <1>7

\* A task that a claim has just been reported of is written by nobody.
LEMMA ToldUnwritten ==
  ASSUME Claims, NEW p \in Actors, Told(p), loc[p].op \in {"claim", "claimBusy"}, NEW q \in Actors
  PROVE  ~Writing(q, loc[p].tgt)
<1>0. Base /\ Whole /\ Guarded /\ Claiming(p) /\ Clear(p, loc[p].tgt)
  BY ClaimFacts, ToldClaimed
<1> SUFFICES ASSUME Writing(q, loc[p].tgt) PROVE FALSE
  OBVIOUS
<1>1. q # p
  BY DEF Told, Writing
<1>2. InTask(q) /\ loc[q].call.id = loc[p].tgt
  BY DEF Writing, InTask
<1>3. CASE loc[p].op = "claim"
  BY <1>0, <1>1, <1>2, <1>3, ClaimLabels, OneUpdater
<1>4. CASE loc[p].op = "claimBusy"
  <2>1. listLock = p /\ loc[q].op \in {"claimBusy", "release"}
    <3>1. listLock = p /\ ListLocked
      BY <1>0, <1>4, ClaimLabels, GuardedOps
    <3>2. loc[q].op \in {"none", "claimBusy", "release", "create", "reset"}
      BY <1>0, <3>1, GuardedOps
    <3>3. Shape(can[q], q, pc[q], loc[q])
      BY <1>0, Facts
    <3>4. loc[q].op \notin {"none", "create", "reset"}
      <4>1. loc[q].op # "none"
        BY <3>1, <3>3 DEF Writing, Shape, Active, ListLocked
      <4>2. QED
        BY <3>3, <4>1 DEF Writing, Shape
    <3>5. QED
      BY <3>1, <3>2, <3>4
  <2>2. CASE loc[q].op = "claimBusy"
    <3>1. InList(q)
      BY <2>2 DEF Writing, InList
    <3>2. QED
      BY <1>0, <1>1, <2>1, <3>1, Facts DEF LockedFor
  <2>3. CASE loc[q].op = "release"
    <3>1. loc[q].call.id = loc[q].tgt
      BY <1>0, <2>3, Facts DEF CallsFor, CallLabels, Writing
    <3>2. loc[p].tgt \in Mine(q)
      BY <1>2, <2>3, <3>1 DEF Mine, Writing
    <3>3. QED
      BY <1>0, <1>1, <3>2 DEF Clear
  <2>4. QED
    BY <2>1, <2>2, <2>3
<1>5. QED
  BY <1>3, <1>4

\* What the others hold and claim is what they held and claimed.
LEMMA OthersClaims ==
  ASSUME Base, NEW p \in Actors, Request(p) \/ Step(p) \/ Crash(p), NEW q \in Actors, q # p
  PROVE  Mine(q)' = Mine(q) /\ (Claiming(q)' <=> Claiming(q))
  BY OthersKeep DEF Mine, Claiming

\* Nobody comes to hold what another holds or claims.
LEMMA ClearStays ==
  ASSUME Claims, NEW p \in Actors, Request(p) \/ Step(p) \/ Crash(p), NEW r \in Actors, NEW i,
         Clear(r, i), Told(p) /\ loc[p].op \in {"claim", "claimBusy"} => r = p \/ i # loc[p].tgt
  PROVE  Clear(r, i)'
<1>1. Base
  BY DEF Claims, Whole, Fresh
<1>2. ASSUME NEW q \in Actors, q # r, i \in Mine(q)'
      PROVE  FALSE
  <2>1. CASE q = p
    <3>1. i \in Mine(p)' /\ i \notin Mine(p)
      BY <1>2, <2>1 DEF Clear
    <3>2. QED
      BY <1>1, <1>2, <2>1, <3>1, MineSteps
  <2>2. CASE q # p
    BY <1>1, <1>2, <2>2, OthersClaims DEF Clear
  <2>3. QED
    BY <2>1, <2>2
<1>3. QED
  BY <1>2 DEF Clear

\* No step of p makes it write another's task under a new name.
LEMMA WritesOwned ==
  ASSUME Claims, NEW p \in Actors, Request(p) \/ Step(p) \/ Crash(p), NEW r \in Actors,
         NEW i \in Mine(r), Writing(p, i)', r = p => i \in won[p]
  PROVE  loc'[p].val.owner = r
<1>0. /\ Base /\ TypeOK /\ OwnFor(r) /\ Shape(can[p], p, pc[p], loc[p])
  BY ClaimFacts
<1>1. CASE Quiet(p) \/ Told(p)
  BY <1>1 DEF Quiet, Told, Writing
<1>2. CASE Reread(p) /\ At(p, "list")'
  BY <1>2 DEF At, Writing
<1>3. CASE BusyClaimDecided(p) /\ At(p, "check")'
  BY <1>3 DEF At, Writing
<1>4. CASE ReadForUpdate(p) /\ At(p, "open")'
  <2>1. loc[p].call.id = i
    BY <1>0, <1>4, DoesReadForUpdate DEF KeepsCall, Writing
  <2>2. QED
    BY <1>4, <2>1, ReadNames
<1>5. CASE Open(p)
  <2>1. /\ pc[p] = "open" /\ loc'[p].op = loc[p].op /\ loc'[p].call = loc[p].call
        /\ loc'[p].val = loc[p].val
    BY <1>0, <1>5, DoesOpen DEF Open, At, KeepsWho, KeepsCall
  <2>2. Writing(p, i)
    BY <2>1 DEF Writing
  <2>3. QED
    BY <1>0, <2>1, <2>2 DEF OwnFor
<1>6. CASE Write(p)
  <2>1. pc'[p] \in {"unlock", "unlockList"}
    BY <1>0, <1>6, DoesWrite
  <2>2. QED
    BY <2>1 DEF Writing
<1>7. QED
  BY <1>0, <1>1, <1>2, <1>3, <1>4, <1>5, <1>6, KindsOfSteps DEF Kinds

\* What an agent holds goes on naming it, whoever moves.
LEMMA OwnNext ==
  ASSUME Claims, NEW p \in Actors, Request(p) \/ Step(p) \/ Crash(p), NEW r \in Actors
  PROVE  OwnFor(r)'
<1>0. Base /\ OwnFor(r) /\ TypeOK
  BY ClaimFacts
<1> SUFFICES ASSUME NEW i \in Mine(r)'
             PROVE  /\ Named(r, i)' /\ Clear(r, i)'
                    /\ \A q \in Actors : Writing(q, i)' /\ (q = r => i \in won'[r]) => loc'[q].val.owner = r
  BY DEF OwnFor
<1>1. CASE i \in Mine(r) /\ (i \in won'[r] => i \in won[r])
  <2>1. Named(r, i) /\ Clear(r, i)
    BY <1>0, <1>1 DEF OwnFor
  <2>2. Clear(r, i)'
    <3>1. Told(p) /\ loc[p].op \in {"claim", "claimBusy"} /\ r # p => i # loc[p].tgt
      BY <1>1, ToldClaimed DEF Clear
    <3>2. QED
      BY <2>1, <3>1, ClearStays
  <2>3. r = p /\ Write(p) => i \in won[p]
    <3>1. ASSUME r = p, Write(p)
          PROVE  i \in won'[p]
      BY <1>0, <3>1, DoesWrite DEF Mine
    <3>2. QED
      BY <1>1, <3>1
  <2>4. Named(r, i)'
    BY <1>1, <2>1, <2>3, NamedStays
  <2>5. ASSUME NEW q \in Actors, Writing(q, i)', q = r => i \in won'[r]
        PROVE  loc'[q].val.owner = r
    <3>1. CASE q = p
      BY <1>1, <2>5, <3>1, WritesOwned
    <3>2. CASE q # p
      <4>1. Writing(q, i) /\ loc'[q].val = loc[q].val
        BY <1>0, <2>5, <3>2, OthersKeep DEF Writing
      <4>2. QED
        BY <1>0, <1>1, <2>5, <4>1 DEF OwnFor
    <3>3. QED
      BY <3>1, <3>2
  <2>6. QED
    BY <2>2, <2>4, <2>5
<1>2. CASE r = p /\ Told(p) /\ loc[p].op \in {"claim", "claimBusy"} /\ i = loc[p].tgt
  <2>1. Named(p, i) /\ Clear(p, i) /\ file' = file
    BY <1>2, ToldClaimed DEF Told
  <2>2. Named(r, i)' /\ Clear(r, i)'
    BY <1>2, <2>1, ClearStays DEF Named
  <2>3. ASSUME NEW q \in Actors, Writing(q, i)'
        PROVE  FALSE
    <3>1. CASE q = p
      BY <1>2, <2>3, <3>1 DEF Writing, Told
    <3>2. CASE q # p
      <4>1. Writing(q, i)
        BY <1>0, <2>3, <3>2, OthersKeep DEF Writing
      <4>2. QED
        BY <1>2, <4>1, ToldUnwritten
    <3>3. QED
      BY <3>1, <3>2
  <2>4. QED
    BY <2>2, <2>3
<1>3. QED
  <2>1. CASE r = p
    BY <1>0, <1>1, <1>2, <2>1, MineSteps
  <2>2. CASE r # p
    BY <1>0, <1>1, <2>2, OthersClaims, OthersKeep
  <2>3. QED
    BY <2>1, <2>2

\* The claims of the others stand.
LEMMA ClaimOthers ==
  ASSUME Claims, NEW p \in Actors, Request(p) \/ Step(p) \/ Crash(p), NEW q \in Actors, q # p
  PROVE  ClaimFor(q)'
<1>0. /\ Base /\ Whole /\ Guarded /\ ClaimFor(q) /\ NewFor(p) /\ CallsFor(p) /\ LockedFor(p) /\ LockedFor(q)
      /\ Shape(can[p], p, pc[p], loc[p]) /\ Shape(can[q], q, pc[q], loc[q])
  BY ClaimFacts
<1>1. /\ pc'[q] = pc[q] /\ loc'[q].op = loc[q].op /\ loc'[q].tgt = loc[q].tgt
      /\ loc'[q].val = loc[q].val /\ (Claiming(q)' <=> Claiming(q))
  BY <1>0, OthersKeep, OthersClaims
<1>2. ASSUME Claiming(q)
      PROVE  Clear(q, loc[q].tgt)'
  <2>1. Told(p) /\ loc[p].op \in {"claim", "claimBusy"} => loc[q].tgt # loc[p].tgt
    BY <1>0, <1>2, ToldClaimed, ClaimersDiffer
  <2>2. PICK i : i = loc[q].tgt
    OBVIOUS
  <2>3. Clear(q, i)'
    BY <1>0, <1>2, <2>1, <2>2, ClearStays DEF ClaimFor
  <2>4. loc'[q].tgt = i
    BY <1>1, <2>2
  <2>5. QED
    BY <2>3, <2>4 DEF Clear
<1>3. ASSUME Claiming(q), pc[q] \in {"unlock", "unlockList"}
      PROVE  Named(q, loc[q].tgt)'
  <2>1. PICK i \in Ids : i = loc[q].tgt
    BY <1>0, <1>3 DEF Shape, Claiming
  <2>2. Named(q, i) /\ Clear(q, i)
    BY <1>0, <1>3, <2>1 DEF ClaimFor, Named, Clear
  <2>3. CASE file'[i] \in {file[i], Absent, Torn}
    BY <1>1, <2>1, <2>2, <2>3, SentinelsAssumption DEF Named
  <2>4. CASE pc[p] = "write" /\ loc[p].call.id = i
    <3>1. CASE pc[q] = "unlock"
      <4>1. InTask(q) /\ loc[q].call.id = i
        BY <1>0, <1>3, <2>1, <3>1, ClaimLabels DEF InTask, CallLabels, Claiming
      <4>2. QED
        BY <1>0, <2>4, <4>1, WrittenApart
    <3>2. CASE pc[q] = "unlockList"
      <4>1. loc[q].op = "claimBusy" /\ listLock = q /\ ListLocked
        BY <1>0, <1>3, <3>2, ClaimLabels, GuardedOps DEF Claiming
      <4>2. ~InList(p)
        BY <1>0, <4>1 DEF LockedFor
      <4>3. loc[p].op = "release"
        <5>1. loc[p].op \in {"none", "claimBusy", "release", "create", "reset"}
          BY <1>0, <4>1, GuardedOps
        <5>2. loc[p].op # "none"
          BY <1>0, <2>4, <4>1 DEF Shape, Active, ListLocked
        <5>3. QED
          BY <2>4, <4>2, <5>1, <5>2 DEF InList
      <4>4. i \in Mine(p)
        BY <1>0, <2>4, <4>3 DEF CallsFor, CallLabels, Mine
      <4>5. QED
        BY <2>2, <4>4 DEF Clear
    <3>3. QED
      BY <1>3, <3>1, <3>2
  <2>5. QED
    BY <1>0, <1>1, <2>1, <2>3, <2>4, FileChanges DEF Named
<1>4. QED
  BY <1>0, <1>1, <1>2, <1>3 DEF ClaimFor

\* A claim of p is made on a task that is nobody else's.
LEMMA ClaimMade ==
  ASSUME Claims, NEW p \in Actors, Request(p) \/ Step(p) \/ Crash(p), Claiming(p)'
  PROVE  \E i \in Ids : loc'[p].tgt = i /\ Clear(p, i)
<1>0. /\ Base /\ TypeOK /\ ClaimFor(p) /\ SeenFor(p) /\ CallsFor(p) /\ Shape(can[p], p, pc[p], loc[p])
      /\ file \in [Ids -> Task \cup {Absent, Torn}]
  BY ClaimFacts
<1>1. CASE Claiming(p) /\ loc'[p].tgt = loc[p].tgt
  <2>1. loc[p].tgt \in Ids
    BY <1>0, <1>1 DEF Claiming, Shape
  <2>2. QED
    BY <1>0, <1>1, <2>1 DEF ClaimFor
<1>2. CASE Quiet(p) \/ Told(p)
  <2>1. Quiet(p)
    BY <1>2 DEF Told, Claiming
  <2>2. QED
    BY <1>1, <2>1 DEF Quiet
<1>3. CASE Reread(p) /\ At(p, "list")'
  <2>1. /\ pc[p] = "reread" /\ KeepsWho(p)
        /\ GetTask(loc[p].tgt) # Absent /\ Claimable(p, GetTask(loc[p].tgt))
    BY <1>0, <1>3, DoesReread DEF At
  <2>2. PICK i \in Ids : i = loc[p].tgt
    BY <1>0, <2>1 DEF Shape
  <2>3. file[i] \in Task /\ file[i].owner \in {None, p}
    BY <1>0, <2>1, <2>2 DEF GetTask, Claimable
  <2>4. ASSUME NEW q \in Actors \ {p}, i \in Mine(q)
        PROVE  FALSE
    <3>1. file[i].owner = q
      BY <2>3, <2>4, ClaimFacts DEF OwnFor, Named
    <3>2. QED
      BY <2>3, <2>4, <3>1, SentinelsAssumption
  <2>5. QED
    BY <2>1, <2>2, <2>4 DEF Clear, KeepsWho
<1>4. CASE BusyClaimDecided(p) /\ At(p, "check")'
  <2>1. /\ pc[p] = "reading" /\ loc[p].op = "claimBusy" /\ KeepsWho(p) /\ Free(p)
    BY <1>0, <1>4, DoesBusyClaimDecided DEF At
  <2>2. PICK i \in Ids : i = loc[p].tgt
    BY <1>0, <2>1 DEF Shape
  <2>3. Offered(p, loc[p].seen[i])
    BY <2>1, <2>2 DEF Free, Claimable, Offered
  <2>4. Clear(p, i)
    BY <1>0, <2>1, <2>3 DEF SeenFor
  <2>5. QED
    BY <2>1, <2>2, <2>4 DEF KeepsWho
<1>5. CASE ReadForUpdate(p) \/ Open(p) \/ Write(p)
  <2>1. /\ pc[p] \in {"read", "open", "write"} /\ KeepsWho(p)
        /\ loc'[p].ok = (loc[p].ok \/ (Write(p) /\ loc[p].op = "finish"))
        /\ pc'[p] \notin {"list", "reading"}
    BY <1>0, <1>5, DoesReadForUpdate, DoesOpen, DoesWrite DEF Open, Write, At, TypeOK, Locals
  <2>2. Claiming(p)
    BY <2>1 DEF Claiming, KeepsWho
  <2>3. QED
    BY <1>1, <2>1, <2>2 DEF KeepsWho
<1>6. QED
  BY <1>0, <1>2, <1>3, <1>4, <1>5, KindsOfSteps DEF Kinds

\* What p has just written or read names p.
LEMMA ClaimWritten ==
  ASSUME Claims, NEW p \in Actors, Request(p) \/ Step(p) \/ Crash(p)
  PROVE  /\ loc'[p].op \in {"claim", "claimBusy"} /\ pc'[p] \in {"open", "write"} => loc'[p].val.owner = p
         /\ Claiming(p)' /\ pc'[p] \in {"unlock", "unlockList"} => Named(p, loc[p].tgt)' /\ loc'[p].tgt = loc[p].tgt
<1>0. /\ Base /\ TypeOK /\ ClaimFor(p) /\ CallsFor(p) /\ TornFor(p) /\ Shape(can[p], p, pc[p], loc[p])
      /\ file \in [Ids -> Task \cup {Absent, Torn}]
  BY ClaimFacts
<1>1. CASE Told(p)
  BY <1>1 DEF Told, Claiming
<1>2. CASE Quiet(p)
  <2>1. ASSUME Claiming(p)', pc'[p] \in {"unlock", "unlockList"}
        PROVE  Named(p, loc[p].tgt)' /\ loc'[p].tgt = loc[p].tgt
    <3>1. Claiming(p) /\ loc'[p].tgt = loc[p].tgt
      BY <1>2, <2>1 DEF Quiet
    <3>2. PICK i \in Ids : i = loc[p].tgt
      BY <1>0, <3>1 DEF Claiming, Shape
    <3>3. Named(p, i)
      BY <1>0, <1>2, <2>1, <3>1, <3>2 DEF Quiet, ClaimFor, Named
    <3>4. file'[i] = file[i] \/ file'[i] = Absent
      BY <1>2 DEF Quiet, OnlyUnlinked
    <3>5. QED
      BY <3>1, <3>2, <3>3, <3>4, SentinelsAssumption DEF Named
  <2>2. QED
    BY <1>2, <2>1 DEF Quiet
<1>3. CASE (Reread(p) /\ At(p, "list")') \/ (BusyClaimDecided(p) /\ At(p, "check")')
  BY <1>3 DEF At
<1>4. CASE ReadForUpdate(p) /\ At(p, "open")'
  <2>1. /\ pc[p] = "read" /\ KeepsWho(p) /\ loc'[p].val = Merge(GetTask(loc[p].call.id), loc[p].call)
    BY <1>0, <1>4, DoesReadForUpdate DEF At
  <2>2. loc[p].op \in {"claim", "claimBusy"} => loc[p].call.owner = p
    BY <1>0, <2>1 DEF CallsFor, CallIs, CallLabels
  <2>3. p # Keep
    BY SentinelsAssumption
  <2>4. QED
    BY <1>4, <2>1, <2>2, <2>3 DEF Merge, Pick, KeepsWho, At
<1>5. CASE Open(p)
  <2>1. pc[p] = "open" /\ pc'[p] = "write" /\ KeepsWho(p) /\ loc'[p].val = loc[p].val
    BY <1>0, <1>5, DoesOpen DEF Open, At
  <2>2. QED
    BY <1>0, <2>1 DEF ClaimFor, KeepsWho
<1>6. CASE Write(p)
  <2>1. /\ pc[p] = "write" /\ pc'[p] \in {"unlock", "unlockList"} /\ KeepsWho(p)
        /\ file' = IF loc[p].fd THEN [file EXCEPT ![loc[p].call.id] = loc[p].val] ELSE file
    BY <1>0, <1>6, DoesWrite DEF Write, At
  <2>2. ASSUME Claiming(p)'
        PROVE  Named(p, loc[p].tgt)'
    <3>1. loc[p].op \in {"claim", "claimBusy"} /\ loc'[p].tgt = loc[p].tgt
      BY <2>1, <2>2 DEF Claiming, KeepsWho
    <3>2. PICK i \in Ids : i = loc[p].tgt /\ loc[p].call.id = i
      BY <1>0, <2>1, <3>1 DEF Shape, NoChange
    <3>3. loc[p].val.owner = p /\ file[i] \in {Absent, Torn}
      BY <1>0, <2>1, <3>1, <3>2 DEF ClaimFor, TornFor, At
    <3>4. file'[i] \in Task => file'[i].owner = p
      BY <1>0, <2>1, <3>2, <3>3, SentinelsAssumption
    <3>5. QED
      BY <3>1, <3>2, <3>4 DEF Named
  <2>3. QED
    BY <2>1, <2>2 DEF KeepsWho
<1>7. QED
  BY <1>1, <1>2, <1>3, <1>4, <1>5, <1>6, <1>0, KindsOfSteps DEF Kinds

\* What p claims is nobody else's, after its own step.
LEMMA ClaimBy ==
  ASSUME Claims, NEW p \in Actors, Request(p) \/ Step(p) \/ Crash(p)
  PROVE  ClaimFor(p)'
<1>1. ASSUME Claiming(p)'
      PROVE  Clear(p, loc[p].tgt)'
  <2>1. PICK i \in Ids : loc'[p].tgt = i /\ Clear(p, i)
    BY <1>1, ClaimMade
  <2>2. Clear(p, i)'
    BY <2>1, ClearStays
  <2>3. QED
    BY <2>1, <2>2 DEF Clear
<1>2. QED
  BY <1>1, ClaimWritten DEF ClaimFor

\* A step of a claim under the list's lock, as far as what it has seen.
SeenKept(p) ==
  \/ /\ pc'[p] # "reading" /\ \A i \in Ids : loc'[p].seen[i] = Absent
  \/ /\ pc[p] = "list" /\ pc'[p] = "reading" /\ loc[p].op = "claimBusy" /\ loc'[p].seen = loc[p].seen
     /\ loc'[p].unread = {i \in Ids : file[i] # Absent} /\ file' = file /\ won' = won
  \/ /\ loc[p].op = "claimBusy" /\ file' = file /\ won' = won /\ \E i \in Ids : ReadOne(p, i)

\* The steps of a claim that keep what it has seen, or forget it.
LEMMA SeenMoves ==
  ASSUME Base, NEW p \in Actors, SeenFor(p), KeepsWho(p), pc[p] # "reading", pc'[p] # "reading",
         loc'[p].seen = loc[p].seen, loc'[p].op = "claimBusy"
  PROVE  SeenKept(p)
  BY DEF SeenFor, SeenKept, KeepsWho

\* A claim that begins has seen nothing.
LEMMA SeenRequests ==
  ASSUME Base, NEW p \in Actors, Request(p), loc'[p].op = "claimBusy"
  PROVE  SeenKept(p)
<1>0. TypeOK
  BY Facts
<1>1. ASSUME NEW op, Begun(p, op), pc'[p] # "reading" \/ op # "claimBusy"
      PROVE  SeenKept(p)
  BY <1>1 DEF SeenKept, Begun
<1>2. CASE BeginCreate(p) \/ BeginReset(p)
  BY <1>0, <1>1, <1>2, DoesBeginList
<1>3. ASSUME NEW i \in Ids, BeginDelete(p, i)
      PROVE  SeenKept(p)
  BY <1>0, <1>1, <1>3, DoesBeginDelete
<1>4. ASSUME NEW i \in Ids, NEW op \in {"claim", "claimBusy"}, BeginClaim(p, i, op)
      PROVE  SeenKept(p)
  BY <1>0, <1>1, <1>4, DoesBeginClaim
<1>5. ASSUME NEW i \in Ids, NEW op \in {"start", "finish", "edit", "release"}, BeginUpdate(p, i, op)
      PROVE  SeenKept(p)
  <2>1. Begun(p, op)
    BY <1>0, <1>5, DoesBeginUpdate
  <2>2. QED
    BY <1>1, <2>1
<1>6. ASSUME NEW i \in Ids, NEW j \in Ids, BeginBlock(p, i, j)
      PROVE  SeenKept(p)
  BY <1>0, <1>1, <1>6, DoesBeginBlock
<1>7. ASSUME NEW q \in Actors, BeginUnassign(p, q)
      PROVE  SeenKept(p)
  BY <1>0, <1>1, <1>7, DoesBeginUnassign
<1>8. ASSUME NEW i \in Ids, NEW op \in {"assign", "setOpen"}, NEW owner \in Actors \cup {None, Keep},
             NEW status \in Status \cup {Keep}, BeginToolUpdate(p, i, op, owner, status)
      PROVE  SeenKept(p)
  <2>1. Begun(p, op)
    BY <1>0, <1>8, DoesBeginToolUpdate
  <2>2. QED
    BY <1>1, <1>8, <2>1
<1>9. QED
  BY <1>2, <1>3, <1>4, <1>5, <1>6, <1>7, <1>8 DEF Request

\* Steps that end an operation, or go on with another update, keep no sight.
LEMMA SeenAfterCall ==
  ASSUME Base, NEW p \in Actors, SeenFor(p), loc'[p].op = "claimBusy", pc[p] # "reading",
         AfterCall(p) \/ Throw(p) \/ Return(p)
  PROVE  SeenKept(p)
<1>0. TypeOK /\ CallsFor(p) /\ Shape(can[p], p, pc[p], loc[p]) /\ loc[p] \in Locals
  BY Facts
<1>1. CASE \E label : Move(p, label, NoLocals)
  BY <1>0, <1>1, DoesEnd DEF Cleared
<1>2. ASSUME NEW c \in loc[p].todo,
             Move(p, "check", [loc[p] EXCEPT !.call = c, !.todo = @ \ {c}, !.val = Absent])
      PROVE  SeenKept(p)
  <2>1. GoesOn(p, c, loc[p].todo \ {c})
    BY <1>0, <1>2 DEF Locals, GoesOn
  <2>2. KeepsWho(p) /\ KeepsRead(p) /\ pc'[p] = "check"
    BY <1>0, <2>1, DoesCall
  <2>3. QED
    BY <2>2, SeenMoves DEF KeepsRead
<1>3. CASE Move(p, "unlockList", [loc[p] EXCEPT !.call = None, !.val = Absent])
  BY <1>0, <1>3, DoesEndCalls, SeenMoves DEF KeepsRead
<1>4. CASE Move(p, "unlockList", [loc[p] EXCEPT !.ok = FALSE, !.call = None, !.val = Absent])
  BY <1>0, <1>4, DoesThrowLocked, SeenMoves DEF KeepsRead
<1>5. QED
  BY <1>1, <1>2, <1>3, <1>4 DEF AfterCall, Throw, Return

\* Scanning, unlinking and writing the mark belong to no claim.
LEMMA ScansKeepOp ==
  ASSUME Base, NEW p \in Actors,
         \/ ScanFiles(p) \/ ScanMark(p) \/ Allocate(p) \/ OpenMark(p) \/ SkipMark(p) \/ WriteMark(p)
         \/ ReadDir(p) \/ UnlinkOne(p) \/ UnlinkedAll(p)
  PROVE  loc'[p].op \in {"create", "reset", "delete"}
<1>0. TypeOK /\ Shape(can[p], p, pc[p], loc[p])
  BY Facts
<1>1. loc[p].op \in {"create", "reset", "delete"}
  BY <1>0 DEF ScanFiles, ScanMark, Allocate, OpenMark, SkipMark, WriteMark, ReadDir, UnlinkOne,
     UnlinkedAll, At, Shape
<1>2. CASE ScanFiles(p)
  <2>1. PICK n \in 0..MaxId : Scans(p, n)
    BY <1>2 DEF ScanFiles, Scans
  <2>2. n \in Nat
    BY <2>1
  <2>3. QED
    BY <1>0, <1>1, <2>1, <2>2, DoesScanFiles DEF KeepsWho
<1>3. CASE ScanMark(p) \/ ReadDir(p)
  BY <1>0, <1>1, <1>3, DoesScanMark, DoesReadDir DEF KeepsWho
<1>4. CASE Allocate(p) /\ HighestId(p) + 1 \in Ids
  BY <1>0, <1>1, <1>4, DoesAllocate
<1>5. CASE \E label : Goto(p, label)
  BY <1>0, <1>1, <1>5, DoesGoto DEF KeepsWho
<1>6. CASE UnlinkOne(p)
  BY <1>0, <1>1, <1>6, DoesUnlinkOne DEF UnlinkOne, KeepsWho
<1>7. OpenMark(p) \/ SkipMark(p) \/ WriteMark(p) \/ UnlinkedAll(p) => \E label : Goto(p, label)
  BY DEF OpenMark, SkipMark, WriteMark, UnlinkedAll, AfterMark
<1>8. Allocate(p) /\ ~(HighestId(p) + 1 \in Ids) => \E label : Goto(p, label)
  BY DEF Allocate
<1>9. QED
  BY <1>2, <1>3, <1>4, <1>5, <1>6, <1>7, <1>8

\* Every step of a claim under the list's lock keeps what it has seen, adds
\* to it or forgets it.
LEMMA SeenSteps ==
  ASSUME Base, NEW p \in Actors, SeenFor(p), Request(p) \/ Step(p) \/ Crash(p), loc'[p].op = "claimBusy"
  PROVE  SeenKept(p)
<1>0. TypeOK /\ LockedFor(p) /\ CallsFor(p) /\ Shape(can[p], p, pc[p], loc[p]) /\ loc[p] \in Locals
  BY Facts
<1>1. CASE \/ LockListFails(p) \/ LockTaskFails(p) \/ UnlockTask(p) \/ UnlockList(p)
           \/ (Check(p) /\ AfterCall(p))
  BY <1>1, SeenAfterCall DEF LockListFails, LockTaskFails, UnlockTask, UnlockList, Check, At
<1>2. CASE LockList(p)
  <2>1. pc[p] = "lockList" /\ pc'[p] \in {"scan", "list"} /\ KeepsWho(p) /\ KeepsRead(p)
    BY <1>0, <1>2, DoesLockList
  <2>2. QED
    BY <2>1, SeenMoves DEF KeepsRead
<1>3. CASE LockTask(p) \/ (Check(p) /\ ~AfterCall(p))
  <2>1. PICK label \in {"reread", "read", "lockList", "lockTask"} : Goto(p, label)
    BY <1>3 DEF LockTask, Check
  <2>2. pc[p] \in {"lockTask", "check"} /\ pc'[p] = label /\ KeepsWho(p) /\ KeepsRead(p)
    BY <1>0, <1>3, <2>1, DoesGoto DEF LockTask, Check, At
  <2>3. QED
    BY <2>2, SeenMoves DEF KeepsRead
<1>4. CASE List(p)
  <2>1. /\ pc[p] = "list" /\ pc'[p] = "reading" /\ KeepsWho(p) /\ loc'[p].seen = loc[p].seen
        /\ loc'[p].unread = {i \in Ids : file[i] # Absent} /\ file' = file /\ won' = won
    BY <1>0, <1>4, DoesList DEF List, At, disk, told
  <2>2. QED
    BY <2>1 DEF SeenKept, KeepsWho
<1>5. ASSUME NEW i \in Ids, ReadOne(p, i)
      PROVE  SeenKept(p)
  <2>1. KeepsWho(p) /\ file' = file /\ won' = won
    BY <1>0, <1>5, DoesReadOne DEF ReadOne, disk, told
  <2>2. QED
    BY <1>5, <2>1 DEF SeenKept, KeepsWho
<1>6. CASE BusyClaimDecided(p)
  BY <1>0, <1>6, DoesBusyClaimDecided DEF SeenKept
<1>7. CASE ReadForUpdate(p) \/ Open(p) \/ Write(p)
  <2>1. pc[p] \in {"read", "open", "write"} /\ pc'[p] # "reading" /\ KeepsWho(p) /\ KeepsRead(p)
    BY <1>0, <1>7, DoesReadForUpdate, DoesOpen, DoesWrite DEF Open, Write, At
  <2>2. QED
    BY <2>1, SeenMoves DEF KeepsRead
<1>8. CASE Reread(p) \/ ClaimDecided(p)
  <2>1. loc[p].op = "claim" /\ loc'[p].op = loc[p].op
    BY <1>0, <1>8, DoesReread, DoesClaimDecided DEF Shape, KeepsWho
  <2>2. QED
    BY <2>1
<1>9. CASE Crash(p)
  BY <1>0, <1>9, DoesEnd DEF Crash, Cleared
<1>10. CASE \/ ScanFiles(p) \/ ScanMark(p) \/ Allocate(p) \/ OpenMark(p) \/ SkipMark(p) \/ WriteMark(p)
            \/ ReadDir(p) \/ UnlinkOne(p) \/ UnlinkedAll(p)
  BY <1>10, ScansKeepOp
<1>11. CASE DeleteFile(p)
  <2>1. CASE Return(p)
    BY <1>11, <2>1, SeenAfterCall DEF DeleteFile, At
  <2>2. CASE Unlink(p, loc[p].tgt, "list", loc[p])
    <3>1. loc'[p] = loc[p] /\ loc[p].op = "delete"
      BY <1>0, <1>11, <2>2 DEF Unlink, DeleteFile, At, Shape
    <3>2. QED
      BY <3>1
  <2>3. QED
    BY <1>11, <2>1, <2>2 DEF DeleteFile
<1>12. CASE SnapshotUsed(p)
  <2>1. PICK calls : Calls(p, calls) /\ loc[p].op \in {"delete", "block", "unassign"}
    BY <1>12 DEF SnapshotUsed
  <2>2. CASE Return(p)
    BY <1>0, <2>2, DoesReturn DEF Cleared
  <2>3. ASSUME NEW c \in calls, Begins(p, c, calls \ {c})
        PROVE  FALSE
    <3>1. KeepsWho(p)
      BY <1>0, <2>3, DoesFirstCall
    <3>2. QED
      BY <2>1, <3>1 DEF KeepsWho
  <2>4. QED
    BY <2>1, <2>2, <2>3 DEF Calls, Begins
<1>13. QED
  BY <1>1, <1>2, <1>3, <1>4, <1>5, <1>6, <1>7, <1>8, <1>9, <1>10, <1>11, <1>12, SeenRequests DEF Step

\* What p sees of a task that names nobody else is nobody else's.
LEMMA OfferedIsClear ==
  ASSUME Claims, NEW p \in Actors, NEW i \in Ids, Offered(p, GetTask(i))
  PROVE  Clear(p, i)
<1>0. file \in [Ids -> Task \cup {Absent, Torn}]
  BY ClaimFacts
<1>1. file[i] \in Task /\ file[i].owner \in {None, p}
  BY <1>0 DEF Offered, GetTask
<1>2. ASSUME NEW q \in Actors \ {p}, i \in Mine(q)
      PROVE  FALSE
  <2>1. file[i].owner = q
    BY <1>1, <1>2, ClaimFacts DEF OwnFor, Named
  <2>2. QED
    BY <1>1, <1>2, <2>1, SentinelsAssumption
<1>3. QED
  BY <1>2 DEF Clear

\* A claim under the list's lock sees what is nobody else's.
LEMMA SeenBy ==
  ASSUME Claims, NEW p \in Actors, Request(p) \/ Step(p) \/ Crash(p)
  PROVE  SeenFor(p)'
<1>0. Base /\ SeenFor(p) /\ TypeOK
  BY ClaimFacts
<1> SUFFICES ASSUME loc'[p].op = "claimBusy"
             PROVE  /\ pc'[p] # "reading" => \A i \in Ids : loc'[p].seen[i] = Absent
                    /\ \A i \in Ids : Offered(p, loc'[p].seen[i]) => Clear(p, i)'
  BY DEF SeenFor, Offered
<1>1. SeenKept(p)
  BY <1>0, SeenSteps
<1>2. ASSUME NEW i \in Ids, Offered(p, loc'[p].seen[i])
      PROVE  Clear(p, i)
  <2>1. CASE pc'[p] # "reading" /\ \A j \in Ids : loc'[p].seen[j] = Absent
    BY <1>2, <2>1 DEF Offered
  <2>2. CASE pc[p] = "list" /\ loc[p].op = "claimBusy" /\ loc'[p].seen = loc[p].seen
    BY <1>0, <1>2, <2>2 DEF SeenFor
  <2>3. ASSUME loc[p].op = "claimBusy", NEW j \in Ids, ReadOne(p, j)
        PROVE  Clear(p, i)
    <3>1. loc'[p].seen = [loc[p].seen EXCEPT ![j] = GetTask(j)] /\ loc[p].seen \in [Ids -> Task \cup {Absent}]
      BY <1>0, <2>3, DoesReadOne, ClaimFacts DEF Locals
    <3>2. CASE i = j
      BY <1>2, <3>1, <3>2, OfferedIsClear
    <3>3. CASE i # j
      BY <1>0, <1>2, <2>3, <3>1, <3>3 DEF SeenFor
    <3>4. QED
      BY <3>2, <3>3
  <2>4. QED
    BY <1>1, <2>1, <2>2, <2>3 DEF SeenKept
<1>3. ASSUME NEW i \in Ids, Offered(p, loc'[p].seen[i])
      PROVE  Clear(p, i)'
  BY <1>2, <1>3, ClearStays
<1>4. pc'[p] # "reading" => \A i \in Ids : loc'[p].seen[i] = Absent
  <2>1. ASSUME NEW j \in Ids, ReadOne(p, j)
        PROVE  pc'[p] = "reading"
    BY <1>0, <2>1 DEF ReadOne, Move, TypeOK
  <2>2. QED
    BY <1>1, <2>1 DEF SeenKept
<1>5. QED
  BY <1>3, <1>4

\* What the others see stays nobody else's.
LEMMA SeenOthers ==
  ASSUME Claims, NEW p \in Actors, Request(p) \/ Step(p) \/ Crash(p), NEW q \in Actors, q # p
  PROVE  SeenFor(q)'
<1>0. /\ Base /\ Whole /\ Guarded /\ SeenFor(q) /\ LockedFor(p) /\ LockedFor(q)
  BY ClaimFacts
<1>1. loc'[q].op = loc[q].op /\ loc'[q].seen = loc[q].seen /\ pc'[q] = pc[q]
  BY <1>0, OthersKeep
<1>2. ASSUME loc[q].op = "claimBusy", NEW i \in Ids, Offered(q, loc[q].seen[i])
      PROVE  Clear(q, i)'
  <2>1. Clear(q, i) /\ pc[q] = "reading"
    BY <1>0, <1>2 DEF SeenFor, Offered
  <2>2. listLock = q /\ ListLocked
    BY <1>0, <1>2, <2>1, GuardedOps DEF LockedFor, InList
  <2>3. ~(Told(p) /\ loc[p].op \in {"claim", "claimBusy"})
    <3>1. SUFFICES ASSUME Told(p), loc[p].op \in {"claim", "claimBusy"} PROVE FALSE
      OBVIOUS
    <3>2. Claiming(p) /\ loc[p].op = "claimBusy"
      BY <1>0, <2>2, <3>1, ToldClaimed, GuardedOps
    <3>3. pc[p] = "unlockList"
      BY <3>1, <3>2 DEF Told
    <3>4. QED
      BY <1>0, <2>2, <3>2, <3>3 DEF LockedFor, InList
  <2>4. QED
    BY <2>1, <2>3, ClearStays
<1>3. QED
  BY <1>0, <1>1, <1>2 DEF SeenFor

\* Claims is inductive.
LEMMA ClaimsNext == Claims /\ [Next]_vars => Claims'
<1> SUFFICES ASSUME Claims, [Next]_vars PROVE Claims'
  OBVIOUS
<1>1. Whole'
  BY WholeNext DEF Claims
<1>2. CASE StaleLock \/ UNCHANGED vars
  <2>1. UNCHANGED <<file, pc, loc, won, can>>
    BY <1>2 DEF StaleLock, StaleListLock, StaleTaskLock, vars, disk, told, context
  <2>2. QED
    BY <1>1, <2>1 DEF Claims, Guarded, ListLocked, TaskLocked, OwnFor, ClaimFor, SeenFor, Named, Clear,
       Mine, Writing, Claiming
<1>3. ASSUME NEW p \in Actors, Request(p) \/ Step(p) \/ Crash(p)
      PROVE  Claims'
  <2>1. can' = can
    BY <1>3, BaseSteps DEF Claims, Whole, Fresh, Sound, OnlyBy
  <2>2. Guarded'
    BY <2>1 DEF Claims, Guarded, ListLocked, TaskLocked
  <2>3. ASSUME NEW q \in Actors
        PROVE  OwnFor(q)' /\ ClaimFor(q)' /\ SeenFor(q)'
    BY <1>3, OwnNext, ClaimBy, ClaimOthers, SeenBy, SeenOthers
  <2>4. QED
    BY <1>1, <2>2, <2>3 DEF Claims
<1>4. QED
  BY <1>2, <1>3 DEF Next

\* Nothing is claimed at first.
LEMMA ClaimsInit == Init /\ CreatedAlone /\ Guarded => Claims
<1> SUFFICES ASSUME Init, CreatedAlone, Guarded PROVE Claims
  OBVIOUS
<1>1. ASSUME NEW p \in Actors
      PROVE  /\ pc[p] = "idle" /\ loc[p].op = "none" /\ won[p] = {} /\ \A i \in Ids : loc[p].seen[i] = Absent
  BY <1>1 DEF Init, NoLocals
<1>2. ASSUME NEW p \in Actors
      PROVE  OwnFor(p) /\ ClaimFor(p) /\ SeenFor(p)
  BY <1>1 DEF OwnFor, ClaimFor, SeenFor, Mine, Claiming
<1>3. QED
  BY <1>2, WholeInit DEF Claims

\* What the claims come to.
LEMMA ClaimsPromise == Claims => ClaimsAreExclusive /\ ClaimsAreKept
  BY DEF Claims, OwnFor, Mine, Named, Clear, ClaimsAreExclusive, ClaimsAreKept

\* No two agents are told that a task is theirs, and no write loses a claim,
\* where owners are written by claims and releases only (Guarded).
THEOREM ClaimsStand == Spec /\ CreatedAlone /\ Guarded => [](ClaimsAreExclusive /\ ClaimsAreKept)
<1>1. Spec /\ CreatedAlone /\ Guarded => []Claims
  BY ClaimsInit, ClaimsNext, PTL DEF Spec
<1>2. QED
  BY <1>1, ClaimsPromise, PTL

-----------------------------------------------------------------------------
(* Completions stand.                                                      *)

Kept(i) == file[i] \in Task => file[i].status = "completed"

\* Where tasks are finished, nobody sets one back.
FinishedAlone ==
  Somebody("finish") => ~Somebody("start") /\ ~Somebody("unassign") /\ ~Somebody("setOpen")

\* Nobody is writing task i back to open.
WrittenKept(i) == \A q \in Actors : Writing(q, i) => loc[q].val.status = "completed"

\* A finished update has written what it will be told of.
FinishFor(p) ==
  loc[p].op = "finish" => /\ loc[p].ok => Kept(loc[p].tgt)
                          /\ pc[p] \in {"open", "write"} => loc[p].val.status = "completed"

Completions ==
  /\ Whole /\ FinishedAlone
  /\ done # {} => Somebody("finish")
  /\ \A i \in done : Kept(i) /\ WrittenKept(i)
  /\ \A p \in Actors : FinishFor(p)

\* The facts about p that Completions gives.
LEMMA CompletionFacts ==
  ASSUME Completions, NEW p \in Actors
  PROVE  /\ Base /\ Whole /\ FinishFor(p) /\ TornFor(p) /\ NewFor(p)
         /\ TypeOK /\ LockedFor(p) /\ KnownFor(p) /\ CallsFor(p) /\ OpFor(p)
         /\ Shape(can[p], p, pc[p], loc[p]) /\ loc[p] \in Locals
         /\ file \in [Ids -> Task \cup {Absent, Torn}] /\ done \subseteq Ids
<1>1. Base /\ Whole /\ Fresh /\ FinishFor(p) /\ TornFor(p) /\ NewFor(p) /\ OpFor(p)
  BY FreshCases DEF Completions, Whole, Fresh, Unwritten
<1>2. QED
  BY <1>1, Facts DEF TypeOK

\* Where a task was finished, an update writes a completed task as it is.
LEMMA ReadKeeps ==
  ASSUME Completions, NEW p \in Actors, ReadForUpdate(p), At(p, "open")', loc[p].call.id \in done
  PROVE  loc'[p].val.status = "completed"
<1>0. /\ Base /\ TypeOK /\ CallsFor(p) /\ Shape(can[p], p, pc[p], loc[p])
      /\ file \in [Ids -> Task \cup {Absent, Torn}] /\ done \subseteq Ids
  BY CompletionFacts
<1>1. /\ pc[p] = "read" /\ GetTask(loc[p].call.id) # Absent
      /\ loc'[p].val = Merge(GetTask(loc[p].call.id), loc[p].call)
  BY <1>0, DoesReadForUpdate DEF At
<1>2. file[loc[p].call.id] \in Task /\ GetTask(loc[p].call.id) = file[loc[p].call.id]
  BY <1>0, <1>1 DEF GetTask
<1>3. GetTask(loc[p].call.id).status = "completed"
  BY <1>2 DEF Completions, Kept
<1>4. ~Somebody("start") /\ ~Somebody("unassign") /\ ~Somebody("setOpen")
  BY DEF Completions, FinishedAlone
<1>5. loc[p].op \notin {"start", "unassign", "setOpen"}
  BY <1>0, <1>1, <1>4 DEF Shape, Active, Somebody
<1>6. loc[p].call.status \in {Keep, "completed"}
  BY <1>0, <1>1, <1>5 DEF CallsFor, CallIs, CallLabels
<1>7. QED
  BY <1>1, <1>3, <1>6 DEF Merge, Pick

\* A task that was finished stays completed, and so do the updates of it.
LEMMA DoneKept ==
  ASSUME Completions, NEW p \in Actors, Request(p) \/ Step(p) \/ Crash(p), NEW i \in done
  PROVE  Kept(i)' /\ WrittenKept(i)'
<1>0. /\ Base /\ TypeOK /\ NewFor(p) /\ Shape(can[p], p, pc[p], loc[p]) /\ i \in Ids
      /\ Kept(i) /\ WrittenKept(i)
  BY CompletionFacts DEF Completions
<1>1. Kept(i)'
  <2>1. CASE file'[i] \in {file[i], Absent, Torn}
    BY <1>0, <2>1, SentinelsAssumption DEF Kept
  <2>2. CASE pc[p] = "write" /\ loc[p].call.id = i /\ file'[i] = loc[p].val
    <3>1. CASE loc[p].op = "create"
      BY <1>0, <2>2, <3>1 DEF NewFor, New, Shape, NoChange
    <3>2. CASE loc[p].op # "create"
      BY <1>0, <2>2, <3>2 DEF WrittenKept, Writing, Kept
    <3>3. QED
      BY <3>1, <3>2
  <2>3. QED
    BY <1>0, <2>1, <2>2, FileChanges
<1>2. ASSUME NEW q \in Actors, Writing(q, i)'
      PROVE  loc'[q].val.status = "completed"
  <2>1. CASE q # p
    BY <1>0, <1>2, <2>1, OthersKeep DEF Writing, WrittenKept
  <2>2. CASE q = p /\ ReadForUpdate(p) /\ At(p, "open")'
    <3>1. loc[p].call.id = i
      BY <1>0, <1>2, <2>2, DoesReadForUpdate DEF Writing, KeepsCall
    <3>2. QED
      BY <2>2, <3>1, ReadKeeps
  <2>3. CASE q = p /\ Open(p)
    <3>1. Writing(p, i) /\ loc'[p].val = loc[p].val
      BY <1>0, <1>2, <2>3, DoesOpen DEF Open, At, Writing, KeepsWho, KeepsCall
    <3>2. QED
      BY <1>0, <2>3, <3>1 DEF WrittenKept
  <2>4. CASE q = p /\ Write(p)
    BY <1>0, <1>2, <2>4, DoesWrite DEF Writing
  <2>5. CASE q = p /\ (Quiet(p) \/ Told(p))
    BY <1>2, <2>5 DEF Quiet, Told, Writing
  <2>6. QED
    BY <1>0, <1>2, <2>1, <2>2, <2>3, <2>4, <2>5, KindsOfSteps DEF Kinds, At, Writing
<1>3. QED
  BY <1>1, <1>2 DEF WrittenKept

\* Being told of a completion, p had written it, and nobody writes it again.
LEMMA ToldFinished ==
  ASSUME Completions, NEW p \in Actors, Request(p) \/ Step(p) \/ Crash(p), Told(p), loc[p].op = "finish"
  PROVE  /\ Somebody("finish")
         /\ \A i \in Ids : i = loc[p].tgt => Kept(i)' /\ WrittenKept(i)'
<1>0. /\ Base /\ FinishFor(p) /\ CallsFor(p) /\ Shape(can[p], p, pc[p], loc[p])
  BY CompletionFacts
<1>1. pc[p] = "unlock" /\ loc[p].ok /\ file' = file /\ pc'[p] = "idle"
  BY DEF Told
<1>2. Somebody("finish")
  BY <1>0, <1>1 DEF Shape, Active, Somebody
<1>3. InTask(p) /\ loc[p].call.id = loc[p].tgt
  BY <1>0, <1>1 DEF InTask, CallsFor, CallLabels
<1>4. ASSUME NEW i \in Ids, i = loc[p].tgt
      PROVE  Kept(i)' /\ WrittenKept(i)'
  <2>1. Kept(i)'
    BY <1>0, <1>1, <1>4 DEF FinishFor, Kept
  <2>2. ASSUME NEW q \in Actors, Writing(q, i)'
        PROVE  FALSE
    <3>1. q # p
      BY <1>1, <2>2 DEF Writing
    <3>2. Writing(q, i)
      BY <1>0, <2>2, <3>1, OthersKeep DEF Writing
    <3>3. QED
      BY <1>0, <1>3, <1>4, <3>1, <3>2, OneUpdater DEF Writing, InTask
  <2>3. QED
    BY <2>1, <2>2 DEF WrittenKept
<1>5. QED
  BY <1>2, <1>4

\* What a finishing update has written stays written while it holds the lock.
LEMMA FinishOthers ==
  ASSUME Completions, NEW p \in Actors, Request(p) \/ Step(p) \/ Crash(p), NEW q \in Actors, q # p
  PROVE  FinishFor(q)'
<1>0. Base /\ Whole /\ FinishFor(q) /\ CallsFor(q) /\ Shape(can[q], q, pc[q], loc[q])
  BY CompletionFacts
<1>1. /\ pc'[q] = pc[q] /\ loc'[q].op = loc[q].op /\ loc'[q].tgt = loc[q].tgt
      /\ loc'[q].val = loc[q].val /\ loc'[q].ok = loc[q].ok
  BY <1>0, OthersKeep
<1>2. ASSUME loc[q].op = "finish", loc[q].ok
      PROVE  Kept(loc[q].tgt)'
  <2>1. PICK i \in Ids : i = loc[q].tgt
    BY <1>0, <1>2 DEF Shape
  <2>2. InTask(q) /\ loc[q].call.id = i
    BY <1>0, <1>2, <2>1 DEF CallsFor, CallLabels, At, InTask
  <2>3. Kept(i)'
    <3>1. file'[i] \in {file[i], Absent, Torn}
      BY <1>0, <2>2, FileChanges, WrittenApart
    <3>2. QED
      BY <1>0, <1>2, <2>1, <3>1, SentinelsAssumption DEF FinishFor, Kept
  <2>4. loc'[q].tgt = i
    BY <1>1, <2>1
  <2>5. QED
    BY <2>3, <2>4 DEF Kept
<1>3. QED
  BY <1>0, <1>1, <1>2 DEF FinishFor, Kept

\* A finishing update writes a completed task.
LEMMA FinishBy ==
  ASSUME Completions, NEW p \in Actors, Request(p) \/ Step(p) \/ Crash(p)
  PROVE  FinishFor(p)'
<1>0. /\ Base /\ TypeOK /\ FinishFor(p) /\ CallsFor(p) /\ TornFor(p) /\ Shape(can[p], p, pc[p], loc[p])
      /\ file \in [Ids -> Task \cup {Absent, Torn}]
  BY CompletionFacts
<1>1. CASE Quiet(p) \/ Told(p)
  BY <1>1 DEF Quiet, Told, FinishFor
<1>2. CASE Reread(p) \/ BusyClaimDecided(p)
  <2>1. loc[p].op \in {"claim", "claimBusy"} /\ loc'[p].op = loc[p].op
    BY <1>0, <1>2, DoesReread, DoesBusyClaimDecided DEF KeepsWho, Shape
  <2>2. QED
    BY <2>1 DEF FinishFor
<1>3. CASE ReadForUpdate(p) /\ At(p, "open")'
  <2>1. /\ pc[p] = "read" /\ KeepsWho(p) /\ loc'[p].ok = loc[p].ok
        /\ loc'[p].val = Merge(GetTask(loc[p].call.id), loc[p].call)
    BY <1>0, <1>3, DoesReadForUpdate DEF At
  <2>2. loc[p].op = "finish" => loc[p].call.status = "completed" /\ ~loc[p].ok
    BY <1>0, <2>1 DEF CallsFor, CallIs, CallLabels, At
  <2>3. Keep # "completed"
    BY SentinelsAssumption DEF Status
  <2>4. QED
    BY <2>1, <2>2, <2>3 DEF FinishFor, Merge, Pick, KeepsWho
<1>4. CASE Open(p)
  <2>1. pc[p] = "open" /\ KeepsWho(p) /\ loc'[p].val = loc[p].val /\ loc'[p].ok = loc[p].ok
    BY <1>0, <1>4, DoesOpen DEF Open, At
  <2>2. loc[p].op = "finish" => ~loc[p].ok
    BY <1>0, <2>1 DEF CallsFor, At
  <2>3. QED
    BY <1>0, <2>1, <2>2 DEF FinishFor, KeepsWho
<1>5. CASE Write(p)
  <2>1. /\ pc[p] = "write" /\ pc'[p] \in {"unlock", "unlockList"} /\ KeepsWho(p)
        /\ file' = IF loc[p].fd THEN [file EXCEPT ![loc[p].call.id] = loc[p].val] ELSE file
    BY <1>0, <1>5, DoesWrite DEF Write, At
  <2>2. ASSUME loc[p].op = "finish"
        PROVE  Kept(loc[p].tgt)'
    <3>1. PICK i \in Ids : i = loc[p].tgt /\ loc[p].call.id = i
      BY <1>0, <2>1, <2>2 DEF Shape, CallsFor, CallLabels
    <3>2. loc[p].val.status = "completed" /\ file[i] \in {Absent, Torn}
      BY <1>0, <2>1, <2>2, <3>1 DEF FinishFor, TornFor, At
    <3>3. file'[i] \in Task => file'[i].status = "completed"
      BY <1>0, <2>1, <3>1, <3>2, SentinelsAssumption
    <3>4. loc'[p].tgt = i
      BY <2>1, <3>1 DEF KeepsWho
    <3>5. QED
      BY <3>3, <3>4 DEF Kept
  <2>3. QED
    BY <2>1, <2>2 DEF FinishFor, KeepsWho
<1>6. QED
  BY <1>0, <1>1, <1>2, <1>3, <1>4, <1>5, KindsOfSteps DEF Kinds

\* Completions is inductive.
LEMMA CompletionsNext == Completions /\ [Next]_vars => Completions'
<1> SUFFICES ASSUME Completions, [Next]_vars PROVE Completions'
  OBVIOUS
<1>1. Whole'
  BY WholeNext DEF Completions
<1>2. CASE StaleLock \/ UNCHANGED vars
  <2>1. UNCHANGED <<file, pc, loc, done, can>>
    BY <1>2 DEF StaleLock, StaleListLock, StaleTaskLock, vars, disk, told, context
  <2>2. QED
    BY <1>1, <2>1 DEF Completions, FinishedAlone, Somebody, Kept, WrittenKept, Writing, FinishFor
<1>3. ASSUME NEW p \in Actors, Request(p) \/ Step(p) \/ Crash(p)
      PROVE  Completions'
  <2>0. Base /\ TypeOK /\ Shape(can[p], p, pc[p], loc[p])
    BY <1>3, CompletionFacts
  <2>1. can' = can
    BY <1>3, <2>0, BaseSteps DEF Sound, OnlyBy
  <2>2. FinishedAlone' /\ (Somebody("finish")' <=> Somebody("finish"))
    BY <2>1 DEF Completions, FinishedAlone, Somebody
  <2>3. \/ done' = done
        \/ Told(p) /\ loc[p].op = "finish" /\ done' = done \cup {loc[p].tgt}
    <3>1. Quiet(p) \/ Told(p) => \/ done' = done
                                 \/ Told(p) /\ loc[p].op = "finish" /\ done' = done \cup {loc[p].tgt}
      BY DEF Quiet, Told
    <3>2. CASE Reread(p) \/ BusyClaimDecided(p) \/ ReadForUpdate(p) \/ Open(p) \/ Write(p)
      BY <3>2 DEF Reread, BusyClaimDecided, ReadForUpdate, Open, Write, told
    <3>3. QED
      BY <1>3, <2>0, <3>1, <3>2, KindsOfSteps DEF Kinds
  <2>4. done' # {} => Somebody("finish")'
    BY <1>3, <2>2, <2>3, ToldFinished DEF Completions
  <2>5. ASSUME NEW i \in done'
        PROVE  Kept(i)' /\ WrittenKept(i)'
    <3>1. CASE i \in done
      BY <1>3, <3>1, DoneKept
    <3>2. CASE i \notin done
      <4>1. Told(p) /\ loc[p].op = "finish" /\ i = loc[p].tgt
        BY <2>3, <2>5, <3>2
      <4>2. i \in Ids
        BY <2>0, <4>1 DEF Shape
      <4>3. QED
        BY <1>3, <4>1, <4>2, ToldFinished
    <3>3. QED
      BY <3>1, <3>2
  <2>6. ASSUME NEW q \in Actors
        PROVE  FinishFor(q)'
    BY <1>3, FinishBy, FinishOthers
  <2>7. QED
    BY <1>1, <2>2, <2>4, <2>5, <2>6 DEF Completions
<1>4. QED
  BY <1>2, <1>3 DEF Next

\* Nothing is finished at first.
LEMMA CompletionsInit == Init /\ CreatedAlone /\ FinishedAlone => Completions
<1> SUFFICES ASSUME Init, CreatedAlone, FinishedAlone PROVE Completions
  OBVIOUS
<1>1. \A p \in Actors : loc[p].op = "none"
  BY DEF Init, NoLocals
<1>2. QED
  BY <1>1, WholeInit DEF Init, Completions, FinishFor

\* A completion that was reported stays on disk, where no single task is
\* deleted beside creation and nobody sets finished tasks back.
THEOREM CompletionsStand == Spec /\ CreatedAlone /\ FinishedAlone => []CompletionsAreKept
<1>1. Spec /\ CreatedAlone /\ FinishedAlone => []Completions
  BY CompletionsInit, CompletionsNext, PTL DEF Spec
<1>2. Completions => CompletionsAreKept
  BY DEF Completions, Kept, CompletionsAreKept
<1>3. QED
  BY <1>1, <1>2, PTL

-----------------------------------------------------------------------------
(* An agent that asks for the busy check holds one open task.              *)

\* A claim with the busy check sees what its agent holds, and goes on only
\* when that is completed; an agent holds one open task.
BusyFor(p) ==
  /\ loc[p].op = "claimBusy" /\ At(p, "reading") =>
       \A i \in won[p] \ loc[p].unread : file[i] \in Task => loc[p].seen[i] = file[i]
  /\ loc[p].op = "claimBusy" /\ loc[p].ok => \A i \in won[p] \ {loc[p].tgt} : Kept(i)
  /\ \A i, j \in won[p] : i # j /\ file[i] \in Task /\ file[j] \in Task =>
       "completed" \in {file[i].status, file[j].status}

BusyClaims == Claims /\ (ListLocked => \A p \in Actors : BusyFor(p))

\* Under the list's lock nobody else rewrites what an agent holds.
LEMMA WonFiles ==
  ASSUME Claims, ListLocked, NEW p \in Actors, Request(p) \/ Step(p) \/ Crash(p), NEW q \in Actors, q # p,
         NEW i \in won[q], file'[i] \in Task
  PROVE  file'[i] = file[i]
<1>0. /\ Base /\ Whole /\ Guarded /\ OwnFor(q) /\ ClaimFor(p) /\ NewFor(p) /\ CallsFor(p) /\ TypeOK
      /\ Shape(can[p], p, pc[p], loc[p])
  BY ClaimFacts
<1>1. i \in Ids /\ i \in Mine(q) /\ Clear(q, i)
  BY <1>0 DEF TypeOK, Mine, OwnFor
<1>2. ASSUME pc[p] = "write", loc[p].call.id = i
      PROVE  FALSE
  <2>1. loc[p].op \in {"claimBusy", "release", "create"}
    <3>1. loc[p].op \in {"none", "claimBusy", "release", "create", "reset"}
      BY <1>0, GuardedOps
    <3>2. loc[p].op \in can[p] /\ loc[p].op # "reset"
      BY <1>0, <1>2 DEF Shape, Active
    <3>3. loc[p].op # "none"
      BY <3>2 DEF ListLocked
    <3>4. QED
      BY <3>1, <3>2, <3>3
  <2>2. CASE loc[p].op = "claimBusy"
    <3>1. Claiming(p)
      BY <1>0, <1>2, <2>2 DEF CallsFor, Claiming
    <3>2. loc[p].tgt = i
      BY <1>0, <1>2, <2>2, <3>1, ClaimLabels DEF CallLabels
    <3>3. QED
      BY <1>0, <1>1, <3>1, <3>2 DEF ClaimFor, Clear
  <2>3. CASE loc[p].op = "release"
    <3>1. i \in Mine(p)
      BY <1>0, <1>2, <2>3 DEF CallsFor, CallLabels, Mine
    <3>2. QED
      BY <1>1, <3>1 DEF Clear
  <2>4. CASE loc[p].op = "create"
    <3>1. New(p) /\ loc[p].tgt = i
      BY <1>0, <1>2, <2>4 DEF New, Shape, NoChange
    <3>2. QED
      BY <1>0, <1>1, <3>1 DEF NewFor, Apart
  <2>5. QED
    BY <2>1, <2>2, <2>3, <2>4
<1>3. QED
  BY <1>0, <1>1, <1>2, FileChanges, SentinelsAssumption

\* The others hold one open task each, whoever moves.
LEMMA BusyOthers ==
  ASSUME Claims, ListLocked, NEW p \in Actors, Request(p) \/ Step(p) \/ Crash(p), NEW q \in Actors, q # p,
         BusyFor(q)
  PROVE  BusyFor(q)'
<1>0. Base
  BY ClaimFacts
<1>1. /\ pc'[q] = pc[q] /\ loc'[q].op = loc[q].op /\ loc'[q].tgt = loc[q].tgt /\ won'[q] = won[q]
      /\ loc'[q].ok = loc[q].ok /\ loc'[q].seen = loc[q].seen /\ loc'[q].unread = loc[q].unread
  BY <1>0, OthersKeep
<1>2. \A i \in won[q] : file'[i] \in Task => file'[i] = file[i]
  BY WonFiles
<1>3. loc[q].op = "claimBusy" /\ At(q, "reading") =>
        \A i \in won[q] \ loc[q].unread : file'[i] \in Task => loc[q].seen[i] = file'[i]
  BY <1>2 DEF BusyFor
<1>4. loc[q].op = "claimBusy" /\ loc[q].ok => \A i \in won[q] \ {loc[q].tgt} : Kept(i)'
  BY <1>2 DEF BusyFor, Kept
<1>5. \A i, j \in won[q] : i # j /\ file'[i] \in Task /\ file'[j] \in Task =>
        "completed" \in {file'[i].status, file'[j].status}
  BY <1>2 DEF BusyFor
<1>6. QED
  BY <1>1, <1>3, <1>4, <1>5 DEF BusyFor, At

\* What p has seen of its own tasks is what they are.
LEMMA BusySees ==
  ASSUME Claims, NEW p \in Actors, Request(p) \/ Step(p) \/ Crash(p), BusyFor(p),
         loc'[p].op = "claimBusy", pc'[p] = "reading", NEW i \in won'[p] \ loc'[p].unread, file'[i] \in Task
  PROVE  loc'[p].seen[i] = file'[i]
<1>0. /\ Base /\ TypeOK /\ SeenFor(p) /\ loc[p] \in Locals
      /\ file \in [Ids -> Task \cup {Absent, Torn}]
  BY ClaimFacts
<1>1. SeenKept(p)
  BY <1>0, SeenSteps
<1>2. CASE /\ loc'[p].unread = {j \in Ids : file[j] # Absent} /\ file' = file /\ won' = won
  BY <1>0, <1>2, SentinelsAssumption DEF TypeOK
<1>3. ASSUME loc[p].op = "claimBusy", file' = file, won' = won, NEW j \in Ids, ReadOne(p, j)
      PROVE  loc'[p].seen[i] = file'[i]
  <2>1. /\ loc'[p].seen = [loc[p].seen EXCEPT ![j] = GetTask(j)] /\ loc'[p].unread = loc[p].unread \ {j}
        /\ At(p, "reading") /\ loc[p].seen \in [Ids -> Task \cup {Absent}] /\ i \in won[p] /\ i \in Ids
    <3>1. /\ loc'[p].seen = [loc[p].seen EXCEPT ![j] = GetTask(j)]
          /\ loc'[p].unread = loc[p].unread \ {j} /\ At(p, "reading")
      BY <1>0, <1>3, DoesReadOne DEF ReadOne
    <3>2. loc[p].seen \in [Ids -> Task \cup {Absent}]
      BY <1>0 DEF Locals
    <3>3. i \in won[p] /\ i \in Ids
      BY <1>0, <1>3 DEF TypeOK
    <3>4. QED
      BY <3>1, <3>2, <3>3
  <2>2. CASE i = j
    BY <1>0, <1>3, <2>1, <2>2, SentinelsAssumption DEF GetTask
  <2>3. CASE i # j
    <3>1. i \notin loc[p].unread /\ loc'[p].seen[i] = loc[p].seen[i]
      BY <2>1, <2>3
    <3>2. QED
      BY <1>3, <2>1, <3>1 DEF BusyFor
  <2>4. QED
    BY <2>2, <2>3
<1>4. QED
  BY <1>1, <1>2, <1>3 DEF SeenKept

\* A claim with the busy check goes on only when all that p holds is completed.
LEMMA BusyKept ==
  ASSUME Claims, NEW p \in Actors, Request(p) \/ Step(p) \/ Crash(p), BusyFor(p),
         loc'[p].op = "claimBusy", loc'[p].ok, NEW i \in won'[p], i # loc'[p].tgt
  PROVE  Kept(i)'
<1>0. /\ Base /\ TypeOK /\ OwnFor(p) /\ CallsFor(p) /\ Shape(can[p], p, pc[p], loc[p])
      /\ file \in [Ids -> Task \cup {Absent, Torn}]
  BY ClaimFacts
<1>1. CASE Quiet(p) \/ Told(p)
  <2>1. loc[p].op = "claimBusy" /\ loc[p].ok /\ i \in won[p] \ {loc[p].tgt} /\ i \in Ids
    BY <1>0, <1>1 DEF Quiet, Told, Claiming, TypeOK
  <2>2. Kept(i) /\ (file'[i] = file[i] \/ file'[i] = Absent)
    BY <1>1, <2>1 DEF Quiet, OnlyUnlinked, BusyFor, Told
  <2>3. QED
    BY <2>2, SentinelsAssumption DEF Kept
<1>2. CASE Reread(p)
  BY <1>0, <1>2, DoesReread DEF Shape, KeepsWho
<1>3. CASE BusyClaimDecided(p)
  <2>1. /\ pc[p] = "reading" /\ loc[p].op = "claimBusy" /\ loc[p].unread = {} /\ KeepsWho(p)
        /\ file' = file /\ won' = won /\ Free(p)
    BY <1>0, <1>3, DoesBusyClaimDecided DEF disk, told
  <2>2. i \in won[p] /\ i \in Ids /\ i # loc[p].tgt /\ i \in Mine(p)
    BY <1>0, <2>1 DEF TypeOK, KeepsWho, Mine
  <2>3. ASSUME file[i] \in Task
        PROVE  file[i].status = "completed"
    <3>1. loc[p].seen[i] = file[i] /\ file[i].owner = p
      BY <1>0, <2>1, <2>2, <2>3 DEF BusyFor, At, OwnFor, Named
    <3>2. i \notin BusyWith(p, loc[p].seen)
      BY <2>1 DEF Free
    <3>3. QED
      BY <2>2, <2>3, <3>1, <3>2, SentinelsAssumption DEF BusyWith, Unresolved
  <2>4. QED
    BY <2>1, <2>3 DEF Kept
<1>4. CASE ReadForUpdate(p) \/ Open(p) \/ Write(p)
  <2>1. /\ pc[p] \in {"read", "open", "write"} /\ KeepsWho(p) /\ won' = won
        /\ loc'[p].ok = (loc[p].ok \/ (Write(p) /\ loc[p].op = "finish"))
    BY <1>0, <1>4, DoesReadForUpdate, DoesOpen, DoesWrite DEF Open, Write, At, told, TypeOK, Locals
  <2>2. loc[p].op = "claimBusy" /\ loc[p].ok /\ i \in won[p] \ {loc[p].tgt} /\ i \in Ids
    BY <1>0, <2>1 DEF KeepsWho, TypeOK
  <2>3. loc[p].call.id = loc[p].tgt
    BY <1>0, <2>1, <2>2, ClaimLabels DEF Claiming, CallLabels
  <2>4. file'[i] = file[i]
    BY <1>0, <1>4, <2>2, <2>3 DEF ReadForUpdate, Open, Write, disk
  <2>5. QED
    BY <2>2, <2>4 DEF BusyFor, Kept
<1>5. QED
  BY <1>0, <1>1, <1>2, <1>3, <1>4, KindsOfSteps DEF Kinds

\* The agent that moves holds one open task.
LEMMA BusyPairs ==
  ASSUME Claims, ListLocked, NEW p \in Actors, Request(p) \/ Step(p) \/ Crash(p), BusyFor(p),
         NEW i \in won'[p], NEW j \in won'[p], i # j, file'[i] \in Task, file'[j] \in Task
  PROVE  "completed" \in {file'[i].status, file'[j].status}
<1>0. /\ Base /\ TypeOK /\ Whole /\ Guarded /\ OwnFor(p) /\ CallsFor(p) /\ NewFor(p) /\ TypeOK'
      /\ Shape(can[p], p, pc[p], loc[p]) /\ file \in [Ids -> Task \cup {Absent, Torn}]
  <2>1. Base /\ Base'
    BY ClaimFacts, BaseNext DEF Next
  <2>2. TypeOK'
    BY <2>1 DEF Base, TypeInv
  <2>3. QED
    BY <2>2, ClaimFacts
<1>1. i \in Ids /\ j \in Ids
  BY <1>0 DEF TypeOK
<1>2. loc[p].op \in {"none", "claimBusy", "release", "create", "reset"}
  BY <1>0, GuardedOps
<1>3. CASE Told(p)
  <2>1. file' = file /\ loc[p].op = "claimBusy" /\ loc[p].ok /\ won'[p] = won[p] \cup {loc[p].tgt}
    BY <1>2, <1>3 DEF Told
  <2>2. \A k \in won[p] \ {loc[p].tgt} : Kept(k)
    BY <2>1 DEF BusyFor
  <2>3. CASE i \in won[p] /\ j \in won[p]
    BY <2>1, <2>3 DEF BusyFor
  <2>4. CASE i \notin won[p] \/ j \notin won[p]
    BY <2>1, <2>2, <2>4 DEF Kept
  <2>5. QED
    BY <2>3, <2>4
<1>4. CASE /\ i \in won[p] /\ j \in won[p]
           /\ file'[i] = file[i] \/ file'[i] \notin Task
           /\ file'[j] = file[j] \/ file'[j] \notin Task
  BY <1>4 DEF BusyFor
<1>5. CASE Quiet(p)
  BY <1>1, <1>4, <1>5, SentinelsAssumption DEF Quiet, OnlyUnlinked
<1>6. CASE Reread(p) \/ BusyClaimDecided(p) \/ ReadForUpdate(p)
  BY <1>4, <1>6 DEF Reread, BusyClaimDecided, ReadForUpdate, disk, told
<1>7. CASE Open(p)
  <2>1. won' = won /\ file' = [file EXCEPT ![loc[p].call.id] = Torn]
    BY <1>7 DEF Open, told
  <2>2. QED
    BY <1>0, <1>1, <1>4, <2>1, SentinelsAssumption
<1>8. CASE Write(p)
  <2>1. /\ pc[p] = "write" /\ won' = won
        /\ \A k \in Ids : k # loc[p].call.id => file'[k] = file[k]
    BY <1>0, <1>8 DEF Write, At, told
  <2>2. CASE i # loc[p].call.id /\ j # loc[p].call.id
    BY <1>1, <1>4, <2>1, <2>2
  <2>3. CASE loc[p].call.id \in won[p]
    <3>1. loc[p].op # "release"
      BY <1>0, <2>1, <2>3 DEF CallsFor, CallLabels
    <3>2. loc[p].op # "create"
      BY <1>0, <2>1, <2>3 DEF NewFor, New, Shape, NoChange
    <3>3. loc[p].op = "claimBusy"
      <4>1. loc[p].op \in can[p] /\ loc[p].op # "reset"
        BY <1>0, <2>1 DEF Shape, Active
      <4>2. loc[p].op # "none"
        BY <4>1 DEF ListLocked
      <4>3. QED
        BY <1>2, <3>1, <3>2, <4>1, <4>2
    <3>4. loc[p].ok /\ loc[p].call.id = loc[p].tgt
      <4>1. loc[p].ok
        BY <1>0, <2>1, <3>3 DEF CallsFor
      <4>2. QED
        BY <1>0, <2>1, <3>3, <4>1, ClaimLabels DEF Claiming, CallLabels
    <3>5. \A k \in won[p] \ {loc[p].tgt} : Kept(k)
      BY <3>3, <3>4 DEF BusyFor
    <3>6. QED
      BY <1>1, <2>1, <3>4, <3>5 DEF Kept
  <2>4. QED
    BY <2>1, <2>2, <2>3
<1>9. QED
  BY <1>0, <1>3, <1>5, <1>6, <1>7, <1>8, KindsOfSteps DEF Kinds

\* BusyClaims is inductive.
LEMMA BusyNext == BusyClaims /\ [Next]_vars => BusyClaims'
<1> SUFFICES ASSUME BusyClaims, [Next]_vars PROVE BusyClaims'
  OBVIOUS
<1>1. Claims'
  BY ClaimsNext DEF BusyClaims
<1>2. CASE StaleLock \/ UNCHANGED vars
  <2>1. UNCHANGED <<file, pc, loc, won, can>>
    BY <1>2 DEF StaleLock, StaleListLock, StaleTaskLock, vars, disk, told, context
  <2>2. QED
    BY <1>1, <2>1 DEF BusyClaims, ListLocked, BusyFor, Kept, At
<1>3. ASSUME NEW p \in Actors, Request(p) \/ Step(p) \/ Crash(p), ListLocked'
      PROVE  \A q \in Actors : BusyFor(q)'
  <2>1. Base
    BY <1>3, ClaimFacts DEF BusyClaims
  <2>2. ListLocked /\ \A q \in Actors : BusyFor(q)
    BY <1>3, <2>1, BaseSteps DEF Sound, OnlyBy, ListLocked, BusyClaims
  <2>3. BusyFor(p)'
    BY <1>3, <2>2, BusySees, BusyKept, BusyPairs DEF BusyClaims, BusyFor, At
  <2>4. ASSUME NEW q \in Actors, q # p
        PROVE  BusyFor(q)'
    BY <1>3, <2>2, <2>4, BusyOthers DEF BusyClaims
  <2>5. QED
    BY <2>3, <2>4
<1>4. QED
  BY <1>1, <1>2, <1>3 DEF Next, BusyClaims

\* Nobody holds a task at first.
LEMMA BusyInit == Init /\ CreatedAlone /\ Guarded => BusyClaims
<1> SUFFICES ASSUME Init, CreatedAlone, Guarded PROVE BusyClaims
  OBVIOUS
<1>1. \A p \in Actors : loc[p].op = "none" /\ won[p] = {}
  BY DEF Init, NoLocals
<1>2. QED
  BY <1>1, ClaimsInit DEF BusyClaims, BusyFor

\* An agent whose claims ask for the busy check holds one open task.
LEMMA BusyPromise == BusyClaims => OneOpenTaskPerAgent
<1> SUFFICES ASSUME BusyClaims, NEW p \in Actors, NEW i \in won[p], NEW j \in won[p], "claim" \notin can[p],
                    i # j, file[i] \in Task, file[j] \in Task
             PROVE  "completed" \in {file[i].status, file[j].status}
  BY DEF OneOpenTaskPerAgent
<1>1. CASE ListLocked
  BY <1>1 DEF BusyClaims, BusyFor
<1>2. CASE TaskLocked
  <2>1. CallsFor(p)
    BY ClaimFacts DEF BusyClaims
  <2>2. "claimBusy" \notin can[p]
    BY <1>2 DEF TaskLocked
  <2>3. QED
    BY <2>1, <2>2 DEF CallsFor
<1>3. QED
  BY <1>1, <1>2 DEF BusyClaims, Claims, Guarded

\* What claimTask and updateTask report stays true, for any number of agents
\* and tasks, where nobody else writes owners or sets finished tasks back.
THEOREM ClaimsSound == Spec /\ CreatedAlone /\ Guarded /\ FinishedAlone => []ClaimsAreSound
<1>1. Spec /\ CreatedAlone /\ Guarded => []BusyClaims
  BY BusyInit, BusyNext, PTL DEF Spec
<1>2. BusyClaims => OneOpenTaskPerAgent
  BY BusyPromise
<1>3. ClaimsAreExclusive /\ ClaimsAreKept /\ CompletionsAreKept /\ OneOpenTaskPerAgent => ClaimsAreSound
  BY DEF ClaimsAreSound
<1>4. QED
  BY <1>1, <1>2, <1>3, ClaimsStand, CompletionsStand, PTL

-----------------------------------------------------------------------------
(* The task list implements the registry.                                  *)

\* Ids are given out where createTask opens a file, and nowhere else.
LEMMA IssuedKept ==
  ASSUME NEW p \in Actors, Request(p) \/ Step(p) \/ Crash(p), ~Open(p)
  PROVE  issued' = issued
<1>1. CASE Request(p)
  BY <1>1 DEF Request, BeginCreate, BeginReset, BeginDelete, BeginClaim, BeginUpdate,
     BeginToolUpdate, BeginBlock, BeginUnassign, Begin, context
<1>2. CASE \/ LockList(p) \/ LockListFails(p) \/ LockTask(p) \/ LockTaskFails(p)
           \/ UnlockTask(p) \/ UnlockList(p)
  BY <1>2 DEF LockList, LockListFails, LockTask, LockTaskFails, UnlockTask, UnlockList, context
<1>3. CASE \/ ScanFiles(p) \/ ScanMark(p) \/ Allocate(p) \/ OpenMark(p) \/ SkipMark(p) \/ WriteMark(p)
           \/ ReadDir(p) \/ UnlinkOne(p) \/ UnlinkedAll(p) \/ DeleteFile(p)
  BY <1>3 DEF ScanFiles, ScanMark, Allocate, OpenMark, SkipMark, WriteMark, ReadDir, UnlinkOne,
     UnlinkedAll, DeleteFile, context
<1>4. CASE \/ List(p) \/ (\E i \in Ids : ReadOne(p, i)) \/ SnapshotUsed(p) \/ Reread(p)
           \/ ClaimDecided(p) \/ BusyClaimDecided(p) \/ Check(p) \/ ReadForUpdate(p) \/ Write(p)
  BY <1>4 DEF List, ReadOne, SnapshotUsed, Reread, ClaimDecided, BusyClaimDecided, Check,
     ReadForUpdate, Write, context
<1>5. CASE Crash(p)
  BY <1>5 DEF Crash, context
<1>6. QED
  BY <1>1, <1>2, <1>3, <1>4, <1>5 DEF Step

\* A step of the task list is a step of the registry, or none.
LEMMA RegistryStep ==
  ASSUME Claims, NEW p \in Actors, Request(p) \/ Step(p) \/ Crash(p)
  PROVE  [Registry!Next]_(Registry!vars)
<1>0. /\ Base /\ Fresh /\ TypeOK /\ TypeOK' /\ Shape(can[p], p, pc[p], loc[p]) /\ KnownFor(p)
  <2>1. Base /\ Base'
    BY ClaimFacts, BaseNext DEF Next
  <2>2. TypeOK'
    BY <2>1 DEF Base, TypeInv
  <2>3. QED
    BY <2>2, ClaimFacts
<1>1. Registry!Ids = Ids
  BY DEF Registry!Ids, Ids
<1>2. ASSUME won'[p] \subseteq won[p], issued' = issued
      PROVE  Registry!GiveBack(p)
  <2>1. won' = [won EXCEPT ![p] = won'[p]]
    BY <1>0, OthersKeep DEF TypeOK
  <2>2. QED
    BY <1>2, <2>1 DEF Registry!GiveBack
<1>3. CASE Quiet(p) /\ ~Open(p)
  <2>1. Registry!GiveBack(p)
    BY <1>2, <1>3, IssuedKept DEF Quiet
  <2>2. QED
    BY <2>1 DEF Registry!Next
<1>4. CASE Told(p) /\ ~Open(p)
  <2>1. issued' = issued
    BY <1>4, IssuedKept
  <2>2. CASE loc[p].op = "finish"
    <3>1. won'[p] = won[p]
      BY <1>4, <2>2 DEF Told
    <3>2. Registry!GiveBack(p)
      BY <1>2, <2>1, <3>1
    <3>3. QED
      BY <3>2 DEF Registry!Next
  <2>3. CASE loc[p].op \in {"claim", "claimBusy"}
    <3>1. won'[p] = won[p] \cup {loc[p].tgt}
      BY <1>4, <2>3 DEF Told
    <3>2. won' = [won EXCEPT ![p] = @ \cup {loc[p].tgt}]
      BY <1>0, <3>1, OthersKeep DEF TypeOK
    <3>3. loc[p].tgt \in issued /\ loc[p].tgt \in Ids
      BY <1>0, <2>3 DEF KnownFor, Shape
    <3>4. \A q \in Actors \ {p} : loc[p].tgt \notin won[q]
      BY <1>4, <2>3, ToldClaimed DEF Clear, Mine
    <3>5. Registry!Take(p, loc[p].tgt)
      BY <2>1, <3>2, <3>3, <3>4 DEF Registry!Take
    <3>6. QED
      BY <1>1, <3>3, <3>5 DEF Registry!Next
  <2>4. QED
    BY <1>4, <2>2, <2>3 DEF Told
<1>5. CASE /\ Reread(p) \/ BusyClaimDecided(p) \/ ReadForUpdate(p) \/ Write(p)
           /\ ~Open(p)
  <2>1. issued' = issued /\ won' = won
    BY <1>5, IssuedKept DEF Reread, BusyClaimDecided, ReadForUpdate, Write, told
  <2>2. QED
    BY <2>1 DEF Registry!vars
<1>6. CASE Open(p)
  <2>1. pc[p] = "open" /\ won' = won
        /\ issued' = IF loc[p].op = "create" THEN issued \cup {loc[p].tgt} ELSE issued
    BY <1>6 DEF Open, At, told
  <2>2. CASE loc[p].op = "create"
    <3>1. Scanned(p) /\ loc[p].tgt \in Ids
      BY <1>0, <2>1, <2>2, FreshCases DEF Fresh, IdsGrow, Shape
    <3>2. \A j \in issued : j < loc[p].tgt
      BY <2>1, <2>2, <3>1 DEF Scanned, At
    <3>3. Registry!Issue(loc[p].tgt)
      BY <2>1, <2>2, <3>2 DEF Registry!Issue
    <3>4. QED
      BY <1>1, <3>1, <3>3 DEF Registry!Next
  <2>3. CASE loc[p].op # "create"
    BY <2>1, <2>3 DEF Registry!vars
  <2>4. QED
    BY <2>2, <2>3
<1>7. QED
  BY <1>0, <1>3, <1>4, <1>5, <1>6, KindsOfSteps DEF Kinds

\* The task list starts as the registry does.
LEMMA RegistryInit == Init => Registry!Init
<1> SUFFICES ASSUME Init PROVE Registry!Init
  OBVIOUS
<1>1. issued \subseteq Registry!Ids /\ won = [p \in Actors |-> {}]
  BY DEF Init, Registry!Ids, Ids
<1>2. QED
  BY <1>1 DEF Registry!Init

\* The task list implements the registry: ids only grow, and being told of a
\* claim is taking a task that nobody holds, where owners are written by claims
\* and releases only.
THEOREM ImplementsRegistry == Spec /\ CreatedAlone /\ Guarded => RegistrySpec
<1>1. Claims /\ [Next]_vars => [Registry!Next]_(Registry!vars)
  <2> SUFFICES ASSUME Claims, [Next]_vars PROVE [Registry!Next]_(Registry!vars)
    OBVIOUS
  <2>1. CASE StaleLock \/ UNCHANGED vars
    BY <2>1 DEF StaleLock, StaleListLock, StaleTaskLock, vars, told, context, Registry!vars
  <2>2. QED
    BY <2>1, RegistryStep DEF Next
<1>2. Spec /\ CreatedAlone /\ Guarded => []Claims
  BY ClaimsInit, ClaimsNext, PTL DEF Spec
<1>3. QED
  BY <1>1, <1>2, RegistryInit, PTL DEF Spec, RegistrySpec, Registry!Spec
=============================================================================
