------------------------------- MODULE TaskList -------------------------------
(***************************************************************************)
(* The file-backed task list of src/src/utils/tasks.ts, shared by several  *)
(* agent processes.  A task is one JSON file; the highest id ever used is  *)
(* in the file .highwatermark; `.lock` is the list lock and every task     *)
(* file has a lock of its own (proper-lockfile, external).                 *)
(*                                                                         *)
(* An actor is one agent running one operation at a time.  Every await of  *)
(* the code is a step of its own, and a writeFile is two: the open that    *)
(* truncates (the file is Torn, it parses as nothing) and the write.       *)
(***************************************************************************)
EXTENDS Integers

CONSTANTS Actors,   \* agents; an agent's name is what it writes as `owner`
          MaxId,    \* bound: task ids are 1..MaxId
          Starts,   \* where to start: what each actor may do, the files on disk
          None,     \* no owner, no lock holder, no argument
          Absent,   \* no such file; also getTask's null
          Torn,     \* truncated, not yet rewritten
          Keep      \* a field an update leaves alone

Ids == 1..MaxId
Status == {"pending", "in_progress", "completed"}
Task == [owner: Actors \cup {None}, status: Status,
         blocks: SUBSET Ids, blockedBy: SUBSET Ids]

\* One updateTask(id, updates) with its arguments evaluated.
Call == [id: Ids, owner: Actors \cup {None, Keep}, status: Status \cup {Keep},
         blocks: {Keep} \cup SUBSET Ids, blockedBy: {Keep} \cup SUBSET Ids]

Ops == {"create", "reset", "delete", "claim", "claimBusy", "start", "finish",
        "edit", "release", "assign", "setOpen", "block", "unassign", "timeout", "crash"}

ASSUME ConstantsAssumption ==
  /\ MaxId \in Nat
  /\ Starts \subseteq [can: [Actors -> SUBSET Ops], file: [Ids -> Task \cup {Absent}]]

ASSUME SentinelsAssumption ==
  /\ None \notin Actors /\ Keep \notin Actors /\ Keep # None
  /\ Keep \notin Status
  /\ None \notin Call
  /\ Absent \notin Task /\ Torn \notin Task /\ Absent # Torn
  /\ Torn \notin Nat

VARIABLES file,      \* file[i]: a task, Absent or Torn
          mark,      \* content of .highwatermark (missing reads as 0)
          listLock,  \* holder of the list lock
          taskLock,  \* taskLock[i]: holder of the lock of task i's file
          pc,        \* pc[p]: where actor p's operation stands
          loc,       \* loc[p]: its local variables
          won,       \* won[p]: tasks a successful claim told p are p's
          done,      \* tasks whose completion updateTask has reported
          issued,    \* ids createTask has given out
          can        \* the role of every actor; never changes

disk == <<file, mark>>
locks == <<listLock, taskLock>>
told == <<won, done>>
context == <<issued, can>>
vars == <<disk, locks, pc, loc, told, context>>

NoLocals == [op |-> "none", tgt |-> None, peer |-> None, call |-> None,
             todo |-> {}, val |-> Absent, fd |-> FALSE,
             seen |-> [i \in Ids |-> Absent], unread |-> {},
             scan |-> {}, top |-> 0, old |-> 0, ok |-> FALSE]

Init ==
  /\ \E start \in Starts : can = start.can /\ file = start.file
  /\ mark = 0
  /\ listLock = None
  /\ taskLock = [i \in Ids |-> None]
  /\ pc = [p \in Actors |-> "idle"]
  /\ loc = [p \in Actors |-> NoLocals]
  /\ won = [p \in Actors |-> {}]
  /\ done = {}
  /\ issued = {i \in Ids : file[i] # Absent}

-----------------------------------------------------------------------------
\* getTask: null when the file is missing or does not parse.
GetTask(i) == IF file[i] \in {Absent, Torn} THEN Absent ELSE file[i]

NewTask == [owner |-> None, status |-> "pending", blocks |-> {}, blockedBy |-> {}]

NoChange(i) == [id |-> i, owner |-> Keep, status |-> Keep,
                blocks |-> Keep, blockedBy |-> Keep]

Pick(new, old) == IF new = Keep THEN old ELSE new

\* { ...existing, ...updates }
Merge(t, c) == [owner |-> Pick(c.owner, t.owner), status |-> Pick(c.status, t.status),
                blocks |-> Pick(c.blocks, t.blocks),
                blockedBy |-> Pick(c.blockedBy, t.blockedBy)]

\* findHighestTaskIdFromFiles: readdir, no matter what the files contain.
IsHighestFile(n) ==
  /\ \A i \in Ids : file[i] # Absent => i <= n
  /\ n \in {0} \cup {i \in Ids : file[i] # Absent}

Unresolved(tasks) == {i \in Ids : tasks[i] # Absent /\ tasks[i].status # "completed"}

At(p, label) == pc[p] = label

\* Actor p goes on at `label` with the local variables `l`.
Move(p, label, l) == pc' = [pc EXCEPT ![p] = label] /\ loc' = [loc EXCEPT ![p] = l]
Goto(p, label) == Move(p, label, loc[p])

\* An operation returns to its caller; what it reports is remembered.
Return(p) ==
  /\ Move(p, "idle", NoLocals)
  /\ won' = IF loc[p].ok /\ loc[p].op \in {"claim", "claimBusy"}
            THEN [won EXCEPT ![p] = @ \cup {loc[p].tgt}] ELSE won
  /\ done' = IF loc[p].ok /\ loc[p].op = "finish"
             THEN done \cup {loc[p].tgt} ELSE done

\* blockTask updates the source task before the target task.
InOrder(p, c) == loc[p].op = "block" =>
                   c.id = loc[p].tgt \/ \A d \in loc[p].todo : d.id # loc[p].tgt

\* One updateTask is over: the next one of the loop, or the end.
AfterCall(p) ==
  \/ \E c \in loc[p].todo :
       /\ InOrder(p, c)
       /\ Move(p, "check", [loc[p] EXCEPT !.call = c, !.todo = @ \ {c}, !.val = Absent])
       /\ UNCHANGED told
  \/ /\ loc[p].todo = {} /\ listLock = p
     /\ Move(p, "unlockList", [loc[p] EXCEPT !.call = None, !.val = Absent])
     /\ UNCHANGED told
  \/ /\ loc[p].todo = {} /\ listLock # p
     /\ Return(p)

\* An exception leaves the operation: nothing is reported as done.
Throw(p) ==
  /\ IF listLock = p
     THEN Move(p, "unlockList", [loc[p] EXCEPT !.ok = FALSE, !.call = None, !.val = Absent])
     ELSE Move(p, "idle", NoLocals)
  /\ UNCHANGED told

\* unlink by p, which goes on at `label` with `l`: a descriptor another actor
\* has open on the file no longer names it.
Unlink(p, i, label, l) ==
  /\ file' = [file EXCEPT ![i] = Absent]
  /\ pc' = [pc EXCEPT ![p] = label]
  /\ loc' = [q \in Actors |-> CASE q = p -> l
                                [] q # p /\ At(q, "write") /\ loc[q].call.id = i ->
                                     [loc[q] EXCEPT !.fd = FALSE]
                                [] OTHER -> loc[q]]

-----------------------------------------------------------------------------
\* The calls an actor may make.
Begin(p, op, label, locals) ==
  /\ At(p, "idle") /\ op \in can[p]
  /\ Move(p, label, locals)
  /\ UNCHANGED <<disk, locks, done, context>>

BeginCreate(p) == /\ Begin(p, "create", "lockList", [NoLocals EXCEPT !.op = "create"])
                  /\ UNCHANGED won
BeginReset(p) == /\ Begin(p, "reset", "lockList", [NoLocals EXCEPT !.op = "reset"])
                 /\ UNCHANGED won
BeginDelete(p, i) ==
  /\ Begin(p, "delete", "scan", [NoLocals EXCEPT !.op = "delete", !.tgt = i, !.top = i,
                                                 !.scan = {"mark"}])
  /\ i \in issued
  /\ UNCHANGED won

BeginClaim(p, i, op) ==
  /\ op \in {"claim", "claimBusy"} /\ i \in issued
  /\ Begin(p, op, "check", [NoLocals EXCEPT !.op = op, !.tgt = i,
                                            !.call = [NoChange(i) EXCEPT !.owner = p]])
  /\ UNCHANGED won

\* The single updateTask calls of the runner (start), of the watcher (release)
\* and of TaskUpdateTool when it leaves the owner alone (finish, edit).
UpdateCall(op, i) ==
  CASE op = "start"   -> [NoChange(i) EXCEPT !.status = "in_progress"]
    [] op = "finish"  -> [NoChange(i) EXCEPT !.status = "completed"]
    [] op = "edit"    -> NoChange(i)
    [] op = "release" -> [NoChange(i) EXCEPT !.owner = None]

BeginUpdate(p, i, op) ==
  /\ op \in {"start", "finish", "edit", "release"} /\ i \in issued
  /\ op \in {"start", "release"} => i \in won[p]
  /\ op \in {"finish", "edit"} => GetTask(i) # Absent
  /\ op = "finish" => GetTask(i).status # "completed"
  /\ Begin(p, op, "check", [NoLocals EXCEPT !.op = op, !.tgt = i, !.call = UpdateCall(op, i)])
  /\ won' = IF op = "release" THEN [won EXCEPT ![p] = @ \ {i}] ELSE won

\* The owner and the status TaskUpdateTool writes: what differs from the task it
\* looked at; who starts a task without an owner becomes its owner.
ToolCall(p, i, owner, status) ==
  LET existing == GetTask(i)
      adopted == owner = Keep /\ status = "in_progress" /\ existing.owner = None
      new == IF adopted THEN p ELSE owner
  IN [NoChange(i) EXCEPT !.owner = IF new = existing.owner THEN Keep ELSE new,
                         !.status = IF status = existing.status THEN Keep ELSE status]

\* It looks without a lock, and updateTask takes the task's lock only: an agent
\* gives a task to another or to nobody, completed or not (assign), or makes it
\* pending or in progress (setOpen), whoever has claimed it meanwhile.
BeginToolUpdate(p, i, op, owner, status) ==
  /\ i \in issued /\ GetTask(i) # Absent
  /\ Begin(p, op, "check", [NoLocals EXCEPT !.op = op, !.tgt = i,
                                            !.call = ToolCall(p, i, owner, status)])
  /\ \/ op = "assign" /\ owner # Keep /\ status \in {Keep, "completed"}
     \/ op = "setOpen" /\ status \in {"pending", "in_progress"}
  /\ ToolCall(p, i, owner, status) # NoChange(i)
  /\ UNCHANGED won

BeginBlock(p, i, j) ==
  /\ i # j /\ i \in issued /\ j \in issued
  /\ Begin(p, "block", "reading", [NoLocals EXCEPT !.op = "block", !.tgt = i, !.peer = j,
                                                   !.unread = {i, j}])
  /\ UNCHANGED won

\* A teammate that was killed gives its tasks back.
BeginUnassign(p, q) ==
  /\ At(q, "crashed")
  /\ Begin(p, "unassign", "list", [NoLocals EXCEPT !.op = "unassign", !.peer = q])
  /\ UNCHANGED won

-----------------------------------------------------------------------------
\* Locks.  lockfile.lock retries for a while, then throws.
LockList(p) ==
  /\ At(p, "lockList") /\ listLock = None
  /\ listLock' = p
  /\ \/ loc[p].op = "create" /\ Move(p, "scan", [loc[p] EXCEPT !.scan = {"files", "mark"}])
     \/ loc[p].op = "reset" /\ Move(p, "scan", [loc[p] EXCEPT !.scan = {"files"}])
     \/ loc[p].op = "claimBusy" /\ Goto(p, "list")
  /\ UNCHANGED <<disk, taskLock, told, context>>

LockListFails(p) ==
  /\ At(p, "lockList") /\ listLock # None /\ "timeout" \in can[p]
  /\ Throw(p)
  /\ UNCHANGED <<disk, locks, context>>

\* Mutant: the task's lock does not exclude anybody.
LockTaskShared(p) ==
  /\ At(p, "lockTask") /\ file[loc[p].call.id] # Absent
  /\ taskLock' = [taskLock EXCEPT ![loc[p].call.id] = p]
  /\ Goto(p, IF loc[p].op = "claim" THEN "reread" ELSE "read")
  /\ UNCHANGED <<disk, listLock, told, context>>

LockTask(p) ==
  /\ At(p, "lockTask") /\ taskLock[loc[p].call.id] = None
  /\ file[loc[p].call.id] # Absent
  /\ taskLock' = [taskLock EXCEPT ![loc[p].call.id] = p]
  /\ Goto(p, IF loc[p].op = "claim" THEN "reread" ELSE "read")
  /\ UNCHANGED <<disk, listLock, told, context>>

\* Mutant: a missing file is waited for.
LockTaskFailsLate(p) ==
  /\ At(p, "lockTask")
  /\ taskLock[loc[p].call.id] # None /\ "timeout" \in can[p]
  /\ Throw(p)
  /\ UNCHANGED <<disk, locks, context>>

\* The lock needs an existing file: ENOENT when it was unlinked meanwhile.
LockTaskFails(p) ==
  /\ At(p, "lockTask")
  /\ \/ file[loc[p].call.id] = Absent
     \/ taskLock[loc[p].call.id] # None /\ "timeout" \in can[p]
  /\ Throw(p)
  /\ UNCHANGED <<disk, locks, context>>

UnlockTask(p) ==
  /\ At(p, "unlock")
  /\ taskLock' = [taskLock EXCEPT ![loc[p].call.id] = None]
  /\ AfterCall(p)
  /\ UNCHANGED <<disk, listLock, context>>

UnlockList(p) ==
  /\ At(p, "unlockList")
  /\ listLock' = None
  /\ Return(p)
  /\ UNCHANGED <<disk, taskLock, context>>

-----------------------------------------------------------------------------
\* Mutant: a truncated mark is returned as it is.
MarkRaw == mark

\* readHighWaterMark: a mark that does not parse counts as 0.
MarkValue == IF mark = Torn THEN 0 ELSE mark

\* findHighestTaskId and readHighWaterMark.
ScanFiles(p) ==
  /\ At(p, "scan") /\ "files" \in loc[p].scan
  /\ \E n \in 0..MaxId :
       /\ IsHighestFile(n)
       /\ Move(p, "scan", [loc[p] EXCEPT !.top = n, !.scan =
                    (@ \ {"files"}) \cup (IF loc[p].op = "reset" THEN {"mark"} ELSE {})])
  /\ UNCHANGED <<disk, locks, told, context>>

ScanMark(p) ==
  /\ At(p, "scan") /\ "mark" \in loc[p].scan
  /\ Move(p, "scan", [loc[p] EXCEPT !.old = MarkValue, !.scan = @ \ {"mark"}])
  /\ UNCHANGED <<disk, locks, told, context>>

\* Mutant: the next id is computed from the files alone.
HighestFile(p) == loc[p].top

HighestId(p) == IF loc[p].top > loc[p].old THEN loc[p].top ELSE loc[p].old

\* createTask takes the next id; the model gives out no id above MaxId.
Allocate(p) ==
  /\ At(p, "scan") /\ loc[p].scan = {} /\ loc[p].op = "create"
  /\ LET id == HighestId(p) + 1 IN
     IF id \in Ids
     THEN Move(p, "open", [loc[p] EXCEPT !.tgt = id, !.call = NoChange(id), !.val = NewTask])
     ELSE Goto(p, "unlockList")
  /\ UNCHANGED <<disk, locks, told, context>>

\* resetTaskList and deleteTask raise the mark only when it is lower.
NeedsMark(p) == loc[p].top > loc[p].old

OpenMark(p) ==
  /\ At(p, "scan") /\ loc[p].scan = {} /\ loc[p].op \in {"reset", "delete"}
  /\ NeedsMark(p)
  /\ mark' = Torn
  /\ Goto(p, "writeMark")
  /\ UNCHANGED <<file, locks, told, context>>

AfterMark(p) == Goto(p, IF loc[p].op = "reset" THEN "dir" ELSE "unlink")

SkipMark(p) ==
  /\ At(p, "scan") /\ loc[p].scan = {} /\ loc[p].op \in {"reset", "delete"}
  /\ ~NeedsMark(p)
  /\ AfterMark(p)
  /\ UNCHANGED <<disk, locks, told, context>>

WriteMark(p) ==
  /\ At(p, "writeMark")
  /\ mark' = loc[p].top
  /\ AfterMark(p)
  /\ UNCHANGED <<file, locks, told, context>>

\* resetTaskList unlinks what readdir saw, one file at a time, without task locks.
ReadDir(p) ==
  /\ At(p, "dir")
  /\ Move(p, "unlinkAll", [loc[p] EXCEPT !.unread = {i \in Ids : file[i] # Absent}])
  /\ UNCHANGED <<disk, locks, told, context>>

UnlinkOne(p) ==
  /\ At(p, "unlinkAll")
  /\ \E i \in loc[p].unread : Unlink(p, i, "unlinkAll", [loc[p] EXCEPT !.unread = @ \ {i}])
  /\ UNCHANGED <<mark, locks, told, context>>

UnlinkedAll(p) ==
  /\ At(p, "unlinkAll") /\ loc[p].unread = {}
  /\ Goto(p, "unlockList")
  /\ UNCHANGED <<disk, locks, told, context>>

\* deleteTask returns false when the file is already gone.
DeleteFile(p) ==
  /\ At(p, "unlink")
  /\ IF file[loc[p].tgt] = Absent
     THEN Return(p) /\ UNCHANGED file
     ELSE Unlink(p, loc[p].tgt, "list", loc[p]) /\ UNCHANGED told
  /\ UNCHANGED <<mark, locks, context>>

-----------------------------------------------------------------------------
\* listTasks: one readdir, then every file on its own.
List(p) ==
  /\ At(p, "list")
  /\ Move(p, "reading", [loc[p] EXCEPT !.unread = {i \in Ids : file[i] # Absent}])
  /\ UNCHANGED <<disk, locks, told, context>>

ReadOne(p, i) ==
  /\ At(p, "reading") /\ i \in loc[p].unread
  /\ Move(p, "reading", [loc[p] EXCEPT !.seen[i] = GetTask(i), !.unread = @ \ {i}])
  /\ UNCHANGED <<disk, locks, told, context>>

\* Run the updateTask calls a snapshot led to.
Calls(p, calls) ==
  \/ \E c \in calls :
       /\ loc[p].op = "block" => c.id = loc[p].tgt \/ \A d \in calls : d.id # loc[p].tgt
       /\ Move(p, "check", [loc[p] EXCEPT !.call = c, !.todo = calls \ {c},
                                          !.seen = NoLocals.seen])
       /\ UNCHANGED told
  \/ calls = {} /\ Return(p)

\* deleteTask drops its id from the edges it saw.
DeleteCalls(p) ==
  LET t == loc[p].tgt
      seen == loc[p].seen
  IN {[NoChange(i) EXCEPT !.blocks = seen[i].blocks \ {t},
                          !.blockedBy = seen[i].blockedBy \ {t}] :
        i \in {j \in Ids : seen[j] # Absent /\ t \in seen[j].blocks \cup seen[j].blockedBy}}

\* blockTask appends to the edges it saw; a missing task ends it.
BlockCalls(p) ==
  LET from == loc[p].tgt
      to == loc[p].peer
      seen == loc[p].seen
  IN IF Absent \in {seen[from], seen[to]} THEN {}
     ELSE {c \in {[NoChange(from) EXCEPT !.blocks = seen[from].blocks \cup {to}],
                  [NoChange(to) EXCEPT !.blockedBy = seen[to].blockedBy \cup {from}]} :
             IF c.id = from THEN to \notin seen[from].blocks
                            ELSE from \notin seen[to].blockedBy}

UnassignCalls(p) ==
  {[NoChange(i) EXCEPT !.owner = None, !.status = "pending"] :
     i \in {j \in Unresolved(loc[p].seen) : loc[p].seen[j].owner = loc[p].peer}}

SnapshotUsed(p) ==
  /\ At(p, "reading") /\ loc[p].unread = {}
  /\ \/ loc[p].op = "delete" /\ Calls(p, DeleteCalls(p))
     \/ loc[p].op = "block" /\ Calls(p, BlockCalls(p))
     \/ loc[p].op = "unassign" /\ Calls(p, UnassignCalls(p))
  /\ UNCHANGED <<disk, locks, context>>

-----------------------------------------------------------------------------
\* Mutant: the claimant does not look at the owner.
ClaimableByAnyone(p, task) == task.status # "completed"

\* claimTask decides from `task` (read under the task's lock) and the list.
Claimable(p, task) == task.owner \in {None, p} /\ task.status # "completed"

Reread(p) ==
  /\ At(p, "reread")
  /\ LET task == GetTask(loc[p].tgt) IN
     IF task # Absent /\ Claimable(p, task)
     THEN Move(p, "list", [loc[p] EXCEPT !.val = task])
     ELSE Goto(p, "unlock")
  /\ UNCHANGED <<disk, locks, told, context>>

ClaimDecided(p) ==
  /\ At(p, "reading") /\ loc[p].unread = {} /\ loc[p].op = "claim"
  /\ LET free == loc[p].val.blockedBy \cap Unresolved(loc[p].seen) = {} IN
     Move(p, IF free THEN "read" ELSE "unlock",
          [loc[p] EXCEPT !.ok = free, !.val = Absent, !.seen = NoLocals.seen])
  /\ UNCHANGED <<disk, locks, told, context>>

\* agentOpenTasks
BusyWith(p, seen) == {i \in Unresolved(seen) \ {loc[p].tgt} : seen[i].owner = p}

\* claimTaskWithBusyCheck decides everything from one list, under the list lock.
BusyClaimDecided(p) ==
  /\ At(p, "reading") /\ loc[p].unread = {} /\ loc[p].op = "claimBusy"
  /\ LET seen == loc[p].seen
         task == seen[loc[p].tgt]
         free == /\ task # Absent /\ Claimable(p, task)
                 /\ task.blockedBy \cap Unresolved(seen) = {}
                 /\ BusyWith(p, seen) = {}
     IN Move(p, IF free THEN "check" ELSE "unlockList",
             [loc[p] EXCEPT !.ok = free, !.seen = NoLocals.seen])
  /\ UNCHANGED <<disk, locks, told, context>>

-----------------------------------------------------------------------------
\* updateTask looks before it locks (so does claimTask), because the lock
\* cannot be taken on a missing file.
Check(p) ==
  /\ At(p, "check")
  /\ \/ /\ GetTask(loc[p].call.id) = Absent
        /\ AfterCall(p)
     \/ /\ GetTask(loc[p].call.id) # Absent
        /\ Goto(p, IF loc[p].op = "claimBusy" /\ listLock # p THEN "lockList" ELSE "lockTask")
        /\ UNCHANGED told
  /\ UNCHANGED <<disk, locks, context>>

\* updateTaskUnsafe: read again under the lock, merge, write.
ReadForUpdate(p) ==
  /\ At(p, "read")
  /\ LET existing == GetTask(loc[p].call.id) IN
     IF existing = Absent
     THEN Goto(p, "unlock")
     ELSE Move(p, "open", [loc[p] EXCEPT !.val = Merge(existing, loc[p].call)])
  /\ UNCHANGED <<disk, locks, told, context>>

\* writeFile opens with truncation, and creates a missing file.
Open(p) ==
  /\ At(p, "open")
  /\ file' = [file EXCEPT ![loc[p].call.id] = Torn]
  /\ Move(p, "write", [loc[p] EXCEPT !.fd = TRUE])
  /\ issued' = IF loc[p].op = "create" THEN issued \cup {loc[p].tgt} ELSE issued
  /\ UNCHANGED <<mark, locks, told, can>>

Write(p) ==
  /\ At(p, "write")
  /\ file' = IF loc[p].fd THEN [file EXCEPT ![loc[p].call.id] = loc[p].val] ELSE file
  /\ Move(p, IF loc[p].op = "create" THEN "unlockList" ELSE "unlock",
          [loc[p] EXCEPT !.val = Absent, !.fd = FALSE, !.ok = @ \/ loc[p].op = "finish"])
  /\ UNCHANGED <<mark, locks, told, context>>

-----------------------------------------------------------------------------
\* A process dies between two steps; its locks go stale and are taken over.
Crash(p) ==
  /\ "crash" \in can[p] /\ ~At(p, "crashed")
  /\ Move(p, "crashed", NoLocals)
  /\ won' = [won EXCEPT ![p] = {}]
  /\ UNCHANGED <<disk, locks, done, context>>

StaleListLock ==
  /\ \E p \in Actors : listLock = p /\ At(p, "crashed")
  /\ listLock' = None
  /\ UNCHANGED <<disk, taskLock, pc, loc, told, context>>

StaleTaskLock(i) ==
  /\ \E p \in Actors : taskLock[i] = p /\ At(p, "crashed")
  /\ taskLock' = [taskLock EXCEPT ![i] = None]
  /\ UNCHANGED <<disk, listLock, pc, loc, told, context>>

\* The start of an operation is the environment's choice ...
Request(p) ==
  \/ BeginCreate(p) \/ BeginReset(p)
  \/ \E i \in Ids : \/ BeginDelete(p, i)
                    \/ \E op \in {"claim", "claimBusy"} : BeginClaim(p, i, op)
                    \/ \E op \in {"start", "finish", "edit", "release"} : BeginUpdate(p, i, op)
                    \/ \E op \in {"assign", "setOpen"}, owner \in Actors \cup {None, Keep},
                         status \in Status \cup {Keep} : BeginToolUpdate(p, i, op, owner, status)
                    \/ \E j \in Ids : BeginBlock(p, i, j)
  \/ \E q \in Actors : BeginUnassign(p, q)

\* ... its steps are the code's.
Step(p) ==
  \/ LockList(p) \/ LockListFails(p) \/ LockTask(p) \/ LockTaskFails(p)
  \/ UnlockTask(p) \/ UnlockList(p)
  \/ ScanFiles(p) \/ ScanMark(p) \/ Allocate(p)
  \/ OpenMark(p) \/ SkipMark(p) \/ WriteMark(p)
  \/ ReadDir(p) \/ UnlinkOne(p) \/ UnlinkedAll(p) \/ DeleteFile(p)
  \/ List(p) \/ (\E i \in Ids : ReadOne(p, i)) \/ SnapshotUsed(p)
  \/ Reread(p) \/ ClaimDecided(p) \/ BusyClaimDecided(p)
  \/ Check(p) \/ ReadForUpdate(p) \/ Open(p) \/ Write(p)

StaleLock == StaleListLock \/ \E i \in Ids : StaleTaskLock(i)

Next == (\E p \in Actors : Request(p) \/ Step(p) \/ Crash(p)) \/ StaleLock

Spec == Init /\ [][Next]_vars

\* The event loop of a live process goes on, and stale locks are taken over.
Fairness ==
  /\ \A p \in Actors : WF_vars(Step(p))
  /\ WF_vars(StaleListLock)
  /\ \A i \in Ids : WF_vars(StaleTaskLock(i))

FairSpec == Spec /\ Fairness

-----------------------------------------------------------------------------
\* Type invariant.
Labels == {"idle", "crashed", "check", "lockTask", "lockList", "unlock", "unlockList",
           "scan", "writeMark", "dir", "unlinkAll", "unlink", "list", "reading",
           "reread", "read", "open", "write"}

Locals == [op: Ops \cup {"none"}, tgt: Ids \cup {None},
           peer: Ids \cup Actors \cup {None}, call: Call \cup {None},
           todo: SUBSET Call, val: Task \cup {Absent}, fd: BOOLEAN,
           seen: [Ids -> Task \cup {Absent}], unread: SUBSET Ids,
           scan: SUBSET {"files", "mark"}, top: Nat, old: Nat, ok: BOOLEAN]

TypeOK ==
  /\ file \in [Ids -> Task \cup {Absent, Torn}]
  /\ mark \in Nat \cup {Torn}
  /\ listLock \in Actors \cup {None}
  /\ taskLock \in [Ids -> Actors \cup {None}]
  /\ pc \in [Actors -> Labels]
  /\ loc \in [Actors -> Locals]
  /\ won \in [Actors -> SUBSET Ids]
  /\ done \subseteq Ids
  /\ issued \subseteq Ids
  /\ can \in [Actors -> SUBSET Ops]

\* createTask never gives out an id it has given out before, whatever was
\* deleted from disk in between (the purpose of the high-water mark).
IdsNeverReused ==
  \A p \in Actors : At(p, "open") /\ loc[p].op = "create" => loc[p].tgt \notin issued

\* No two live agents have both been told that a task is theirs.
ClaimsAreExclusive ==
  \A p, q \in Actors : p # q => won[p] \cap won[q] = {}

\* A task an agent has been told is its own names it as owner as long as
\* the file exists: nobody's write loses the claim.  This is about lists whose
\* owners are written by claims and releases; an owner edit of TaskUpdateTool
\* ("assign", or "setOpen" with an owner) takes a claim that was reported.
ClaimsAreKept ==
  \A p \in Actors : \A i \in won[p] : file[i] \in Task => file[i].owner = p

\* A completion that was reported is never lost to another actor's write, where
\* nobody sets tasks back to work.
CompletionsAreKept ==
  \A i \in done : file[i] \in Task => file[i].status = "completed"

\* An agent whose claims all ask for the busy check never holds two open
\* tasks.
OneOpenTaskPerAgent ==
  \A p \in Actors : \A i, j \in won[p] :
    "claim" \notin can[p] /\ i # j /\ file[i] \in Task /\ file[j] \in Task =>
      "completed" \in {file[i].status, file[j].status}

\* What claimTask and updateTask report stays true while other agents claim,
\* release, edit what is not owner or status, reset and die: a task has one
\* holder, the file goes on naming it, a completion is not taken back, and a
\* busy agent gets no second task.
ClaimsAreSound ==
  ClaimsAreExclusive /\ ClaimsAreKept /\ CompletionsAreKept /\ OneOpenTaskPerAgent

\* The task list keeps the promises of TaskRegistry: ids only grow, and a
\* claim is one indivisible step that never takes another agent's task.
Registry == INSTANCE TaskRegistry WITH holds <- won
RegistrySpec == Registry!Spec

\* Every operation of a live actor comes to an end, and every lock that is
\* taken is given back, on every path and after a crash.
OperationsEnd ==
  /\ \A p \in Actors : ~At(p, "idle") ~> (At(p, "idle") \/ At(p, "crashed"))
  /\ (listLock # None) ~> (listLock = None)
  /\ \A i \in Ids : (taskLock[i] # None) ~> (taskLock[i] = None)
=============================================================================
