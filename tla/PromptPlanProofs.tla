-------------------------- MODULE PromptPlanProofs --------------------------
(* Proofs about PromptPlan, for every number of tasks and every plan.      *)
EXTENDS PromptPlan, FilteringProofs, FiniteSetTheorems, TLAPS

\* What the assumption on Plans says of one plan.
LEMMA PlansArePlans ==
  ASSUME NEW p \in Plans
  PROVE  /\ p \in Plan
         /\ p.deps \in [Tasks -> SUBSET Tasks]
         /\ p.keys \in [Tasks -> SUBSET Files]
         /\ p.status \in [Tasks -> {"pending", "ready"} \cup Waiting]
         /\ \A t \in Tasks : p.status[t] = "ready" => p.deps[t] = {}
  BY ConstantsAssumption DEF Plan

\* Forward keeps to the tasks and the labels.
LEMMA ForwardType ==
  ASSUME pos \in Tasks, at \in {"mark", "launch", "settle", "race", "returned"},
         NEW label \in {"launch", "settle"}, Forward(label)
  PROVE  /\ pos' \in Tasks
         /\ at' \in {"mark", "launch", "settle", "race", "returned"}
  BY ConstantsAssumption DEF Forward, Tasks

-----------------------------------------------------------------------------
\* The plan stays one of Plans.
Planned == plan \in Plans

\* The types hold at the start, of a plan of Plans.
LEMMA InitTypeOK == Init => TypeOK /\ Planned
<1> SUFFICES ASSUME Init PROVE TypeOK /\ Planned
  OBVIOUS
<1>1. plan \in Plans /\ plan \in Plan /\ plan.status \in [Tasks -> {"pending", "ready"} \cup Waiting]
  BY PlansArePlans DEF Init
<1>2. status \in [Tasks -> Statuses]
  BY <1>1 DEF Init, Statuses, Open
<1>3. pos \in Tasks
  BY ConstantsAssumption DEF Init, Tasks
<1>4. QED
  BY <1>1, <1>2, <1>3 DEF Init, TypeOK, Planned

\* Every step keeps the types and the plan.
LEMMA StepTypeOK == TypeOK /\ Planned /\ [Next]_vars => TypeOK' /\ Planned'
<1> SUFFICES ASSUME TypeOK, Planned, [Next]_vars PROVE TypeOK' /\ Planned'
  OBVIOUS
<1> USE DEF TypeOK, Planned
<1>0. plan \in Plan /\ plan.keys \in [Tasks -> SUBSET Files]
  BY PlansArePlans
<1>1. CASE Mark
  <2>1. status' \in [Tasks -> Statuses]
    BY <1>1 DEF Mark, Statuses, Open, Waiting
  <2>2. pos' \in Tasks /\ at' \in {"mark", "launch", "settle", "race", "returned"}
    BY <1>1, ForwardType DEF Mark
  <2>3. QED
    BY <1>1, <2>1, <2>2 DEF Mark, evidence
<1>2. ASSUME NEW ok \in BOOLEAN, Launch(ok) PROVE TypeOK' /\ Planned'
  <2>1. status' \in [Tasks -> Statuses]
    BY <1>2 DEF Launch, Statuses, Open, Waiting
  <2>2. pos' \in Tasks /\ at' \in {"mark", "launch", "settle", "race", "returned"}
    BY <1>2, ForwardType DEF Launch
  <2>3. locks' \subseteq Files
    BY <1>0, <1>2 DEF Launch
  <2>4. shared' \subseteq Tasks /\ refused' \subseteq Tasks /\ running' \subseteq Tasks
    BY <1>2 DEF Launch, Executing
  <2>5. UNCHANGED <<plan, raced, diff, own, credited>>
    BY <1>2 DEF Launch
  <2>6. QED
    BY <2>1, <2>2, <2>3, <2>4, <2>5
<1>3. CASE SkipLaunch
  <2>1. pos' \in Tasks /\ at' \in {"mark", "launch", "settle", "race", "returned"}
    BY <1>3, ForwardType DEF SkipLaunch
  <2>2. QED
    BY <1>3, <2>1 DEF SkipLaunch, evidence
<1>4. CASE GiveUp
  <2>1. status' \in [Tasks -> Statuses]
    BY <1>4 DEF GiveUp, Statuses, Waiting
  <2>2. QED
    BY <1>4, <2>1 DEF GiveUp, evidence
<1>5. CASE Race
  BY <1>5 DEF Race, evidence
<1>6. CASE Wake
  BY <1>6 DEF Wake, evidence
<1>7. ASSUME NEW t \in Tasks, NEW f \in Files, Change(t, f) PROVE TypeOK' /\ Planned'
  <2>1. own' \in [Tasks -> SUBSET Files] /\ diff' \in [Tasks -> SUBSET Files]
    BY <1>7 DEF Change
  <2>2. QED
    BY <1>7, <2>1 DEF Change, scheduler
<1>8. ASSUME NEW t \in Tasks, Ends(t) PROVE TypeOK' /\ Planned'
  <2>1. PICK ok \in BOOLEAN, silent \in BOOLEAN,
             observed \in SUBSET Files, claimed \in SUBSET Files :
          Finish(t, ok, observed, claimed, silent)
    BY <1>8 DEF Ends
  <2>2. status' \in [Tasks -> Statuses]
    BY <2>1 DEF Finish, Statuses
  <2>3. own' \in [Tasks -> SUBSET Files] /\ diff' \in [Tasks -> SUBSET Files]
    BY <2>1 DEF Finish
  <2>4. credited' \subseteq Tasks
    BY <2>1 DEF Finish
  <2>5. QED
    BY <2>1, <2>2, <2>3, <2>4 DEF Finish, scheduler
<1>9. ASSUME NEW t \in Tasks, Settle(t) PROVE TypeOK' /\ Planned'
  BY <1>9 DEF Settle, scheduler, evidence
<1>10. CASE UNCHANGED vars
  BY <1>10 DEF vars, scheduler, evidence
<1>11. QED
  BY <1>1, <1>2, <1>3, <1>4, <1>5, <1>6, <1>7, <1>8, <1>9, <1>10 DEF Next, Scheduler

\* Every variable always holds a value of its kind: statuses, positions and
\* evidence of runPromptPlan (TypeOK).
THEOREM TypeCorrect == Spec => []TypeOK
<1>1. Spec => [](TypeOK /\ Planned)
  BY InitTypeOK, StepTypeOK, PTL DEF Spec
<1>2. QED
  BY <1>1, PTL

-----------------------------------------------------------------------------
\* What the scheduler relies on: the locks are those of the running promises,
\* which share no file; a task with a promise has been started, and a task
\* that executes has a promise.
LocksAreHeld ==
  /\ locks = UNION {plan.keys[t] : t \in running}
  /\ \A t, u \in running : t # u => plan.keys[t] \cap plan.keys[u] = {}
  /\ \A t \in running : status[t] \notin {"pending", "ready"}
  /\ Executing \subseteq running

\* The locks are right at the start.
LEMMA InitLocks == Init => LocksAreHeld
<1> SUFFICES ASSUME Init PROVE LocksAreHeld
  OBVIOUS
<1>1. \A t \in Tasks : status[t] # "running"
  BY PlansArePlans DEF Init, Waiting
<1>2. QED
  BY <1>1 DEF Init, LocksAreHeld, Executing

\* Every step keeps the locks right.
LEMMA StepLocks == TypeOK /\ LocksAreHeld /\ [Next]_vars => LocksAreHeld'
<1> SUFFICES ASSUME TypeOK, LocksAreHeld, [Next]_vars PROVE LocksAreHeld'
  OBVIOUS
<1> USE DEF TypeOK, LocksAreHeld, Executing
<1>1. CASE Mark
  <2>1. \A t \in Tasks : status'[t] = status[t]
                         \/ (status[t] = "pending" /\ status'[t] \in {"ready", "needs-context"})
    BY <1>1 DEF Mark
  <2>2. UNCHANGED <<plan, locks, running>>
    BY <1>1 DEF Mark
  <2>3. QED
    BY <2>1, <2>2
<1>2. ASSUME NEW ok \in BOOLEAN, Launch(ok) PROVE LocksAreHeld'
  <2>1. plan' = plan /\ locks' = locks \cup plan.keys[pos] /\ running' = running \cup {pos}
    BY <1>2 DEF Launch
  <2>2. plan.keys[pos] \cap locks = {} /\ status[pos] = "ready"
    BY <1>2 DEF Launch, Launchable, Locked
  <2>3. pos \notin running
    BY <2>2
  <2>4. status'[pos] \notin {"pending", "ready"}
    BY <1>2 DEF Launch
  <2>5. \A t \in Tasks \ {pos} : status'[t] = status[t]
    BY <1>2 DEF Launch
  <2>6. \A t \in running : plan.keys[t] \cap plan.keys[pos] = {}
    BY <2>2
  <2>7. QED
    BY <2>1, <2>3, <2>4, <2>5, <2>6
<1>3. CASE SkipLaunch
  BY <1>3 DEF SkipLaunch
<1>4. CASE GiveUp
  BY <1>4 DEF GiveUp
<1>5. CASE Race
  BY <1>5 DEF Race
<1>6. CASE Wake
  BY <1>6 DEF Wake
<1>7. ASSUME NEW t \in Tasks, NEW f \in Files, Change(t, f) PROVE LocksAreHeld'
  BY <1>7 DEF Change
<1>8. ASSUME NEW t \in Tasks, Ends(t) PROVE LocksAreHeld'
  <2>1. status[t] = "running" /\ UNCHANGED <<plan, locks, running>>
    BY <1>8 DEF Ends, Finish
  <2>2. status'[t] \in {"finished", "failed"} /\ \A u \in Tasks \ {t} : status'[u] = status[u]
    BY <1>8 DEF Ends, Finish
  <2>3. QED
    BY <2>1, <2>2
<1>9. ASSUME NEW t \in Tasks, Settle(t) PROVE LocksAreHeld'
  <2>1. /\ t \in running /\ status[t] # "running"
        /\ locks' = locks \ plan.keys[t] /\ running' = running \ {t}
        /\ UNCHANGED <<plan, status>>
    BY <1>9 DEF Settle
  <2>2. locks' = UNION {plan.keys[u] : u \in running'}
    BY <2>1
  <2>3. QED
    BY <2>1, <2>2
<1>10. CASE UNCHANGED vars
  BY <1>10 DEF vars, scheduler
<1>11. QED
  BY <1>1, <1>2, <1>3, <1>4, <1>5, <1>6, <1>7, <1>8, <1>9, <1>10 DEF Next, Scheduler

\* Tasks that name a common file never run at the same time, for every plan and
\* every number of agents (FilesAreSerialized): the locks that the finally
\* handlers release are exactly those the launches took.
THEOREM Serialization == Spec => []FilesAreSerialized
<1>1. TypeOK /\ LocksAreHeld => FilesAreSerialized
  BY DEF TypeOK, LocksAreHeld, FilesAreSerialized
<1>2. QED
  BY <1>1, InitTypeOK, StepTypeOK, InitLocks, StepLocks, PTL DEF Spec

-----------------------------------------------------------------------------
\* The order of dependencies holds at the start.
LEMMA InitDependencies == Init => DependenciesComeFirst
<1> SUFFICES ASSUME Init, NEW t \in Tasks,
                    status[t] \in {"ready", "running", "finished", "failed"}
             PROVE  \A d \in plan.deps[t] : status[d] = "finished"
  BY DEF DependenciesComeFirst
<1>1. plan.status[t] = "ready" /\ plan \in Plans
  BY PlansArePlans DEF Init, Waiting
<1>2. QED
  BY <1>1, PlansArePlans DEF Init

\* What a step may do to a task: it starts one that is ready, ends one that
\* runs, or decides on one that is pending.
LEMMA StatusSteps ==
  ASSUME TypeOK, [Next]_vars, NEW t \in Tasks, status'[t] # status[t]
  PROVE  \/ status[t] = "pending" /\ status'[t] = "ready" /\ DependenciesFinished(t)
         \/ status[t] \in {"pending", "ready"} /\ status'[t] \in {"needs-context", "waiting-approval"}
         \/ status[t] = "ready" /\ status'[t] = "running"
         \/ status[t] = "running" /\ status'[t] \in {"finished", "failed"}
<1> USE DEF TypeOK
<1>1. CASE Mark
  BY <1>1 DEF Mark
<1>2. ASSUME NEW ok \in BOOLEAN, Launch(ok)
      PROVE  \/ status[t] = "ready" /\ status'[t] \in {"needs-context", "waiting-approval"}
             \/ status[t] = "ready" /\ status'[t] = "running"
  <2>1. status[pos] = "ready"
    BY <1>2 DEF Launch, Launchable
  <2>2. QED
    BY <1>2, <2>1 DEF Launch
<1>3. CASE SkipLaunch
  BY <1>3 DEF SkipLaunch
<1>4. CASE GiveUp
  BY <1>4 DEF GiveUp
<1>5. CASE Race \/ Wake
  BY <1>5 DEF Race, Wake
<1>6. ASSUME NEW u \in Tasks, NEW f \in Files, Change(u, f) PROVE FALSE
  BY <1>6 DEF Change
<1>7. ASSUME NEW u \in Tasks, Ends(u)
      PROVE  status[t] = "running" /\ status'[t] \in {"finished", "failed"}
  BY <1>7 DEF Ends, Finish
<1>8. ASSUME NEW u \in Tasks, Settle(u) PROVE FALSE
  BY <1>8 DEF Settle
<1>9. CASE UNCHANGED vars
  BY <1>9 DEF vars
<1>10. QED
  BY <1>1, <1>2, <1>3, <1>4, <1>5, <1>6, <1>7, <1>8, <1>9 DEF Next, Scheduler

\* No step changes the plan.
LEMMA PlanStays == [Next]_vars => plan' = plan
  BY DEF Next, Scheduler, Mark, Launch, SkipLaunch, GiveUp, Race, Wake, Change, Ends,
         Finish, Settle, vars

\* Every step keeps the order of dependencies.
LEMMA StepDependencies == TypeOK /\ Planned /\ DependenciesComeFirst /\ [Next]_vars => DependenciesComeFirst'
<1> SUFFICES ASSUME TypeOK, Planned, DependenciesComeFirst, [Next]_vars, NEW t \in Tasks,
                    status'[t] \in {"ready", "running", "finished", "failed"}
             PROVE  \A d \in plan.deps[t] : status'[d] = "finished"
  BY PlanStays DEF DependenciesComeFirst
<1>1. plan.deps[t] \subseteq Tasks
  BY PlansArePlans DEF Planned
<1>2. \A d \in plan.deps[t] : status[d] = "finished"
  <2>1. status'[t] = status[t] => \A d \in plan.deps[t] : status[d] = "finished"
    BY DEF DependenciesComeFirst
  <2>2. status'[t] # status[t] =>
          status[t] \in {"ready", "running"} \/ DependenciesFinished(t)
    BY StatusSteps
  <2>3. QED
    BY <2>1, <2>2 DEF DependenciesComeFirst, DependenciesFinished
<1>3. \A d \in plan.deps[t] : status'[d] = status[d]
  BY <1>1, <1>2, StatusSteps
<1>4. QED
  BY <1>2, <1>3

\* A task is ready, runs or is over only when all it depends on has finished,
\* and that is never taken back (DependenciesComeFirst).
THEOREM DependencyOrder == Spec => []DependenciesComeFirst
  BY InitTypeOK, StepTypeOK, InitDependencies, StepDependencies, PTL DEF Spec

\* No step ever changes the status of a task that is over (TasksRunOnce).
THEOREM RunOnce == Spec => TasksRunOnce
<1>1. TypeOK /\ [Next]_vars =>
        [\A t \in Tasks : status[t] \notin Open => status'[t] = status[t]]_vars
  BY StatusSteps DEF Open
<1>2. QED
  BY <1>1, TypeCorrect, PTL DEF Spec, TasksRunOnce

-----------------------------------------------------------------------------
\* What a task finishes on.  A task that does not run has left no evidence; one
\* that runs and has never run beside another is the only one, so that all that
\* changes is its own.
EvidenceIsOwn ==
  /\ \A t \in Tasks \ Executing : diff[t] = {} /\ own[t] = {}
  /\ \A t \in Executing \ shared : Executing = {t} /\ diff[t] = own[t]
  /\ LoneClaimsAreSupported

\* The evidence is right at the start.
LEMMA InitEvidence == Init => EvidenceIsOwn
<1> SUFFICES ASSUME Init PROVE EvidenceIsOwn
  OBVIOUS
<1>1. Executing = {}
  BY PlansArePlans DEF Init, Waiting, Executing
<1>2. QED
  BY <1>1 DEF Init, EvidenceIsOwn, LoneClaimsAreSupported

\* Every step keeps the evidence right.
LEMMA StepEvidence == TypeOK /\ EvidenceIsOwn /\ [Next]_vars => EvidenceIsOwn'
<1> SUFFICES ASSUME TypeOK, EvidenceIsOwn, [Next]_vars PROVE EvidenceIsOwn'
  OBVIOUS
<1>1. ASSUME UNCHANGED <<plan, evidence>>, Executing' = Executing PROVE EvidenceIsOwn'
  BY <1>1 DEF EvidenceIsOwn, LoneClaimsAreSupported, evidence
<1>2. CASE Mark
  <2>1. Executing' = Executing
    BY <1>2 DEF Mark, Executing, TypeOK
  <2>2. QED
    BY <1>1, <1>2, <2>1 DEF Mark
<1>3. ASSUME NEW ok \in BOOLEAN, Launch(ok) PROVE EvidenceIsOwn'
  <2>1. /\ pos \in Tasks \ Executing /\ UNCHANGED <<plan, diff, own, credited>>
        /\ \A t \in Tasks \ {pos} : status'[t] = status[t]
    BY <1>3 DEF Launch, Launchable, Executing, TypeOK
  <2>2. CASE ok /\ ~plan.approval[pos]
    <3>1. Executing' = Executing \cup {pos}
      BY <1>3, <2>1, <2>2 DEF Launch, Executing, TypeOK
    <3>2. shared' = IF Executing = {} THEN shared ELSE shared \cup Executing \cup {pos}
      BY <1>3, <2>2 DEF Launch
    <3>3. QED
      BY <2>1, <3>1, <3>2 DEF EvidenceIsOwn, LoneClaimsAreSupported
  <2>3. CASE ~(ok /\ ~plan.approval[pos])
    <3>1. Executing' = Executing /\ shared' = shared
      BY <1>3, <2>1, <2>3 DEF Launch, Executing, TypeOK
    <3>2. QED
      BY <1>1, <2>1, <3>1 DEF evidence
  <2>4. QED
    BY <2>2, <2>3
<1>4. CASE SkipLaunch \/ Race \/ Wake
  BY <1>1, <1>4 DEF SkipLaunch, Race, Wake, Executing
<1>5. CASE GiveUp
  <2>1. Executing' = Executing
    BY <1>5 DEF GiveUp, Executing, TypeOK
  <2>2. QED
    BY <1>1, <1>5, <2>1 DEF GiveUp
<1>6. ASSUME NEW t \in Tasks, NEW f \in Files, Change(t, f) PROVE EvidenceIsOwn'
  <2>1. t \in Executing /\ Executing' = Executing /\ UNCHANGED <<plan, shared, credited>>
    BY <1>6 DEF Change, Executing
  <2>2. /\ own'[t] = own[t] \cup {f} /\ \A u \in Tasks \ {t} : own'[u] = own[u]
        /\ \A u \in Tasks : diff'[u] = IF u \in Executing THEN diff[u] \cup {f} ELSE diff[u]
    BY <1>6 DEF Change, TypeOK
  <2>3. \A u \in Tasks \ Executing : diff'[u] = {} /\ own'[u] = {}
    BY <2>1, <2>2 DEF EvidenceIsOwn
  <2>4. ASSUME NEW u \in Executing \ shared PROVE Executing = {u} /\ diff'[u] = own'[u]
    <3>1. Executing = {u} /\ diff[u] = own[u] /\ u = t /\ u \in Tasks
      BY <2>1 DEF EvidenceIsOwn, Executing
    <3>2. QED
      BY <2>2, <3>1
  <2>5. QED
    BY <2>1, <2>3, <2>4 DEF EvidenceIsOwn, LoneClaimsAreSupported
<1>7. ASSUME NEW t \in Tasks, Ends(t) PROVE EvidenceIsOwn'
  <2>1. PICK ok \in BOOLEAN, silent \in BOOLEAN,
             observed \in SUBSET Files, claimed \in SUBSET Files :
          Finish(t, ok, observed, claimed, silent)
    BY <1>7 DEF Ends
  <2>2. t \in Executing /\ Executing' = Executing \ {t} /\ UNCHANGED <<plan, shared>>
    BY <2>1 DEF Finish, Executing, TypeOK
  <2>3. /\ diff'[t] = {} /\ own'[t] = {}
        /\ \A u \in Tasks \ {t} : diff'[u] = diff[u] /\ own'[u] = own[u]
    BY <2>1 DEF Finish, TypeOK
  <2>4. ASSUME plan.strict PROVE credited' \subseteq shared
    <3>1. CASE credited' = credited
      BY <2>4, <3>1 DEF EvidenceIsOwn, LoneClaimsAreSupported
    <3>2. CASE credited' # credited
      <4>1. /\ credited' = credited \cup {t} /\ claimed \subseteq diff[t] \cup observed
            /\ ~(claimed \subseteq own[t] \cup observed)
        BY <2>1, <2>4, <3>2 DEF Finish, Supported, ChangedFiles
      <4>2. t \in shared
        BY <2>2, <4>1 DEF EvidenceIsOwn
      <4>3. QED
        BY <2>4, <4>1, <4>2 DEF EvidenceIsOwn, LoneClaimsAreSupported
    <3>3. QED
      BY <3>1, <3>2
  <2>5. QED
    BY <2>2, <2>3, <2>4 DEF EvidenceIsOwn, LoneClaimsAreSupported, Executing
<1>8. ASSUME NEW t \in Tasks, Settle(t) PROVE EvidenceIsOwn'
  BY <1>1, <1>8 DEF Settle, Executing
<1>9. CASE UNCHANGED vars
  BY <1>1, <1>9 DEF vars, Executing
<1>10. QED
  BY <1>2, <1>3, <1>4, <1>5, <1>6, <1>7, <1>8, <1>9 DEF Next, Scheduler

\* Strict verification accepts no claim of a task which ran alone but of changes
\* that it made or that its executeTask reports as observed
\* (LoneClaimsAreSupported): the snapshots around it show only its own.
THEOREM ClaimsAreOwn == Spec => []LoneClaimsAreSupported
<1>1. EvidenceIsOwn => LoneClaimsAreSupported
  BY DEF EvidenceIsOwn
<1>2. QED
  BY <1>1, InitTypeOK, StepTypeOK, InitEvidence, StepEvidence, PTL DEF Spec

-----------------------------------------------------------------------------
\* A set of positions that holds 0 and with a position the next holds all.
LEMMA UpTo ==
  ASSUME NEW n \in Nat, NEW T \in SUBSET Nat, 0 \in T, \A i \in T : i < n => i + 1 \in T
  PROVE  0..n \subseteq T
<1> DEFINE U == {i \in Nat : i <= n => i \in T}
<1>1. 0 \in U /\ \A i \in U : i + 1 \in U
  OBVIOUS
<1>2. U = Nat
  BY <1>1, Induction, U \in SUBSET Nat
<1>3. QED
  BY <1>2

\* independentWidth's recursion, up to the task n.
Takes(p, t, s) ==
  t \in Runnable(p) /\ p.deps[t] = {} /\ \A u \in s : p.keys[t] \cap p.keys[u] = {}

TakenOf(p, n, f) ==
  f = [t \in 0..n |->
        IF t = 0 THEN {} ELSE IF Takes(p, t, f[t - 1]) THEN f[t - 1] \cup {t} ELSE f[t - 1]]

\* The recursion has a solution up to every task.
LEMMA TakenExists == ASSUME NEW p PROVE \A n \in Nat : \E f : TakenOf(p, n, f)
<1> DEFINE T == {n \in Nat : \E f : TakenOf(p, n, f)}
<1>1. 0 \in T
  <2> DEFINE f == [t \in 0..0 |-> {}]
  <2>1. f = [t \in 0..0 |-> IF t = 0 THEN {} ELSE
               IF Takes(p, t, f[t - 1]) THEN f[t - 1] \cup {t} ELSE f[t - 1]]
    OBVIOUS
  <2>2. TakenOf(p, 0, f)
    BY <2>1 DEF TakenOf
  <2>3. QED
    BY <2>2
<1>2. ASSUME NEW n \in T PROVE n + 1 \in T
  <2>1. PICK f : TakenOf(p, n, f)
    OBVIOUS
  <2> DEFINE last == IF Takes(p, n + 1, f[n]) THEN f[n] \cup {n + 1} ELSE f[n]
             g == [t \in 0..(n + 1) |-> IF t = n + 1 THEN last ELSE f[t]]
  <2> HIDE DEF last
  <2>2. /\ n \in Nat /\ DOMAIN g = 0..(n + 1)
        /\ \A i \in 0..n : g[i] = f[i]
        /\ g[n + 1] = last
    OBVIOUS
  <2>3. ASSUME NEW t \in 0..(n + 1)
        PROVE  g[t] = IF t = 0 THEN {} ELSE
                        IF Takes(p, t, g[t - 1]) THEN g[t - 1] \cup {t} ELSE g[t - 1]
    <3>1. CASE t = n + 1
      <4>1. g[t] = last /\ t # 0 /\ g[t - 1] = f[n] /\ t = n + 1
        BY <2>2, <3>1
      <4> HIDE DEF g
      <4>2. QED
        BY <4>1 DEF last
    <3>2. CASE t \in 0..n
      <4>1. g[t] = f[t] /\ (t # 0 => g[t - 1] = f[t - 1])
        BY <2>2, <3>2
      <4> HIDE DEF g
      <4>2. QED
        BY <2>1, <4>1, <3>2 DEF TakenOf
    <3>3. QED
      BY <2>2, <3>1, <3>2
  <2>4. g = [t \in 0..(n + 1) |-> IF t = 0 THEN {} ELSE
               IF Takes(p, t, g[t - 1]) THEN g[t - 1] \cup {t} ELSE g[t - 1]]
    BY <2>3
  <2> HIDE DEF g
  <2>5. TakenOf(p, n + 1, g)
    BY <2>4 DEF TakenOf
  <2>6. QED
    BY <2>2, <2>5
<1> HIDE DEF T
<1>3. T = Nat
  BY <1>1, <1>2, Induction, T \in SUBSET Nat DEF T
<1>4. QED
  BY <1>3 DEF T

\* The independent tasks are finitely many, so that there is always an agent.
LEMMA SomeAgent ==
  ASSUME NEW p \in Plan
  PROVE  UsefulAgents(p) \in Nat /\ UsefulAgents(p) >= 1
<1>1. N \in Nat
  BY ConstantsAssumption
<1>2. \E f : TakenOf(p, N, f) /\ Independent(p) = f[N]
  <2> DEFINE f == CHOOSE f : TakenOf(p, N, f)
  <2>1. TakenOf(p, N, f)
    BY <1>1, TakenExists
  <2>2. Independent(p) = f[N]
    BY DEF Independent, TakenOf, Takes
  <2>3. QED
    BY <2>1, <2>2
<1>3. PICK f : TakenOf(p, N, f) /\ Independent(p) = f[N]
  BY <1>2
<1>4. f[N] \subseteq Tasks
  <2> DEFINE T == {i \in 0..N : f[i] \subseteq Tasks}
  <2>1. 0 \in T
    BY <1>1, <1>3 DEF TakenOf
  <2>2. ASSUME NEW i \in T, i < N PROVE i + 1 \in T
    <3>1. i + 1 \in 0..N /\ i + 1 # 0 /\ (i + 1) - 1 = i /\ i + 1 \in Tasks
      BY <1>1, <2>2 DEF Tasks
    <3>2. f[i + 1] \in {f[i], f[i] \cup {i + 1}}
      BY <1>3, <3>1 DEF TakenOf
    <3>3. QED
      BY <3>1, <3>2
  <2>3. T \in SUBSET Nat
    BY <1>1
  <2> HIDE DEF T
  <2>4. 0..N \subseteq T
    BY <1>1, <2>1, <2>2, <2>3, UpTo
  <2>5. QED
    BY <1>1, <2>4 DEF T
<1>5. IsFiniteSet(Tasks) /\ Cardinality(Tasks) \in Nat
  BY <1>1, FS_Interval, FS_CardinalityType DEF Tasks
<1>6. Cardinality(Independent(p)) \in Nat
  BY <1>3, <1>4, <1>5, FS_Subset, FS_CardinalityType
<1>7. Cardinality(Runnable(p)) \in Nat
  <2>1. Runnable(p) \subseteq Tasks
    BY DEF Runnable
  <2>2. QED
    BY <1>5, <2>1, FS_Subset, FS_CardinalityType
<1>8. p.maxAgents \in Nat \ {0}
  BY DEF Plan
<1>9. QED
  BY <1>6, <1>7, <1>8 DEF UsefulAgents, AtMost, AtLeast

-----------------------------------------------------------------------------
\* A pass is thorough.  Once it has looked at a task, that task is not pending
\* with all it depends on finished; and where nothing runs, a task it tried to
\* launch is not ready any more.
Overlooked(t) == status[t] = "pending" /\ DependenciesFinished(t)

PassesAreThorough ==
  /\ at \in {"settle", "race"} => pos = 1
  /\ at = "mark" => \A t \in 1..(pos - 1) : ~Overlooked(t)
  /\ at \in {"launch", "settle"} => \A t \in Tasks : ~Overlooked(t)
  /\ at = "launch" /\ running = {} => \A t \in 1..(pos - 1) : status[t] # "ready"
  /\ at = "settle" /\ running = {} => \A t \in Tasks : status[t] # "ready"
  /\ at = "returned" => running = {} /\ \A t \in Tasks : status[t] \notin Open

\* What was given up has a dependency that will not finish any more.
GivenUpForAReason ==
  \A t \in Runnable(plan) : status[t] = "needs-context" /\ t \notin refused =>
    \E d \in plan.deps[t] : status[d] \notin Open \cup {"finished"}

\* A pass has not begun, and nothing has been given up.
LEMMA InitPasses == Init => PassesAreThorough /\ GivenUpForAReason
<1> SUFFICES ASSUME Init PROVE PassesAreThorough /\ GivenUpForAReason
  OBVIOUS
<1>1. PassesAreThorough
  BY DEF Init, PassesAreThorough
<1>2. GivenUpForAReason
  BY DEF Init, GivenUpForAReason, Runnable
<1>3. QED
  BY <1>1, <1>2

\* Where the pass stands after a step forward.
LEMMA ForwardMoves ==
  ASSUME pos \in Tasks, NEW label, Forward(label)
  PROVE  \/ pos < N /\ pos' = pos + 1 /\ at' = at /\ 1..(pos' - 1) = (1..(pos - 1)) \cup {pos}
         \/ pos = N /\ pos' = 1 /\ at' = label /\ Tasks = (1..(pos - 1)) \cup {pos}
  BY ConstantsAssumption DEF Forward, Tasks

\* A task that depends on nothing open and was not overlooked stays so, unless
\* another finishes.
LEMMA OverlookedStays ==
  ASSUME TypeOK, Planned, [Next]_vars, \A d \in Tasks : status'[d] = "finished" => status[d] = "finished",
         NEW t \in Tasks, Overlooked(t)'
  PROVE  Overlooked(t)
<1>1. plan' = plan /\ plan.deps[t] \subseteq Tasks
  BY PlanStays, PlansArePlans DEF Planned
<1>2. status[t] = "pending"
  BY StatusSteps DEF Overlooked
<1>3. QED
  BY <1>1, <1>2 DEF Overlooked, DependenciesFinished

\* Every step keeps the passes thorough.
LEMMA StepPasses ==
  TypeOK /\ Planned /\ LocksAreHeld /\ PassesAreThorough /\ [Next]_vars => PassesAreThorough'
<1> SUFFICES ASSUME TypeOK, Planned, LocksAreHeld, PassesAreThorough, [Next]_vars
             PROVE  PassesAreThorough'
  OBVIOUS
<1>1. pos \in Tasks /\ N \in Nat \ {0} /\ Tasks \subseteq Nat /\ Tasks = 1..N
  BY ConstantsAssumption DEF TypeOK, Tasks
<1>2. CASE Mark
  <2>1. /\ at = "mark" /\ running' = running /\ Forward("launch")
        /\ \A t \in Tasks \ {pos} : status'[t] = status[t]
        /\ status'[pos] = IF status[pos] = "pending" /\ DependenciesFailed(pos)
                          THEN "needs-context"
                          ELSE IF status[pos] = "pending" /\ DependenciesFinished(pos)
                          THEN "ready" ELSE status[pos]
    BY <1>1, <1>2 DEF Mark, TypeOK
  <2>2. \A d \in Tasks : status'[d] = "finished" => status[d] = "finished"
    BY <2>1
  <2>3. \A t \in {pos} : ~Overlooked(t)'
    <3>1. SUFFICES ASSUME NEW t \in Tasks, t = pos, Overlooked(t)' PROVE FALSE
      BY <1>1
    <3>2. Overlooked(t)
      BY <2>2, <3>1, OverlookedStays
    <3>3. status'[t] = "pending"
      BY <3>1 DEF Overlooked
    <3>4. QED
      BY <2>1, <3>1, <3>2, <3>3 DEF Overlooked
  <2>4. \A t \in 1..(pos - 1) : ~Overlooked(t)'
    BY <1>1, <2>1, <2>2, OverlookedStays DEF PassesAreThorough
  <2>5. CASE pos < N
    <3>1. pos' = pos + 1 /\ at' = "mark" /\ 1..(pos' - 1) = (1..(pos - 1)) \cup {pos}
      BY <1>1, <2>1, <2>5, ForwardMoves
    <3>2. QED
      BY <2>3, <2>4, <3>1 DEF PassesAreThorough
  <2>6. CASE pos = N
    <3>1. pos' = 1 /\ at' = "launch" /\ Tasks = (1..(pos - 1)) \cup {pos}
      BY <1>1, <2>1, <2>6, ForwardMoves
    <3>2. \A t \in Tasks : ~Overlooked(t)'
      BY <2>3, <2>4, <3>1
    <3>3. 1..(pos' - 1) = {}
      BY <3>1
    <3>4. QED
      BY <3>1, <3>2, <3>3 DEF PassesAreThorough
  <2>7. QED
    BY <1>1, <2>5, <2>6
<1>3. ASSUME at = "launch", Forward("settle"),
             \A d \in Tasks : status'[d] = "finished" => status[d] = "finished",
             running' = {} => /\ running = {} /\ status'[pos] # "ready"
                              /\ \A t \in Tasks : status'[t] = status[t]
      PROVE  PassesAreThorough'
  <2>1. \A t \in Tasks : ~Overlooked(t)'
    BY <1>3, OverlookedStays DEF PassesAreThorough
  <2>2. running' = {} => \A t \in (1..(pos - 1)) \cup {pos} : status'[t] # "ready"
    BY <1>1, <1>3 DEF PassesAreThorough
  <2>3. CASE pos < N
    <3>1. pos' = pos + 1 /\ at' = "launch" /\ 1..(pos' - 1) = (1..(pos - 1)) \cup {pos}
      BY <1>1, <1>3, <2>3, ForwardMoves
    <3>2. QED
      BY <2>1, <2>2, <3>1 DEF PassesAreThorough
  <2>4. CASE pos = N
    <3>1. pos' = 1 /\ at' = "settle" /\ Tasks = (1..(pos - 1)) \cup {pos}
      BY <1>1, <1>3, <2>4, ForwardMoves
    <3>2. QED
      BY <2>1, <2>2, <3>1 DEF PassesAreThorough
  <2>5. QED
    BY <1>1, <2>3, <2>4
<1>4. ASSUME NEW ok \in BOOLEAN, Launch(ok) PROVE PassesAreThorough'
  <2>1. at = "launch" /\ Forward("settle") /\ running' # {}
    BY <1>4 DEF Launch
  <2>2. \A d \in Tasks : status'[d] = "finished" => status[d] = "finished"
    BY <1>4 DEF Launch, TypeOK
  <2>3. QED
    BY <1>3, <2>1, <2>2
<1>5. CASE SkipLaunch
  <2>1. at = "launch" /\ Forward("settle") /\ UNCHANGED <<status, running>> /\ ~Launchable(pos)
    BY <1>5 DEF SkipLaunch
  <2>2. ASSUME running = {} PROVE status[pos] # "ready"
    <3>1. locks = {}
      BY <2>2 DEF LocksAreHeld
    <3>2. MaxAgents \in Nat /\ MaxAgents >= 1
      BY SomeAgent DEF MaxAgents, TypeOK
    <3>3. Cardinality(running) = 0
      BY <2>2, FS_EmptySet
    <3>4. QED
      BY <2>1, <3>1, <3>2, <3>3 DEF Launchable, Locked
  <2>3. QED
    BY <1>1, <1>3, <2>1, <2>2
<1>6. CASE GiveUp
  <2>1. /\ at = "settle" /\ running = {} /\ running' = {} /\ at' = "returned"
        /\ \A t \in Tasks : status'[t] = IF status[t] \in {"pending", "ready"}
                                         THEN "needs-context" ELSE status[t]
    BY <1>6 DEF GiveUp
  <2>2. \A t \in Tasks : status[t] # "running"
    BY <2>1 DEF LocksAreHeld, Executing
  <2>3. \A t \in Tasks : status'[t] \notin Open
    BY <2>1, <2>2 DEF Open
  <2>4. QED
    BY <2>1, <2>3 DEF PassesAreThorough
<1>7. CASE Race
  BY <1>7 DEF Race, PassesAreThorough
<1>8. CASE Wake
  <2>1. pos' = 1 /\ at' = "mark"
    BY <1>8 DEF Wake, PassesAreThorough
  <2>2. 1..(pos' - 1) = {}
    BY <2>1
  <2>3. QED
    BY <2>1, <2>2 DEF PassesAreThorough
<1>9. ASSUME at = "race", UNCHANGED scheduler PROVE PassesAreThorough'
  BY <1>9 DEF PassesAreThorough, scheduler
<1>10. ASSUME NEW t \in Tasks, Ends(t) \/ Settle(t) \/ \E f \in Files : Change(t, f)
       PROVE  PassesAreThorough'
  BY <1>9, <1>10 DEF Ends, Finish, Settle, Change
<1>11. CASE UNCHANGED vars
  BY <1>11 DEF vars, scheduler, PassesAreThorough, Overlooked, DependenciesFinished
<1>12. QED
  BY <1>2, <1>4, <1>5, <1>6, <1>7, <1>8, <1>10, <1>11 DEF Next, Scheduler

\* Every step gives up only what has a reason.
LEMMA StepGivenUp ==
  TypeOK /\ Planned /\ LocksAreHeld /\ PassesAreThorough /\ GivenUpForAReason /\ [Next]_vars
    => GivenUpForAReason'
<1> SUFFICES ASSUME TypeOK, Planned, LocksAreHeld, PassesAreThorough, GivenUpForAReason,
                    [Next]_vars,
                    NEW t \in Runnable(plan), status'[t] = "needs-context", t \notin refused'
             PROVE  \E d \in plan.deps[t] : status'[d] \notin Open \cup {"finished"}
  BY PlanStays DEF GivenUpForAReason
<1>1. t \in Tasks /\ plan.deps[t] \subseteq Tasks
  BY PlansArePlans DEF Planned, Runnable
<1>2. \A d \in Tasks : status[d] \notin Open \cup {"finished"} =>
        status'[d] \notin Open \cup {"finished"}
  BY StatusSteps DEF Open
<1>3. t \notin refused
  BY DEF Next, Scheduler, Mark, Launch, SkipLaunch, GiveUp, Race, Wake, Change, Ends, Finish,
         Settle, vars
<1>4. CASE status[t] = "needs-context"
  BY <1>1, <1>2, <1>3, <1>4 DEF GivenUpForAReason
<1>5. CASE status[t] # "needs-context"
  <2>1. CASE Mark
    <3>1. t = pos /\ status[t] = "pending" /\ DependenciesFailed(t)
      BY <1>1, <1>5, <2>1 DEF Mark, TypeOK
    <3>2. QED
      BY <1>1, <1>2, <3>1 DEF DependenciesFailed, Waiting, Open
  <2>2. CASE GiveUp
    <3>1. /\ at = "settle" /\ running = {}
          /\ \A d \in Tasks : status'[d] = IF status[d] \in {"pending", "ready"}
                                           THEN "needs-context" ELSE status[d]
      BY <2>2 DEF GiveUp
    <3>2. status[t] = "pending" /\ ~DependenciesFinished(t)
      BY <1>1, <1>5, <3>1 DEF PassesAreThorough, Overlooked
    <3>3. PICK d \in plan.deps[t] : status[d] # "finished"
      BY <3>2 DEF DependenciesFinished
    <3>4. status[d] # "running"
      BY <1>1, <3>1 DEF LocksAreHeld, Executing
    <3>5. status'[d] \notin Open \cup {"finished"}
      BY <1>1, <3>1, <3>3, <3>4 DEF Open
    <3>6. QED
      BY <3>5
  <2>3. ASSUME NEW ok \in BOOLEAN, Launch(ok) PROVE FALSE
    <3>1. status'[t] # status[t] => t = pos /\ refused' = refused \cup {pos}
      BY <1>1, <2>3 DEF Launch, TypeOK
    <3>2. QED
      BY <1>5, <3>1
  <2>4. ASSUME NEW u \in Tasks, Ends(u) PROVE FALSE
    BY <1>1, <1>5, <2>4 DEF Ends, Finish, TypeOK
  <2>5. ASSUME UNCHANGED status PROVE FALSE
    BY <1>5, <2>5
  <2>6. QED
    BY <2>1, <2>2, <2>3, <2>4, <2>5
       DEF Next, Scheduler, SkipLaunch, Race, Wake, Change, Settle, vars
<1>6. QED
  BY <1>4, <1>5

\* When the run returns nothing is left open or locked, and a task was given up
\* only because it was turned down or one it depends on did not finish
\* (NothingIsGivenUpForNothing), never because files or agents were busy.
THEOREM GivingUp == Spec => []NothingIsGivenUpForNothing
<1>1. LocksAreHeld /\ PassesAreThorough /\ GivenUpForAReason => NothingIsGivenUpForNothing
  BY DEF LocksAreHeld, PassesAreThorough, GivenUpForAReason, NothingIsGivenUpForNothing
<1>2. Spec => [](TypeOK /\ Planned /\ LocksAreHeld)
  BY InitTypeOK, StepTypeOK, InitLocks, StepLocks, PTL DEF Spec
<1>3. QED
  BY <1>1, <1>2, InitPasses, StepPasses, StepGivenUp, PTL DEF Spec
=============================================================================
