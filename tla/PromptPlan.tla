----------------------------- MODULE PromptPlan -----------------------------
(***************************************************************************)
(* src/src/services/promptPlanning/executor.ts: runPromptPlan runs the     *)
(* tasks of a plan with several logical agents, at most one at a time on   *)
(* every file a task names.  The scheduling pass is synchronous code       *)
(* (at = "mark", "launch", "settle"): nothing else runs until it waits for *)
(* one of the running promises (at = "race").                              *)
(*                                                                         *)
(* A task's evidence is the difference of two snapshots of the workspace,  *)
(* taken before and after it (evidence.ts), and the observedChangedFiles   *)
(* that executeTask returns, which nothing verifies; what it claims is up  *)
(* to the agent that executed it.                                          *)
(***************************************************************************)
EXTENDS Naturals, FiniteSets

CONSTANTS N,       \* tasks are 1..N, in the order of the plan
          Files,   \* files of the workspace
          Plans    \* the plans to run

Tasks == 1..N
Open == {"pending", "ready", "running"}
Waiting == {"blocked", "waiting-approval", "needs-scope", "needs-context",
            "paused-review", "skipped"}
Statuses == Open \cup Waiting \cup {"finished", "failed"}

\* keys: lockKeys, the required and the target files of a task; parallel,
\* maxAgents, strict: the plan's config.
Plan == [deps: [Tasks -> SUBSET Tasks], keys: [Tasks -> SUBSET Files],
         status: [Tasks -> {"pending", "ready"} \cup Waiting], approval: [Tasks -> BOOLEAN],
         parallel: BOOLEAN, maxAgents: Nat \ {0}, strict: BOOLEAN]

ASSUME ConstantsAssumption ==
  /\ N \in Nat \ {0}
  /\ Plans \subseteq Plan
  \* makeTask calls a task ready only when it depends on nothing.
  /\ \A p \in Plans : \A t \in Tasks : p.status[t] = "ready" => p.deps[t] = {}

VARIABLES plan,      \* the plan; never changes
          status,    \* status[t]: tasks[t].status
          at,        \* where runPromptPlan stands
          pos,       \* its index into tasks
          locks,     \* activeLocks
          running,   \* tasks whose promise is in the set `running`
          raced,     \* the promises it waits for
          diff,      \* diff[t]: files changed since the first snapshot of running t
          own,       \* own[t]: those that t changed itself
          shared,    \* tasks that ran beside another
          credited,  \* tasks that finished on a claimed change that they did not make
                     \* and that executeTask did not report as observed
          refused    \* tasks that validateBeforeExecution turned down

scheduler == <<at, pos, raced>>
evidence == <<diff, own, shared, credited>>
vars == <<plan, status, scheduler, locks, running, evidence, refused>>

-----------------------------------------------------------------------------
\* independentWidth: pending tasks without dependencies, taken in order as
\* long as they share no file with one already taken.
Runnable(p) == {t \in Tasks : p.status[t] \in {"pending", "ready"}}

Independent(p) ==
  LET taken[t \in 0..N] ==
        IF t = 0 THEN {}
        ELSE IF /\ t \in Runnable(p) /\ p.deps[t] = {}
                /\ \A u \in taken[t - 1] : p.keys[t] \cap p.keys[u] = {}
             THEN taken[t - 1] \cup {t} ELSE taken[t - 1]
  IN taken[N]

AtMost(a, b) == IF a < b THEN a ELSE b
AtLeast(a, b) == IF a > b THEN a ELSE b

\* usefulAgentCount
UsefulAgents(p) ==
  LET width == AtLeast(1, Cardinality(Independent(p)))
      runnable == Cardinality(Runnable(p)) IN
  IF ~p.parallel \/ runnable <= 1 THEN 1
  ELSE IF runnable <= 4 THEN AtMost(AtMost(p.maxAgents, 3), width)
  ELSE AtMost(p.maxAgents, width)

MaxAgents == UsefulAgents(plan)

Init ==
  /\ plan \in Plans
  /\ status = plan.status
  /\ at = "mark" /\ pos = 1 /\ raced = {}
  /\ locks = {} /\ running = {}
  /\ diff = [t \in Tasks |-> {}]
  /\ own = [t \in Tasks |-> {}]
  /\ shared = {} /\ credited = {} /\ refused = {}

-----------------------------------------------------------------------------
\* Mutant: some for every.
DependencyFinished(t) ==
  plan.deps[t] = {} \/ \E d \in plan.deps[t] : status[d] = "finished"

\* dependenciesFailed, dependenciesFinished
DependenciesFailed(t) == \E d \in plan.deps[t] : status[d] \in Waiting \cup {"failed"}
DependenciesFinished(t) == \A d \in plan.deps[t] : status[d] = "finished"

\* Mutant: one step too far.
ForwardPast(label) ==
  IF pos <= N THEN pos' = pos + 1 /\ UNCHANGED at ELSE pos' = 1 /\ at' = label

Forward(label) ==
  IF pos < N THEN pos' = pos + 1 /\ UNCHANGED at ELSE pos' = 1 /\ at' = label

\* Mutant: whatever is not running has another chance.
MarkAgain ==
  /\ at = "mark"
  /\ status' = [status EXCEPT ![pos] =
       IF @ = "pending" /\ DependenciesFailed(pos) THEN "needs-context"
       ELSE IF @ # "running" /\ DependenciesFinished(pos) THEN "ready" ELSE @]
  /\ Forward("launch")
  /\ UNCHANGED <<plan, raced, locks, running, evidence, refused>>

\* The pass over the tasks: what a dependency has become decides.
Mark ==
  /\ at = "mark"
  /\ status' = [status EXCEPT ![pos] =
       IF @ = "pending" /\ DependenciesFailed(pos) THEN "needs-context"
       ELSE IF @ = "pending" /\ DependenciesFinished(pos) THEN "ready" ELSE @]
  /\ Forward("launch")
  /\ UNCHANGED <<plan, raced, locks, running, evidence, refused>>

Executing == {t \in Tasks : status[t] = "running"}

\* Mutant: a task waits only for all of its files.
LockedThroughout(t) == plan.keys[t] # {} /\ plan.keys[t] \subseteq locks

\* isLocked, and what the loop over `ready` asks.
Locked(t) == plan.keys[t] \cap locks # {}

Launchable(t) == status[t] = "ready" /\ Cardinality(running) < MaxAgents /\ ~Locked(t)

\* runOneTask up to its first await; `ok` is what validateBeforeExecution finds
\* of the required files.
Launch(ok) ==
  /\ at = "launch" /\ Launchable(pos)
  /\ locks' = locks \cup plan.keys[pos]
  /\ running' = running \cup {pos}
  /\ IF ok /\ ~plan.approval[pos]
     THEN /\ status' = [status EXCEPT ![pos] = "running"]
          /\ shared' = IF Executing = {} THEN shared ELSE shared \cup Executing \cup {pos}
          /\ UNCHANGED refused
     ELSE /\ status' = [status EXCEPT ![pos] =
               IF plan.approval[pos] THEN "waiting-approval" ELSE "needs-context"]
          /\ refused' = refused \cup {pos}
          /\ UNCHANGED shared
  /\ Forward("settle")
  /\ UNCHANGED <<plan, raced, diff, own, credited>>

SkipLaunch ==
  /\ at = "launch" /\ ~Launchable(pos)
  /\ Forward("settle")
  /\ UNCHANGED <<plan, status, raced, locks, running, evidence, refused>>

\* Nothing runs: the rest of the plan is given up.
GiveUp ==
  /\ at = "settle" /\ running = {}
  /\ status' = [t \in Tasks |-> IF status[t] \in {"pending", "ready"}
                                THEN "needs-context" ELSE status[t]]
  /\ at' = "returned"
  /\ UNCHANGED <<plan, pos, raced, locks, running, evidence, refused>>

Race ==
  /\ at = "settle" /\ running # {}
  /\ at' = "race" /\ raced' = running
  /\ UNCHANGED <<plan, status, pos, locks, running, evidence, refused>>

Wake ==
  /\ at = "race" /\ ~(raced \subseteq running)
  /\ at' = "mark" /\ raced' = {}
  /\ UNCHANGED <<plan, status, pos, locks, running, evidence, refused>>

-----------------------------------------------------------------------------
\* The agent that executes task t changes a file.
Change(t, f) ==
  /\ at = "race" /\ status[t] = "running"
  /\ own' = [own EXCEPT ![t] = @ \cup {f}]
  /\ diff' = [u \in Tasks |-> IF u \in Executing THEN diff[u] \cup {f} ELSE diff[u]]
  /\ UNCHANGED <<plan, status, scheduler, locks, running, shared, credited, refused>>

\* actualChangedFiles of runOneTask: what the snapshots show, and what
\* executeTask says it observed.
ChangedFiles(t, observed) == diff[t] \cup observed

\* Mutant: one claim that holds supports the others.
SupportedInPart(changed, claimed, silent) ==
  plan.strict => (claimed = {} \/ claimed \cap changed # {}) /\ (silent => changed # {})

\* validateAfterExecution: a strict run refuses a claim of a file that is not
\* among the changed ones, and a task that shows nothing at all: no change
\* and, when silent, no output and no command.
Supported(changed, claimed, silent) ==
  plan.strict => claimed \subseteq changed /\ (silent => changed # {})

\* executeTask settles, and runOneTask goes on to its end.  The snapshots are
\* forgotten, but not whether the task took credit for another's change.
Finish(t, ok, observed, claimed, silent) ==
  LET accepted == ok /\ Supported(ChangedFiles(t, observed), claimed, silent) IN
  /\ at = "race" /\ status[t] = "running"
  /\ status' = [status EXCEPT ![t] = IF accepted THEN "finished" ELSE "failed"]
  /\ credited' = IF accepted /\ ~(claimed \subseteq own[t] \cup observed)
                  THEN credited \cup {t} ELSE credited
  /\ diff' = [diff EXCEPT ![t] = {}]
  /\ own' = [own EXCEPT ![t] = {}]
  /\ UNCHANGED <<plan, scheduler, locks, running, shared, refused>>

\* Mutant: a task that failed keeps its files.
SettleFinished(t) ==
  /\ at = "race" /\ t \in running /\ status[t] # "running"
  /\ locks' = IF status[t] = "finished" THEN locks \ plan.keys[t] ELSE locks
  /\ running' = running \ {t}
  /\ UNCHANGED <<plan, status, scheduler, evidence, refused>>

\* Mutant: the promise stays in `running`.
SettleLocks(t) ==
  /\ at = "race" /\ t \in running /\ status[t] # "running"
  /\ locks' = locks \ plan.keys[t]
  /\ UNCHANGED <<plan, status, scheduler, running, evidence, refused>>

\* The finally handler of a task that is over.
Settle(t) ==
  /\ at = "race" /\ t \in running /\ status[t] # "running"
  /\ locks' = locks \ plan.keys[t]
  /\ running' = running \ {t}
  /\ UNCHANGED <<plan, status, scheduler, evidence, refused>>

Ends(t) ==
  \E ok, silent \in BOOLEAN : \E observed, claimed \in SUBSET Files :
    Finish(t, ok, observed, claimed, silent)

Scheduler ==
  Mark \/ (\E ok \in BOOLEAN : Launch(ok)) \/ SkipLaunch \/ GiveUp \/ Race \/ Wake

Next ==
  \/ Scheduler
  \/ \E t \in Tasks : Ends(t) \/ Settle(t) \/ \E f \in Files : Change(t, f)

Spec == Init /\ [][Next]_vars

\* The scheduler and the promise handlers run, and every execution ends.
Fairness ==
  /\ WF_vars(Scheduler)
  /\ \A t \in Tasks : WF_vars(Settle(t)) /\ WF_vars(Ends(t))

FairSpec == Spec /\ Fairness

-----------------------------------------------------------------------------
\* Type invariant.
TypeOK ==
  /\ plan \in Plan
  /\ status \in [Tasks -> Statuses]
  /\ at \in {"mark", "launch", "settle", "race", "returned"}
  /\ pos \in Tasks
  /\ locks \subseteq Files
  /\ {diff, own} \subseteq [Tasks -> SUBSET Files]
  /\ UNION {running, raced, shared, credited, refused} \subseteq Tasks

\* Tasks that name a common file never run at the same time, whichever of them
\* the locks of an earlier one held back, for as long as anybody runs.
FilesAreSerialized ==
  \A t, u \in Executing : t # u => plan.keys[t] \cap plan.keys[u] = {}

\* A task starts only when all it depends on has finished, and what has
\* finished is never taken back.
DependenciesComeFirst ==
  \A t \in Tasks : status[t] \in {"ready", "running", "finished", "failed"} =>
    \A d \in plan.deps[t] : status[d] = "finished"

\* When the run returns nothing is left open or locked, and a task of the plan
\* was given up only because it was turned down or a dependency did not finish:
\* never because a file was busy or all agents were.
NothingIsGivenUpForNothing ==
  at = "returned" =>
    /\ locks = {} /\ running = {}
    /\ \A t \in Tasks :
         /\ status[t] \notin Open
         /\ t \in Runnable(plan) /\ status[t] = "needs-context" /\ t \notin refused =>
              \E d \in plan.deps[t] : status[d] # "finished"

\* Strict verification credits a task that ran alone with changes that it made
\* itself, or that its own executeTask reports as observed, and with no others:
\* only a task that ran beside another can finish on a change of the other's.
LoneClaimsAreSupported ==
  plan.strict => credited \subseteq shared

\* A task runs once: what is over is over.
TasksRunOnce ==
  [][\A t \in Tasks : status[t] \notin Open => status'[t] = status[t]]_vars

\* The run returns.
RunReturns == <>(at = "returned")
=============================================================================
