---------------------------- MODULE MCPromptPlan ----------------------------
(* Instances of PromptPlan for TLC.                                        *)
EXTENDS PromptPlan

CONSTANTS f, g

\* Three tasks, each on its own or after the one before it, as decomposePrompt
\* makes them; the fan and the dependency on a later task are plans that only
\* other callers of the exported function (the tests) can make.
Deps == {<<{}, {}, {}>>, <<{}, {1}, {}>>, <<{}, {1}, {2}>>,
         <<{}, {}, {1, 2}>>, <<{}, {3}, {}>>, <<{2}, {3}, {}>>}

\* Files apart, shared by two tasks or by all.
Keys == {<<{f}, {g}, {}>>, <<{f}, {f}, {g}>>, <<{f}, {f, g}, {g}>>}

\* The tasks that the planner holds back, and those that need an approval
\* without having been held back (as in test/promptPlanning.test.ts:182).
Held == {{}, {2}}
Unapproved == {{}, {1}}

Beginning(deps, held) ==
  [t \in Tasks |-> IF t \in held THEN "needs-context"
                   ELSE IF deps[t] = {} THEN "ready" ELSE "pending"]

AllPlans ==
  {[deps |-> deps, keys |-> keys, status |-> Beginning(deps, held),
    approval |-> [t \in Tasks |-> t \in unapproved],
    parallel |-> agents > 1, maxAgents |-> agents, strict |-> strict] :
     deps \in Deps, keys \in Keys, held \in Held, unapproved \in Unapproved,
     agents \in 1..3, strict \in BOOLEAN}
=============================================================================
