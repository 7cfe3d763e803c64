----------------------------- MODULE MCTaskList -----------------------------
(* Instances of TaskList for TLC: who may do what, and what is on disk.    *)
EXTENDS TaskList, TLC

CONSTANTS a, b, c

Empty == [i \in Ids |-> Absent]
One == [Empty EXCEPT ![1] = NewTask]
Two == [i \in Ids |-> IF i <= 2 THEN NewTask ELSE Absent]
\* Task 1 blocks task 2.
Chain == [i \in Ids |-> CASE i = 1 -> [NewTask EXCEPT !.blocks = {2}]
                          [] i = 2 -> [NewTask EXCEPT !.blockedBy = {1}]
                          [] OTHER -> Absent]

Each(roles, files) == {[can |-> role, file |-> files] : role \in roles}

\* Creating while others reset, claim, or crash; then two claimants.
StartsEmpty ==
  Each({a :> {"create", "reset", "crash"} @@ b :> {"create"} @@ c :> {"reset", "timeout"},
        a :> {"create", "claim"} @@ b :> {"claim", "reset"} @@ c :> {}}, Empty)

\* Two claimants, one of which may die, the other reset; then beside edits;
\* then two that claim with the busy check, one of which gives tasks back.
StartsTwo ==
  Each({a :> {"claim", "crash"} @@ b :> {"claim", "reset"} @@ c :> {},
        a :> {"claim", "release", "block"} @@ b :> {"claim", "finish"} @@ c :> {},
        a :> {"claimBusy", "release"} @@ b :> {"claimBusy"} @@ c :> {"reset"}}, Two)

\* Completing a task while another agent gives it away, no claims.
StartsOne ==
  Each({a :> {"assign"} @@ b :> {"finish"} @@ c :> {}}, One)

StartsSafe == StartsEmpty \cup StartsTwo \cup StartsOne

\* Every operation that waits for a lock, with retries that may run out; the
\* owner and status edits of TaskUpdateTool on a list of one task.
StartsLive ==
  Each({a :> {"delete", "crash", "timeout"} @@ b :> {"claimBusy", "unassign", "timeout"},
        a :> {"claim", "crash", "timeout"} @@ b :> {"claimBusy", "block", "timeout"},
        a :> {"claim", "start", "timeout"} @@ b :> {"claimBusy", "timeout"}}, Chain) \cup
  Each({a :> {"assign", "timeout"} @@ b :> {"claimBusy", "setOpen", "timeout"}}, One)
=============================================================================
