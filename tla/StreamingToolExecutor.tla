------------------------ MODULE StreamingToolExecutor ------------------------
(***************************************************************************)
(* src/src/services/tools/StreamingToolExecutor.ts: runs the tool calls of *)
(* one model response while the response is still arriving, and the part   *)
(* of src/src/query.ts that feeds it and takes its results.                *)
(*                                                                         *)
(* One JavaScript thread: what runs between two awaits is one step.        *)
(* Continuations of promises (the suspended processQueue calls in `loops`, *)
(* the drain) go before anything that comes from outside: a tool that      *)
(* waits for a process or a file ends only when no continuation is left    *)
(* (Quiet).                                                                *)
(***************************************************************************)
EXTENDS Naturals, Sequences, FiniteSets

CONSTANTS Kinds,       \* the kinds of tool calls a response may hold
          MaxTools,    \* bound: calls in one response
          MaxRetries,  \* bound: streaming fallbacks
          Cap          \* UR_MAX_CONCURRENT_TOOLS

\* safe: isConcurrencySafe; slow: it waits for the outside; talks: it reports
\* progress; cancellable: its interruptBehavior is 'cancel'; modifies: its
\* result has a contextModifier.
Kind == [safe: BOOLEAN, bash: BOOLEAN, known: BOOLEAN, slow: BOOLEAN,
         talks: BOOLEAN, cancellable: BOOLEAN, modifies: BOOLEAN]

ASSUME ConstantsAssumption ==
  /\ Kinds \subseteq Kind
  /\ MaxTools \in Nat /\ MaxRetries \in Nat
  /\ Cap \in 1..32

VARIABLES tools,       \* this.tools
          hasErrored,  \* this.hasErrored: a Bash call failed
          aborted,     \* the query's abort signal, with its reason
          loops,       \* where suspended processQueue calls go on
          draining,    \* the response is over, getRemainingResults runs
          at,          \* where the query loop stands
          pos,         \* its index into tools
          waits,       \* the calls whose promises it races
          context,     \* the calls whose modifiers toolUseContext went through
          seen,        \* the same for the context query.ts goes on with
          emitted,     \* the calls whose results were yielded, in order
          orphans,     \* calls of discarded executors that still run
          retries      \* streaming fallbacks so far

queue == <<tools, hasErrored, loops>>
caller == <<draining, at, pos, waits>>
history == <<context, seen, emitted>>
retry == <<orphans, retries>>
vars == <<queue, aborted, caller, history, retry>>

Init ==
  /\ tools = <<>> /\ hasErrored = FALSE /\ loops = {}
  /\ aborted = "no"
  /\ draining = FALSE /\ at = "stream" /\ pos = 1 /\ waits = {}
  /\ context = <<>> /\ seen = <<>> /\ emitted = <<>>
  /\ orphans = {} /\ retries = 0

First(S) == CHOOSE i \in S : \A j \in S : i <= j
With(ts, status) == {i \in DOMAIN ts : ts[i].status = status}
Executing == With(tools, "executing")

\* The query loop is in the middle of synchronous code.
Sync == at \in {"added", "collect"}
Woken == \/ \E i \in waits : i \notin Executing
         \/ \E i \in DOMAIN tools : tools[i].prog
\* No continuation is left to run.
Quiet == /\ loops = {}
         /\ at \in {"stream", "emit", "done"} \/ (at = "wait" /\ ~Woken)

-----------------------------------------------------------------------------
\* Mutant: only the new call is asked whether it is safe.
CanExecuteSafe(ts, safe) ==
  \/ With(ts, "executing") = {}
  \/ safe /\ Cardinality(With(ts, "executing")) < Cap

\* canExecuteTool
CanExecute(ts, safe) ==
  \/ With(ts, "executing") = {}
  \/ /\ safe
     /\ \A i \in With(ts, "executing") : ts[i].kind.safe
     /\ Cardinality(With(ts, "executing")) < Cap

\* Mutant: a call that cannot start is passed over.
StartableAnywhere(ts, p) ==
  {k \in With(ts, "queued") : k >= p /\ CanExecute(ts, ts[k].kind.safe)}

\* The calls that a pass of processQueue from p on may start: an exclusive
\* call that cannot start ends the pass.
Startable(ts, p) ==
  {k \in With(ts, "queued") :
     /\ k >= p /\ CanExecute(ts, ts[k].kind.safe)
     /\ \A j \in With(ts, "queued") : p <= j /\ j < k =>
          ts[j].kind.safe \/ CanExecute(ts, ts[j].kind.safe)}

\* Mutant: the reason of the signal is the reason of the cancellation.
AbortReasonRaw(kind) ==
  IF hasErrored THEN "sibling_error"
  ELSE IF aborted = "abort" \/ (aborted = "interrupt" /\ kind.cancellable) THEN aborted ELSE "none"

\* Mutant: the failure of a sibling does not count.
AbortReasonOfUser(kind) ==
  IF aborted = "abort" \/ (aborted = "interrupt" /\ kind.cancellable)
  THEN "user_interrupted" ELSE "none"

\* getAbortReason, of an executor that is not discarded
AbortReason(kind) ==
  IF hasErrored THEN "sibling_error"
  ELSE IF aborted = "abort" \/ (aborted = "interrupt" /\ kind.cancellable)
       THEN "user_interrupted" ELSE "none"

\* executeTool up to its first await.  A call whose turn comes after an abort
\* ends at once, and its end starts another pass.
Execute(ts, k, pending) ==
  LET reason == AbortReason(ts[k].kind) IN
  IF reason = "none"
  THEN tools' = [ts EXCEPT ![k].status = "executing"] /\ loops' = pending
  ELSE /\ tools' = [ts EXCEPT ![k].status = "completed", ![k].answer = reason]
       /\ loops' = pending \cup {1}

\* A suspended processQueue goes on, and is suspended after every call it starts.
RunLoop(p) ==
  /\ ~Sync /\ p \in loops
  /\ IF Startable(tools, p) = {}
     THEN loops' = loops \ {p} /\ UNCHANGED tools
     ELSE LET k == First(Startable(tools, p)) IN
          Execute(tools, k, (loops \ {p}) \cup {k + 1})
  /\ UNCHANGED <<hasErrored, aborted, caller, history, retry>>

-----------------------------------------------------------------------------
\* A call to a tool that does not exist is answered at once.
NewCall(kind) ==
  [kind |-> kind, status |-> IF kind.known THEN "queued" ELSE "completed",
   answer |-> IF kind.known THEN "none" ELSE "error", prog |-> FALSE]

\* query.ts adds a call of the response; addTool starts a pass, which reaches
\* its first await before addTool returns.
AddTool(kind) ==
  /\ at \in {"stream", "added"} /\ ~draining /\ aborted = "no"
  /\ Len(tools) < MaxTools
  /\ LET ts == Append(tools, NewCall(kind))
         startable == Startable(ts, 1) IN
     IF kind.known /\ startable # {}
     THEN Execute(ts, First(startable), loops \cup {First(startable) + 1})
     ELSE tools' = ts /\ UNCHANGED loops
  /\ at' = "added"
  /\ UNCHANGED <<hasErrored, aborted, draining, pos, waits, history, retry>>

\* After every message of the response query.ts takes what is completed.
TakeResults ==
  /\ at \in {"stream", "added"} /\ ~draining
  /\ at' = IF aborted = "no" THEN "collect" ELSE "stream"
  /\ pos' = 1
  /\ UNCHANGED <<queue, aborted, draining, waits, history, retry>>

StreamEnds ==
  /\ at = "stream" /\ ~draining
  /\ draining' = TRUE /\ at' = "loop"
  /\ UNCHANGED <<queue, aborted, pos, waits, history, retry>>

\* A streaming fallback discards the executor: calls that have not started
\* never will, those that have go on unseen beside a fresh executor.
Discard ==
  /\ at = "stream" /\ ~draining /\ retries < MaxRetries
  /\ retries' = retries + 1
  /\ orphans' = orphans \cup {[kind |-> tools[i].kind, id |-> <<retries, i>>] : i \in Executing}
  /\ tools' = <<>> /\ hasErrored' = FALSE /\ loops' = {}
  /\ context' = <<>> /\ seen' = <<>> /\ emitted' = <<>>
  /\ UNCHANGED <<aborted, caller>>

OrphanEnds(o) ==
  /\ o \in orphans /\ Quiet
  /\ orphans' = orphans \ {o}
  /\ UNCHANGED <<queue, aborted, caller, history, retries>>

-----------------------------------------------------------------------------
\* getCompletedResults: the calls from pos on that have something to yield; an
\* exclusive call that executes hides those behind it.
HasNews(i) == tools[i].prog \/ tools[i].status = "completed"
Yieldable ==
  {i \in DOMAIN tools : /\ i >= pos /\ HasNews(i)
                        /\ \A j \in Executing : pos <= j /\ j < i => tools[j].kind.safe}

\* It yields the progress of a call, then its results; the caller may take its
\* time with what it gets (at = "emit").
Emit ==
  /\ at = "collect" /\ Yieldable # {}
  /\ LET i == First(Yieldable) IN
     IF tools[i].prog
     THEN /\ tools' = [tools EXCEPT ![i].prog = FALSE]
          /\ pos' = i
          /\ UNCHANGED emitted
     ELSE /\ tools' = [tools EXCEPT ![i].status = "yielded"]
          /\ pos' = i + 1
          /\ emitted' = Append(emitted, i)
  /\ seen' = IF draining THEN context ELSE seen
  /\ at' = "emit"
  /\ UNCHANGED <<hasErrored, loops, aborted, draining, waits, context, retry>>

Emitted ==
  /\ at = "emit"
  /\ at' = "collect"
  /\ UNCHANGED <<queue, aborted, draining, pos, waits, history, retry>>

\* Mutant: it waits as long as anything is unfinished.
ShouldWaitAlways == \E i \in DOMAIN tools : tools[i].status # "yielded"

\* getRemainingResults waits when calls execute and nothing is there to yield.
ShouldWait == Executing # {} /\ \A i \in DOMAIN tools : ~HasNews(i)

Collected ==
  /\ at = "collect" /\ Yieldable = {}
  /\ at' = IF ~draining THEN "stream" ELSE IF ShouldWait THEN "wait" ELSE "loop"
  /\ waits' = IF draining /\ ShouldWait THEN Executing ELSE {}
  /\ UNCHANGED <<queue, aborted, draining, pos, history, retry>>

Wake ==
  /\ at = "wait" /\ Woken
  /\ at' = "loop" /\ waits' = {}
  /\ UNCHANGED <<queue, aborted, draining, pos, history, retry>>

\* hasUnfinishedTools
Finished(ts) == \A i \in DOMAIN ts : ts[i].status = "yielded"

\* The head of getRemainingResults' loop, up to the first await of its own pass.
DrainStep(p) ==
  IF Startable(tools, p) = {}
  THEN at' = "passed" /\ pos' = 1 /\ UNCHANGED <<tools, loops>>
  ELSE LET k == First(Startable(tools, p)) IN
       /\ Execute(tools, k, loops)
       /\ at' = "pass" /\ pos' = k + 1

DrainLoop ==
  /\ at = "loop"
  /\ IF Finished(tools) THEN at' = "done" /\ UNCHANGED <<tools, loops, pos>> ELSE DrainStep(1)
  /\ UNCHANGED <<hasErrored, aborted, draining, waits, history, retry>>

DrainPass ==
  /\ at = "pass"
  /\ DrainStep(pos)
  /\ UNCHANGED <<hasErrored, aborted, draining, waits, history, retry>>

DrainCollect ==
  /\ at = "passed"
  /\ at' = "collect"
  /\ UNCHANGED <<queue, aborted, draining, pos, waits, history, retry>>

-----------------------------------------------------------------------------
\* What comes out of runToolUse.  A call that does not wait for the outside
\* ends among the continuations.
MayUpdate(i) ==
  /\ i \in Executing /\ ~Sync
  /\ tools[i].kind.slow => Quiet

\* The first update after an abort is replaced by a synthetic error.
Cancelled(i) ==
  LET reason == AbortReason(tools[i].kind) IN
  /\ MayUpdate(i) /\ reason # "none"
  /\ tools' = [tools EXCEPT ![i].status = "completed", ![i].answer = reason]
  /\ loops' = loops \cup {1}
  /\ UNCHANGED <<hasErrored, aborted, caller, history, retry>>

Progress(i) ==
  /\ MayUpdate(i) /\ AbortReason(tools[i].kind) = "none"
  /\ tools[i].kind.talks /\ ~tools[i].prog
  /\ tools' = [tools EXCEPT ![i].prog = TRUE]
  /\ UNCHANGED <<hasErrored, loops, aborted, caller, history, retry>>

\* Mutant: the error of any call cancels its siblings.
AnsweredStrictly(i, answer) ==
  LET kind == tools[i].kind IN
  /\ MayUpdate(i) /\ AbortReason(kind) = "none"
  /\ kind.slow \/ answer = "error"
  /\ tools' = [tools EXCEPT ![i].status = "completed", ![i].answer = answer]
  /\ hasErrored' = (hasErrored \/ answer = "error")
  /\ loops' = loops \cup {1}
  /\ context' = IF ~kind.safe /\ kind.modifies /\ answer = "ok"
                THEN Append(context, i) ELSE context
  /\ UNCHANGED <<aborted, caller, seen, emitted, retry>>

\* An error of a Bash call cancels its siblings; the modifiers of an exclusive
\* call change toolUseContext.
Answered(i, answer) ==
  LET kind == tools[i].kind IN
  /\ MayUpdate(i) /\ AbortReason(kind) = "none"
  /\ kind.slow \/ answer = "error"
  /\ tools' = [tools EXCEPT ![i].status = "completed", ![i].answer = answer]
  /\ hasErrored' = (hasErrored \/ (kind.bash /\ answer = "error"))
  /\ loops' = loops \cup {1}
  /\ context' = IF ~kind.safe /\ kind.modifies /\ answer = "ok"
                THEN Append(context, i) ELSE context
  /\ UNCHANGED <<aborted, caller, seen, emitted, retry>>

\* The user interrupts or aborts, or a permission dialog does.
Abort(reason) ==
  /\ Quiet /\ at # "done" /\ aborted = "no" /\ reason \in {"interrupt", "abort"}
  /\ aborted' = reason
  /\ UNCHANGED <<queue, caller, history, retry>>

-----------------------------------------------------------------------------
ToolEnds(i) == Cancelled(i) \/ \E answer \in {"ok", "error"} : Answered(i, answer)
Caller == Emit \/ Emitted \/ Collected \/ Wake \/ DrainLoop \/ DrainPass \/ DrainCollect
Positions == 1..(MaxTools + 1)

Next ==
  \/ \E kind \in Kinds : AddTool(kind)
  \/ TakeResults \/ StreamEnds \/ Discard
  \/ \E o \in orphans : OrphanEnds(o)
  \/ \E p \in Positions : RunLoop(p)
  \/ Caller
  \/ \E i \in 1..MaxTools : ToolEnds(i) \/ Progress(i)
  \/ \E reason \in {"interrupt", "abort"} : Abort(reason)

Spec == Init /\ [][Next]_vars

\* Continuations run, the caller takes what it is given, and the end of a tool
\* is handled when the event loop has come to a rest often enough.
Fairness ==
  /\ \A p \in Positions : WF_vars(RunLoop(p))
  /\ WF_vars(Caller)
  /\ \A i \in 1..MaxTools : SF_vars(ToolEnds(i))

FairSpec == Spec /\ Fairness

-----------------------------------------------------------------------------
Statuses == {"queued", "executing", "completed", "yielded"}
Answers == {"none", "ok", "error", "sibling_error", "user_interrupted"}
Tracked == [kind: Kinds, status: Statuses, answer: Answers, prog: BOOLEAN]

\* Type invariant.
TypeOK ==
  /\ tools \in Seq(Tracked) /\ Len(tools) <= MaxTools
  /\ hasErrored \in BOOLEAN
  /\ aborted \in {"no", "interrupt", "abort"}
  /\ loops \subseteq Positions
  /\ draining \in BOOLEAN
  /\ at \in {"stream", "added", "collect", "emit", "loop", "pass", "passed", "wait", "done"}
  /\ pos \in Positions
  /\ waits \subseteq 1..MaxTools
  /\ \A s \in {context, seen, emitted} : s \in Seq(1..MaxTools)
  /\ orphans \subseteq [kind: Kinds, id: (0..MaxRetries) \X (1..MaxTools)]
  /\ retries \in 0..MaxRetries

\* An exclusive call executes alone, and never more than Cap calls execute.
ExclusiveAccess ==
  /\ Cardinality(Executing) <= Cap
  /\ \A i, j \in Executing : i # j => tools[i].kind.safe

\* Calls start in the order of the response: a call that an earlier one keeps
\* waiting keeps waiting all that follow, whichever pass of the queue looks.
StartsInOrder ==
  \A i, j \in DOMAIN tools :
    i < j /\ tools[j].kind.known /\ tools[i].status = "queued" => tools[j].status = "queued"

\* However slowly the caller takes the results, nothing overtakes those of an
\* exclusive call but the answer to a missing tool and what is found behind
\* that answer.
ExclusiveResultsInOrder ==
  \A m, n \in DOMAIN emitted : m < n /\ emitted[m] > emitted[n] =>
    \/ tools[emitted[n]].kind.safe
    \/ \E l \in 1..m : /\ emitted[n] < emitted[l] /\ emitted[l] <= emitted[m]
                       /\ ~tools[emitted[l]].kind.known

\* When the drain is over every call has been answered, once.
AllAnsweredOnce ==
  at = "done" => /\ Len(emitted) = Len(tools)
                 /\ \A i \in DOMAIN tools : tools[i].answer # "none" /\ \E n \in DOMAIN emitted : emitted[n] = i

\* A call is cancelled as a sibling only when a Bash call has failed, and
\* that call keeps its own error.
SiblingErrorsHaveACause ==
  (\E i \in DOMAIN tools : tools[i].answer = "sibling_error")
    => \E i \in DOMAIN tools : tools[i].kind.bash /\ tools[i].answer = "error"

\* After a Bash call has failed no call that had not started does any work.
NothingStartsAfterAnError ==
  [][hasErrored /\ hasErrored' => Executing' \subseteq Executing]_vars

\* Context modifiers are applied in the order of the calls, each once.
ModifiersInOrder ==
  /\ \A m, n \in DOMAIN context : m < n => context[m] < context[n]
  /\ \A i \in DOMAIN tools : tools[i].kind.modifies /\ ~tools[i].kind.safe =>
       (tools[i].answer = "ok" <=> \E n \in DOMAIN context : context[n] = i)

\* What the executor hands over is sound, whatever fails or is cancelled: the
\* answers come once each, exclusive ones in order, sibling errors with a
\* cause, and the context has been through the modifiers of exactly the calls
\* that succeeded, in their order.
AnswersAreSound ==
  ExclusiveResultsInOrder /\ AllAnsweredOnce /\ SiblingErrorsHaveACause /\ ModifiersInOrder

\* Once the response is over, all its calls are answered and the turn goes on.
DrainEnds == draining ~> at = "done"
=============================================================================
