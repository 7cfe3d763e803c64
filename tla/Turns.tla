------------------------------- MODULE Turns --------------------------------
(***************************************************************************)
(* How a session of the terminal turns commands into queries: submitting   *)
(* (src/src/utils/handlePromptSubmit.ts), the queue and its processor      *)
(* (hooks/useQueueProcessor.ts), the query handler, cancelling and sending *)
(* to the background (screens/REPL.tsx, hooks/useCancelRequest.ts), and    *)
(* the drain of the queue in the middle of a query (query.ts).             *)
(*                                                                         *)
(* A turn is one call of executeUserInput, or of onQuery for a message of  *)
(* a teammate.  Its awaits cut it into steps: "input" is processUserInput, *)
(* "query" is onQuery once tryStart let it in.  A turn lives on after the  *)
(* user cancelled it, until what it awaits returns.                        *)
(***************************************************************************)
EXTENDS QueryGuard, CommandQueue, FiniteSetsExt

CONSTANTS
  Commands,     \* what can be submitted, announced or sent, once each
  Casts,        \* sets of commands: one of them is what a run is about
  Mode,         \* [Commands -> Modes]
  Prio,         \* [Commands -> 0..2]
  ForSubagent,  \* the commands addressed to a subagent
  Teammates,    \* the commands that are messages of teammates
  Follow,       \* [Commands -> Commands \cup {None}]: the nextInput of a slash command
  MaxTurns,     \* turns alive at once
  MaxCancels,   \* interruptions by the user
  None

ASSUME CommandsAssumption ==
  /\ Mode \in [Commands -> Modes] /\ Prio \in [Commands -> 0..2]
  /\ ForSubagent \subseteq Commands /\ Teammates \subseteq Commands
  /\ Follow \in [Commands -> Commands \cup {None}] /\ None \notin Commands \cup 1..MaxTurns
  /\ Casts \subseteq SUBSET Commands
  /\ MaxTurns \in Nat \ {0} /\ MaxCancels \in Nat

(* A command is one submission: what a slash command wants submitted next   *)
(* is a command of its own, and neither a note nor a teammate's message.    *)
ASSUME FollowAssumption ==
  /\ \A c, d \in Commands : Follow[c] = Follow[d] => c = d \/ Follow[c] = None
  /\ \A c \in Commands : \A d \in Teammates \cup {n \in Commands : Mode[n] = "note"} : Follow[c] # d

VARIABLES
  queue,        \* commandQueue
  turns,        \* the calls that have not returned, by slot
  controller,   \* the REPL's abortController: the turn it belongs to, or None
  holder,       \* the turn that made the reservation (history)
  arrived,      \* the commands submitted, announced or sent, or not in this run
  times,        \* how often a command was put in the queue
  seen,         \* how often a command was handled or became a message
  gone,         \* those popped for editing, cleared, failed, or not in this run
  torn,         \* commands drained by a query that was interrupted, robbed or left (history)
  cancels       \* interruptions so far

commandVars == <<arrived, times, seen, gone>>
vars == <<guardVars, queue, turns, controller, holder, commandVars, torn, cancels>>

Slots == 1..MaxTurns
UserCommands ==
  {c \in Commands : Mode[c] # "note" /\ c \notin Teammates /\ \A d \in Commands : Follow[d] # c}
Notes == {c \in Commands : Mode[c] = "note"}

(* Histories of a turn: it was robbed of its reservation by another turn;  *)
(* an onCancel that did not abort it left it without the guard.            *)
Over == [pc |-> "over", entries |-> <<>>, gen |-> 0, aborted |-> FALSE,
         robbed |-> FALSE, left |-> FALSE, draining |-> FALSE, snap |-> {}]

Init ==
  /\ GuardInit
  /\ queue = <<>> /\ turns = [t \in Slots |-> Over]
  /\ controller = None /\ holder = None
  /\ \E cast \in Casts : arrived = Commands \ cast
  /\ gone = arrived /\ torn = {}
  /\ times = [c \in Commands |-> 0] /\ seen = [c \in Commands |-> 0]
  /\ cancels = 0

Alive(t) == turns[t].pc # "over"
FreeSlots == {t \in Slots : ~Alive(t) /\ controller # t}

Entry(c, mode, prio) ==
  [id |-> c, mode |-> mode, prio |-> prio, sub |-> c \in ForSubagent, n |-> times[c] + 1]
Ids(entries) == {e.id : e \in entries}
Queued == Ids(ToSet(queue))

(* enqueue, enqueuePendingNotification *)
Enqueue(entries) ==
  /\ queue' = queue \o entries
  /\ times' = [c \in Commands |-> IF c \in Ids(ToSet(entries)) THEN times[c] + 1 ELSE times[c]]
  /\ arrived' = arrived \cup Ids(ToSet(entries))

See(ids) == seen' = [c \in Commands |-> IF c \in ids THEN seen[c] + 1 ELSE seen[c]]
Interrupt == cancels < MaxCancels /\ cancels' = cancels + 1

-----------------------------------------------------------------------------
(* What comes in. *)

(* executeUserInput up to its first await: a fresh controller, and the     *)
(* reservation.                                                            *)
Execute(t, entries) ==
  /\ turns' = [turns EXCEPT ![t] = [Over EXCEPT !.pc = "input", !.entries = entries]]
  /\ controller' = t /\ holder' = t
  /\ Reserve

(* abortController.abort of the REPL's controller. *)
Abort == turns' = [turns EXCEPT ![controller].aborted = TRUE]

(* A tool that can be interrupted runs: submitting aborts the turn. *)
InterruptOnSubmit ==
  /\ controller # None /\ turns[controller].pc = "query"
  /\ Abort

(* handlePromptSubmit of what the user typed: queued while the guard is    *)
(* active, executed otherwise.                                             *)
Submit(c) ==
  /\ c \in UserCommands \ arrived
  /\ \/ /\ Active
        /\ Enqueue(<<Entry(c, Mode[c], Prio[c])>>)
        /\ InterruptOnSubmit \/ UNCHANGED turns
        /\ UNCHANGED <<guardVars, controller, holder>>
     \/ /\ ~Active
        /\ FreeSlots # {}
        /\ Execute(Min(FreeSlots), <<Entry(c, Mode[c], Prio[c])>>)
        /\ arrived' = arrived \cup {c}
        /\ UNCHANGED <<queue, times>>
  /\ UNCHANGED <<seen, gone, torn, cancels>>

(* A background task tells of its end. *)
Notify(c) ==
  /\ c \in Notes \ arrived
  /\ Enqueue(<<Entry(c, "note", Prio[c])>>)
  /\ UNCHANGED <<guardVars, turns, controller, holder, seen, gone, torn, cancels>>

(* handleIncomingPrompt: a teammate's message runs only when the guard is  *)
(* idle and no input of the user waits; otherwise it is offered again.     *)
Incoming(c) ==
  /\ c \in Teammates \ arrived
  /\ ~Active
  /\ \A e \in ToSet(queue) : e.mode = "note"
  /\ FreeSlots # {}
  /\ LET t == Min(FreeSlots)
     IN /\ turns' = [turns EXCEPT ![t] = [Over EXCEPT !.pc = "query", !.gen = generation + 1]]
        /\ controller' = t
  /\ TryStart
  /\ arrived' = arrived \cup {c}
  /\ See({c})
  /\ UNCHANGED <<queue, holder, times, gone, torn, cancels>>

(* useQueueProcessor's effect: processQueueIfReady. *)
ProcessQueue ==
  /\ ~Active
  /\ Taken(queue) # <<>>
  /\ FreeSlots # {}
  /\ queue' = Without(queue, ToSet(Taken(queue)))
  /\ Execute(Min(FreeSlots), Taken(queue))
  /\ UNCHANGED <<commandVars, torn, cancels>>

-----------------------------------------------------------------------------
(* The steps of a turn. *)

(* t, by a call of its own, releases or takes over the reservation of      *)
(* another turn.                                                           *)
Robs(t, u) == status = "dispatching" /\ holder = u /\ u # t
Change(t, record) ==
  turns' = [u \in Slots |-> IF u = t THEN record
                            ELSE IF Robs(t, u) THEN [turns[u] EXCEPT !.robbed = TRUE]
                            ELSE turns[u]]
Return(t) == Change(t, [Over EXCEPT !.aborted = turns[t].aborted])
HolderReleased == holder' = IF status = "dispatching" THEN None ELSE holder

(* The command a slash command wants submitted next. *)
FollowUp(t) ==
  LET first == Head(turns[t].entries)
      next == Follow[first.id]
  IN IF turns[t].entries = <<>> \/ first.mode # "slash" \/ next = None THEN <<>>
     ELSE <<Entry(next, Mode[next], 1)>>

(* Mutant: no finally: the reservation stays. *)
InputFailsSilently(t) ==
  /\ turns[t].pc = "input"
  /\ turns' = [turns EXCEPT ![t] = [Over EXCEPT !.aborted = turns[t].aborted]]
  /\ gone' = gone \cup Ids(ToSet(turns[t].entries))
  /\ UNCHANGED <<guardVars, holder, queue, controller, arrived, times, seen, torn, cancels>>

(* processUserInput throws: executeUserInput's finally. *)
InputFails(t) ==
  /\ turns[t].pc = "input"
  /\ CancelReservation
  /\ Return(t) /\ HolderReleased
  /\ gone' = gone \cup Ids(ToSet(turns[t].entries))
  /\ UNCHANGED <<queue, controller, arrived, times, seen, torn, cancels>>

(* No messages came of it (a local slash command): the reservation is      *)
(* released and the controller cleared, whosever they are by now.          *)
InputIsLocal(t) ==
  /\ turns[t].pc = "input" /\ Head(turns[t].entries).mode = "slash"
  /\ CancelReservation
  /\ Return(t) /\ HolderReleased
  /\ controller' = None
  /\ See(Ids(ToSet(turns[t].entries)))
  /\ Enqueue(FollowUp(t))
  /\ UNCHANGED <<gone, torn, cancels>>

(* onQuery lets the turn in: it is running under a new generation. *)
StartQuery(t) ==
  /\ turns[t].pc = "input"
  /\ TryStart
  /\ Change(t, [turns[t] EXCEPT !.pc = "query", !.gen = generation + 1])
  /\ HolderReleased
  /\ See(Ids(ToSet(turns[t].entries)))
  /\ UNCHANGED <<queue, controller, arrived, times, gone, torn, cancels>>

(* onQuery lets it in, and its messages need no answer: it is over without *)
(* another wait.                                                           *)
InputIsShown(t) ==
  /\ turns[t].pc = "input"
  /\ CanStart
  /\ generation' = generation + 1 /\ status' = "idle"
  /\ Return(t) /\ HolderReleased
  /\ controller' = None
  /\ See(Ids(ToSet(turns[t].entries)))
  /\ Enqueue(FollowUp(t))
  /\ UNCHANGED <<gone, torn, cancels>>

(* Mutant: the messages are dropped. *)
InputIsDropped(t) ==
  /\ turns[t].pc = "input" /\ ~CanStart
  /\ Enqueue(FollowUp(t)) /\ Return(t) /\ HolderReleased
  /\ UNCHANGED <<guardVars, controller, seen, gone, torn, cancels>>

(* onQuery finds another query running: the texts go back to the queue, as *)
(* prompts.                                                                *)
InputIsRequeued(t) ==
  /\ turns[t].pc = "input"
  /\ ~CanStart
  /\ LET again == [i \in DOMAIN turns[t].entries |->
                     Entry(turns[t].entries[i].id, "prompt", 1)]
     IN Enqueue(again \o FollowUp(t))
  /\ Return(t) /\ HolderReleased
  /\ UNCHANGED <<guardVars, controller, seen, gone, torn, cancels>>

ProcessInput(t) ==
  InputFails(t) \/ InputIsLocal(t) \/ StartQuery(t) \/ InputIsShown(t) \/ InputIsRequeued(t)

(* query() after the tools of an iteration: what is queued for it is read, *)
(* everything when a Sleep ran.                                            *)
DrainStart(t) ==
  /\ turns[t].pc = "query" /\ ~turns[t].draining /\ ~turns[t].aborted
  /\ \E limit \in {1, 2} :
       /\ Drainable(queue, limit) # {}
       /\ turns' = [turns EXCEPT ![t].draining = TRUE, ![t].snap = Drainable(queue, limit)]
  /\ UNCHANGED <<guardVars, queue, controller, holder, commandVars, torn, cancels>>

Interrupted(t) == turns[t].aborted \/ ~IsCurrent(turns[t].gen)

Bereft(t) == turns[t].robbed \/ turns[t].left

(* Once the attachments are there they are yielded, and the commands       *)
(* removed from the queue, whatever happened in between.                   *)
DrainEnd(t) ==
  /\ turns[t].draining
  /\ LET consumed == Attachable(turns[t].snap)
     IN /\ See(Ids(consumed))
        /\ queue' = Without(queue, consumed)
        /\ torn' = IF Interrupted(t) \/ Bereft(t) THEN torn \cup Ids(consumed) ELSE torn
  /\ turns' = [turns EXCEPT ![t].draining = FALSE]
  /\ UNCHANGED <<guardVars, controller, holder, arrived, times, gone, cancels>>

(* Mutant: the drain is not waited for. *)
FinishAtOnce(t) ==
  /\ turns[t].pc = "query"
  /\ EndAndRelease(turns[t].gen) /\ HolderReleased
  /\ turns' = [turns EXCEPT ![t].pc = "over"]
  /\ controller' = None
  /\ UNCHANGED <<queue, arrived, times, seen, gone, torn, cancels>>

(* The query ends or fails: onQuery's finally, and executeUserInput's.     *)
FinishQuery(t) ==
  /\ turns[t].pc = "query" /\ ~turns[t].draining
  /\ IF turns[t].entries = <<>> THEN End(turns[t].gen) /\ UNCHANGED holder
     ELSE EndAndRelease(turns[t].gen) /\ HolderReleased
  /\ IF turns[t].entries = <<>>
     THEN turns' = [turns EXCEPT ![t] = [Over EXCEPT !.aborted = turns[t].aborted]]
     ELSE Return(t)
  /\ controller' = IF IsCurrent(turns[t].gen) THEN None ELSE controller
  /\ Enqueue(FollowUp(t))
  /\ UNCHANGED <<seen, gone, torn, cancels>>

-----------------------------------------------------------------------------
(* What the user does meanwhile. *)

HasTheGuard(t) ==
  \/ status = "dispatching" /\ holder = t
  \/ status = "running" /\ turns[t].pc = "query" /\ turns[t].gen = generation

(* What onCancel aborts.  Escape, while a controller is there that is not  *)
(* aborted: that one, or, with a permission dialog on the screen, what the *)
(* onAbort of its prompt aborts, which is the turn that asked, and nothing *)
(* when the prompt is a teammate's or has an answer.  The message          *)
(* selector, at any time: the controller, if there is one.                 *)
CanHit(hit) ==
  \/ hit = controller
  \/ /\ controller # None /\ ~turns[controller].aborted
     /\ hit # None => Alive(hit)

(* onCancel: the guard and the controller are free, whatever was aborted.  *)
Cancel ==
  /\ Active \/ controller # None
  /\ Interrupt
  /\ \E hit \in Slots \cup {None} :
       /\ CanHit(hit)
       /\ turns' = [t \in Slots |->
            IF t = hit THEN [turns[t] EXCEPT !.aborted = TRUE]
            ELSE IF HasTheGuard(t) THEN [turns[t] EXCEPT !.left = TRUE] ELSE turns[t]]
  /\ ForceEnd
  /\ controller' = None /\ HolderReleased
  /\ UNCHANGED <<queue, commandVars, torn>>

(* popAllEditable: the queued input goes back to the prompt. *)
PopEditable ==
  /\ Editable(queue) # {}
  /\ Interrupt
  /\ gone' = gone \cup Ids(Editable(queue))
  /\ queue' = Without(queue, Editable(queue))
  /\ UNCHANGED <<guardVars, turns, controller, holder, arrived, times, seen, torn>>

(* Killing the agents: clearCommandQueue, then a note that says so when    *)
(* some were running.                                                      *)
KillAgents ==
  /\ queue # <<>>
  /\ Interrupt
  /\ gone' = gone \cup Queued
  /\ \E note \in {<<>>} \cup {<<Entry(c, "note", 2)>> : c \in Notes \ (arrived \cup ForSubagent)} :
       /\ queue' = note
       /\ times' = [c \in Commands |-> IF c \in Ids(ToSet(note)) THEN times[c] + 1 ELSE times[c]]
       /\ arrived' = arrived \cup Ids(ToSet(note))
  /\ UNCHANGED <<guardVars, turns, controller, holder, seen, torn>>

(* handleBackgroundQuery: the turn is aborted, not ended, and the queued   *)
(* notes go to the background session, unless they are messages already.   *)
Background ==
  /\ Active /\ controller # None
  /\ Interrupt
  /\ Abort
  /\ LET notes == {e \in ToSet(queue) : e.mode = "note"}
     IN /\ queue' = Without(queue, notes)
        /\ See({c \in Ids(notes) : seen[c] = 0})
  /\ UNCHANGED <<guardVars, controller, holder, arrived, times, gone, torn>>

(* A subagent's query drains what is addressed to it. *)
SubagentDrains ==
  \E e \in ToSet(queue) :
    /\ e.sub
    /\ queue' = Without(queue, {e})
    /\ See({e.id})
    /\ UNCHANGED <<guardVars, turns, controller, holder, arrived, times, gone, torn, cancels>>

Turn(t) == ProcessInput(t) \/ DrainEnd(t) \/ FinishQuery(t)
Next ==
  \/ \E c \in Commands : Submit(c) \/ Notify(c) \/ Incoming(c)
  \/ \E t \in Slots : Turn(t) \/ DrainStart(t)
  \/ ProcessQueue \/ Cancel \/ PopEditable \/ KillAgents \/ Background \/ SubagentDrains

Spec == Init /\ [][Next]_vars

(* What a turn awaits returns at last, and React runs its effects. *)
FairSpec ==
  /\ Spec
  /\ WF_vars(ProcessQueue)
  /\ \A t \in Slots : WF_vars(Turn(t))
-----------------------------------------------------------------------------
(* Properties. *)

EntryType == [id : Commands, mode : Modes, prio : 0..2, sub : BOOLEAN, n : Nat]
TurnType == [pc : {"over", "input", "query"}, entries : Seq(EntryType), gen : Nat,
             aborted : BOOLEAN, robbed : BOOLEAN, left : BOOLEAN, draining : BOOLEAN, snap : SUBSET EntryType]
(* Each variable has the values the code gives it. *)
TypeOK ==
  /\ GuardTypeOK
  /\ queue \in Seq(EntryType)
  /\ turns \in [Slots -> TurnType]
  /\ \A t \in Slots :
       /\ turns[t].gen <= generation
       /\ turns[t].draining => turns[t].pc = "query"
  /\ controller \in Slots \cup {None} /\ holder \in Slots \cup {None}
  /\ arrived \cup gone \cup torn \subseteq Commands
  /\ times \in [Commands -> Nat] /\ seen \in [Commands -> Nat]
  /\ cancels \in 0..MaxCancels

(* The guard is never active with nobody left to release it: a reservation *)
(* belongs to a turn that is still at its input, and the current           *)
(* generation to exactly one query (QueryGuard.ts: end, forceEnd;          *)
(* handlePromptSubmit.ts's finally).                                       *)
TheGuardHasATurn ==
  /\ status = "dispatching" => holder # None /\ turns[holder].pc = "input"
  /\ status = "running" =>
       Cardinality({t \in Slots : turns[t].pc = "query" /\ turns[t].gen = generation}) = 1

(* Two turns are at work together only where one of them lost the guard    *)
(* and was not aborted: another turn released or started on its            *)
(* reservation, or onCancel ended the guard and aborted something else.    *)
(* Neither the late end of a cancelled query nor a race between the queue  *)
(* and the keyboard lets a second turn in (QueryGuard.ts: tryStart, end;   *)
(* handlePromptSubmit.ts: the guard is reserved before the first await;    *)
(* REPL.tsx: onCancel).                                                    *)
AtWork == {t \in Slots : Alive(t) /\ ~turns[t].aborted}
TurnsAreExclusive ==
  \A t, u \in AtWork : t # u => Bereft(t) \/ Bereft(u)

(* No command is lost between the queue, the turns and the messages: what  *)
(* arrived is queued, at the input of a turn, handled, or gone: popped for *)
(* editing, cleared, or failed at its input, where the error is shown      *)
(* (onQuery's concurrent path puts texts back; query.ts removes what it    *)
(* attached, and only that).                                               *)
Held == UNION {Ids(ToSet(turns[t].entries)) : t \in {u \in Slots : turns[u].pc = "input"}}
NothingIsLost ==
  \A c \in arrived : c \in Queued \cup Held \cup gone \/ seen[c] > 0

(* A command reaches the conversation once, but for those that a query     *)
(* attached after it was interrupted, or after it lost the guard: the next *)
(* turn takes from the queue what the late drain attaches as well          *)
(* (query.ts reads the queue before its awaits and removes after them).    *)
HandledOnce == \A c \in Commands \ torn : seen[c] <= 1

(* No command that arrives is lost, and none is handled twice. *)
MessagesAreConserved == NothingIsLost /\ HandledOnce

(* What is queued for the main thread does not stay queued, with commands  *)
(* for subagents that nobody takes before it, and with turns that were     *)
(* cancelled and are slow to end (queueProcessor.ts: "any queued user      *)
(* prompt stalls permanently").                                            *)
TheQueueDrains == []<>(\A e \in ToSet(queue) : ~Main(e))

(* The session becomes free again, whatever was cancelled or failed. *)
TheGuardIsFreed == []<>~Active

(* The session moves on: the queue empties and the guard is freed, again   *)
(* and again.                                                              *)
TheSessionMovesOn == TheQueueDrains /\ TheGuardIsFreed

(* "queryGuard guarantees no concurrent executeUserInput call"             *)
(* (handlePromptSubmit.ts, where the controller is made), said of calls    *)
(* that nobody interrupted, and that no onCancel left without the guard.   *)
NoConcurrentExecution ==
  Cardinality({t \in AtWork : ~turns[t].left /\ turns[t].entries # <<>>}) <= 1
=============================================================================
