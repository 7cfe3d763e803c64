-------------------------- MODULE PermissionPrompts --------------------------
(***************************************************************************)
(* A tool call that needs the user's permission: useCanUseTool.tsx and     *)
(* hooks/toolPermission (PermissionContext.ts, interactiveHandler.ts,      *)
(* coordinatorHandler.ts), with the queue of dialogs of screens/REPL.tsx.  *)
(* The dialog, the hooks, the classifier of Bash commands, the web page    *)
(* behind the bridge, a chat channel and a change of the rules race to     *)
(* answer it.                                                              *)
(*                                                                         *)
(* One step for what runs between two awaits.  What the user sees (shown)  *)
(* is the queue's head when React last rendered; what he does goes to the  *)
(* callbacks of that prompt and to the queue as it is by then.             *)
(***************************************************************************)
EXTENDS Naturals, Sequences, Filtering

CONSTANTS
  Prompts,
  Racers,     \* [Prompts -> what may answer a prompt beside the dialog]
  Sub,        \* prompts of subagents: turning one down does not end the turn
  Early,      \* those whose automated checks come before the dialog
  Signal,     \* [Prompts -> abort signals]
  Main,       \* the signal of the turn on the screen
  Alike,      \* [Prompts -> the prompts that its permanent permission allows]
  None

Racer == {"hook", "classifier", "bridge", "channel"}
Remote == {"bridge", "channel"}
Signals == {Signal[p] : p \in Prompts} \cup {Main}

ASSUME PromptsAssumption ==
  /\ Racers \in [Prompts -> SUBSET Racer]
  /\ Early \subseteq Sub /\ Sub \subseteq Prompts
  /\ Alike \in [Prompts -> SUBSET Prompts] /\ \A p \in Prompts : p \in Alike[p]
  /\ None \notin Prompts

VARIABLES
  stage,       \* how far useCanUseTool is with each prompt
  answer,      \* what it resolved to; "tick": allowed by the classifier
  racing,      \* who may still answer beside the dialog
  web,         \* the prompts the web page shows
  queue,       \* toolUseConfirmQueue
  ticking,     \* answered, the dialog kept for a while to show it
  shown,       \* the dialog on the screen: [prompt, ticked], or None
  interacted,  \* userInteracted
  running,     \* the turn on the screen has not been cancelled
  aborted,     \* the signals that are aborted
  rules,       \* the prompts the permission rules allow by now
  due,         \* queued prompts shall be checked again (setImmediate)
  recheck,     \* where recheckPermission stands
  late         \* queued though the rules allowed them already (history)

granted == <<rules, due>>
signals == <<running, aborted>>
vars == <<stage, answer, racing, web, queue, ticking, shown, interacted, signals,
          granted, recheck, late>>

Init ==
  /\ stage = [p \in Prompts |-> "new"] /\ answer = [p \in Prompts |-> "none"]
  /\ racing = [p \in Prompts |-> {}] /\ web = {}
  /\ queue = <<>> /\ ticking = {} /\ shown = None /\ interacted = {}
  /\ running = TRUE /\ aborted = {}
  /\ rules = {} /\ due = FALSE
  /\ recheck = [p \in Prompts |-> "no"]
  /\ late = {}

At(p, s) == stage[p] = s /\ answer[p] = "none"
Open(p) == At(p, "open")
Queued(p) == \E i \in DOMAIN queue : queue[i] = p
Stopped(p) == Signal[p] \in aborted

-----------------------------------------------------------------------------
(* What the decisions have in common. *)

Answer(p, a) == answer' = [answer EXCEPT ![p] = a]

(* claim and resolve; the page of the bridge withdraws the prompt. *)
Claim(p, a) == Answer(p, a) /\ web' = web \ {p}

(* persistPermissions: the queue shall be checked again. *)
Grant(p) == rules' = rules \cup Alike[p] /\ due' = TRUE
GrantIf(cond, p) == IF cond THEN Grant(p) ELSE UNCHANGED granted

(* Mutant: the timers of ticked dialogs end, the dialogs stay. *)
SilencedKept(sigs) == {}

(* The ticked dialogs that an abort takes from the queue. *)
Silenced(sigs) == {p \in ticking : Signal[p] \in sigs}

Without(S) == Dropping(queue, S)

(* The racers `rs` of p are done, and `sigs` are aborted: remote answers of *)
(* their prompts are no longer taken.                                      *)
Ended(p, rs, sigs) ==
  /\ racing' = [q \in Prompts |-> racing[q] \ ((IF q = p THEN rs ELSE {})
                                      \cup (IF Signal[q] \in sigs THEN Remote ELSE {}))]
  /\ aborted' = aborted \cup sigs
  /\ ticking' = {q \in ticking : Signal[q] \notin sigs}

(* cancelAndAbort: an answer without a comment ends the turn of a prompt. *)
Turned(p, comment) == IF comment \/ p \in Sub THEN {} ELSE {Signal[p]}

-----------------------------------------------------------------------------
(* useCanUseTool: the call is checked against the rules. *)
Check(p) ==
  /\ At(p, "new")
  /\ stage' = [stage EXCEPT ![p] = "asked"]
  /\ CASE Stopped(p) -> Answer(p, "abort")
       [] ~Stopped(p) /\ p \in rules -> Answer(p, "allow")
       [] OTHER -> UNCHANGED answer
  /\ UNCHANGED <<racing, web, queue, ticking, shown, interacted, signals, granted, recheck, late>>

(* handleCoordinatorPermission: automated checks that are awaited. *)
Automated(p, a, always, interrupt) ==
  /\ At(p, "asked") /\ p \in Early
  /\ IF a = "allow" THEN Racers[p] \cap {"hook", "classifier"} # {} ELSE "hook" \in Racers[p]
  /\ always => a = "allow" /\ "hook" \in Racers[p]
  /\ interrupt => a = "deny"
  /\ Answer(p, a)
  /\ GrantIf(always, p)
  /\ LET sigs == IF interrupt THEN {Signal[p]} ELSE {} IN
     Ended(p, {}, sigs) /\ queue' = Without(Silenced(sigs))
  /\ UNCHANGED <<stage, web, shown, interacted, running, recheck, late>>

(* A classifier that ran ahead of the dialog. *)
Speculated(p) ==
  /\ At(p, "asked") /\ p \notin Early /\ "classifier" \in Racers[p] /\ ~Stopped(p)
  /\ Answer(p, "allow")
  /\ UNCHANGED <<stage, racing, web, queue, ticking, shown, interacted, signals, granted,
                 recheck, late>>

AskTooLate(p) ==
  /\ At(p, "asked") /\ Stopped(p)
  /\ Answer(p, "abort")
  /\ UNCHANGED <<stage, racing, web, queue, ticking, shown, interacted, signals, granted,
                 recheck, late>>

(* handleInteractivePermission: the dialog is queued and the race starts. *)
Ask(p) ==
  /\ At(p, "asked") /\ ~Stopped(p)
  /\ stage' = [stage EXCEPT ![p] = "open"]
  /\ queue' = Append(queue, p)
  /\ racing' = [racing EXCEPT ![p] = IF p \in Early THEN Racers[p] \cap Remote ELSE Racers[p]]
  /\ web' = IF "bridge" \in Racers[p] THEN web \cup {p} ELSE web
  /\ late' = IF p \in rules /\ ~due THEN late \cup {p} ELSE late
  /\ UNCHANGED <<answer, ticking, shown, interacted, signals, granted, recheck>>

-----------------------------------------------------------------------------
(* The racers. *)

(* runHooks: what a hook permits for good takes effect even when it comes   *)
(* too late to answer,                                                     *)
HookAllows(p, always) ==
  /\ "hook" \in racing[p]
  /\ Ended(p, {"hook"}, {})
  /\ GrantIf(always, p)
  /\ IF Open(p) THEN Claim(p, "allow") /\ queue' = Without({p})
     ELSE UNCHANGED <<answer, web, queue>>
  /\ UNCHANGED <<stage, shown, interacted, running, recheck, late>>

(* and so does its interrupt. *)
HookDenies(p, interrupt) ==
  LET sigs == IF interrupt THEN {Signal[p]} ELSE {} IN
  /\ "hook" \in racing[p]
  /\ Ended(p, {"hook"}, sigs)
  /\ IF Open(p) THEN Claim(p, "deny") /\ queue' = Without({p} \cup Silenced(sigs))
     ELSE queue' = Without(Silenced(sigs)) /\ UNCHANGED <<answer, web>>
  /\ UNCHANGED <<stage, shown, interacted, running, granted, recheck, late>>

(* A hook has nothing to say. *)
HookAbstains(p) ==
  /\ "hook" \in racing[p]
  /\ Ended(p, {"hook"}, {})
  /\ UNCHANGED <<stage, answer, web, queue, shown, interacted, running, granted, recheck, late>>

(* executeAsyncClassifierCheck: not when the user is at the dialog, which   *)
(* stays to show the tick.                                                 *)
ClassifierAllows(p) ==
  /\ "classifier" \in racing[p] /\ Open(p) /\ p \notin interacted
  /\ racing' = [racing EXCEPT ![p] = @ \ {"classifier"}]
  /\ Claim(p, "tick") /\ ticking' = ticking \cup {p}
  /\ UNCHANGED <<stage, queue, shown, interacted, signals, granted, recheck, late>>

(* The timer of a ticked dialog, or Esc before it. *)
TickEnds(p) ==
  /\ p \in ticking
  /\ ticking' = ticking \ {p}
  /\ queue' = Without({p})
  /\ UNCHANGED <<stage, answer, racing, web, shown, interacted, signals, granted, recheck, late>>

(* Mutant: the answer of a channel leaves the page as it is. *)
RemoteAllowsAlone(p, r, always) ==
  /\ r \in racing[p] \cap Remote /\ Open(p)
  /\ always => r = "bridge"
  /\ Ended(p, Remote, {})
  /\ Answer(p, "allow") /\ web' = (IF r = "bridge" THEN web \ {p} ELSE web)
  /\ queue' = Without({p}) /\ GrantIf(always, p)
  /\ UNCHANGED <<stage, shown, interacted, running, recheck, late>>

(* An answer from the web page or from a channel; a late one is ignored. *)
RemoteAllows(p, r, always) ==
  /\ r \in racing[p] \cap Remote /\ Open(p)
  /\ always => r = "bridge"
  /\ Ended(p, Remote, {})
  /\ Claim(p, "allow") /\ queue' = Without({p}) /\ GrantIf(always, p)
  /\ UNCHANGED <<stage, shown, interacted, running, recheck, late>>

RemoteDenies(p, r, comment) ==
  LET sigs == Turned(p, comment) IN
  /\ r \in racing[p] \cap Remote /\ Open(p)
  /\ r = "channel" => comment
  /\ Ended(p, Remote, sigs)
  /\ Claim(p, "deny") /\ queue' = Without({p} \cup Silenced(sigs))
  /\ UNCHANGED <<stage, shown, interacted, running, granted, recheck, late>>

-----------------------------------------------------------------------------
(* A change of the rules. *)

(* The web page changes the permission mode. *)
ModeSwitch ==
  /\ rules # Prompts
  /\ rules' = Prompts /\ due' = TRUE
  /\ UNCHANGED <<stage, answer, racing, web, queue, ticking, shown, interacted, signals,
                 recheck, late>>

(* Mutant: only the dialog on the screen is checked again. *)
RecheckHead ==
  /\ due /\ due' = FALSE
  /\ recheck' = [p \in Prompts |->
       IF queue # <<>> /\ p = Head(queue) /\ Open(p) /\ recheck[p] = "no" THEN "asked" ELSE recheck[p]]
  /\ UNCHANGED <<stage, answer, racing, web, queue, ticking, shown, interacted, signals,
                 rules, late>>

(* recheckPermission of all that is queued by then, *)
RecheckAll ==
  /\ due /\ due' = FALSE
  /\ recheck' = [p \in Prompts |->
       IF Queued(p) /\ Open(p) /\ recheck[p] = "no" THEN "asked" ELSE recheck[p]]
  /\ UNCHANGED <<stage, answer, racing, web, queue, ticking, shown, interacted, signals,
                 rules, late>>

(* where the rules are asked *)
RecheckReads(p) ==
  /\ recheck[p] = "asked"
  /\ recheck' = [recheck EXCEPT ![p] = IF p \in rules THEN "allow" ELSE "no"]
  /\ UNCHANGED <<stage, answer, racing, web, queue, ticking, shown, interacted, signals,
                 granted, late>>

(* and the prompt is claimed. *)
RecheckClaims(p) ==
  /\ recheck[p] = "allow"
  /\ recheck' = [recheck EXCEPT ![p] = "no"]
  /\ IF Open(p) THEN Claim(p, "allow") /\ queue' = Without({p})
     ELSE UNCHANGED <<answer, web, queue>>
  /\ UNCHANGED <<stage, racing, ticking, shown, interacted, signals, granted, late>>

-----------------------------------------------------------------------------
(* The screen and the user. *)

Dialog == IF queue = <<>> THEN None
          ELSE [prompt |-> Head(queue), ticked |-> answer[Head(queue)] = "tick"]

Render ==
  /\ shown # Dialog /\ shown' = Dialog
  /\ UNCHANGED <<stage, answer, racing, web, queue, ticking, interacted, signals, granted,
                 recheck, late>>

(* The options of a ticked dialog are disabled. *)
Offers(p) == shown # None /\ shown.prompt = p /\ ~shown.ticked

(* onUserInteraction: he moves in the dialog. *)
Interact(p) ==
  /\ Offers(p) /\ p \notin interacted
  /\ interacted' = interacted \cup {p}
  /\ UNCHANGED <<stage, answer, racing, web, queue, ticking, shown, signals, granted,
                 recheck, late>>

(* onDone takes the head of the queue, whichever prompt that is by now. *)
Done(q) == IF q = <<>> THEN q ELSE Tail(q)

(* Mutant: a dialog that is shown has not been answered. *)
UserAllowsUnclaimed(p, always) ==
  /\ Offers(p)
  /\ queue' = Done(queue)
  /\ Claim(p, "allow") /\ GrantIf(always, p)
  /\ UNCHANGED <<stage, racing, ticking, shown, interacted, signals, recheck, late>>

(* onAllow and onDone. *)
UserAllows(p, always) ==
  /\ Offers(p)
  /\ queue' = Done(queue)
  /\ IF Open(p) THEN Claim(p, "allow") /\ GrantIf(always, p) ELSE UNCHANGED <<answer, web, granted>>
  /\ UNCHANGED <<stage, racing, ticking, shown, interacted, signals, recheck, late>>

(* onReject and onDone. *)
UserRejects(p, comment) ==
  LET sigs == IF Open(p) THEN Turned(p, comment) ELSE {} IN
  /\ Offers(p)
  /\ queue' = Done(Without(Silenced(sigs)))
  /\ Ended(p, {}, sigs)
  /\ IF Open(p) THEN Claim(p, "deny") ELSE UNCHANGED <<answer, web>>
  /\ UNCHANGED <<stage, shown, interacted, running, granted, recheck, late>>

(* onCancel of the REPL: onAbort for the dialog on the screen, and nothing *)
(* stays queued.                                                           *)
Cancel ==
  LET p == shown.prompt IN
  /\ running /\ running' = FALSE
  /\ queue' = <<>>
  /\ CASE shown = None -> Ended(None, {}, {Main}) /\ UNCHANGED <<answer, web>>
       [] shown # None /\ Open(p) -> Ended(p, {}, {Signal[p]}) /\ Claim(p, "abort")
       [] shown # None /\ ~Open(p) -> UNCHANGED <<racing, aborted, ticking, answer, web>>
  /\ UNCHANGED <<stage, shown, interacted, granted, recheck, late>>

(* A sibling fails, an agent is stopped. *)
AbortElsewhere(sig) ==
  /\ sig \notin aborted
  /\ Ended(None, {}, {sig})
  /\ queue' = Without(Silenced({sig}))
  /\ UNCHANGED <<stage, answer, web, shown, interacted, running, granted, recheck, late>>

-----------------------------------------------------------------------------
UserDecides == \E p \in Prompts, b \in BOOLEAN : UserAllows(p, b) \/ UserRejects(p, b)

Races(p) ==
  \/ \E b \in BOOLEAN : HookAllows(p, b) \/ HookDenies(p, b)
  \/ HookAbstains(p) \/ ClassifierAllows(p)
  \/ \E r \in Remote, b \in BOOLEAN : RemoteAllows(p, r, b) \/ RemoteDenies(p, r, b)

Asking(p) ==
  \/ Check(p) \/ Speculated(p) \/ AskTooLate(p) \/ Ask(p)
  \/ \E a \in {"allow", "deny"}, b, c \in BOOLEAN : Automated(p, a, b, c)

Next ==
  \/ \E p \in Prompts : \/ Asking(p) \/ Races(p) \/ TickEnds(p) \/ Interact(p)
                        \/ RecheckReads(p) \/ RecheckClaims(p)
  \/ ModeSwitch \/ RecheckAll
  \/ Render \/ UserDecides \/ Cancel
  \/ \E sig \in Signals : AbortElsewhere(sig)

Spec == Init /\ [][Next]_vars

(* React renders, timers fire, and the user answers the dialog he sees. *)
Fairness ==
  /\ WF_vars(Render) /\ WF_vars(UserDecides)
  /\ \A p \in Prompts : WF_vars(TickEnds(p))

FairSpec == Spec /\ Fairness

-----------------------------------------------------------------------------
(* Type invariant. *)
TypeOK ==
  /\ stage \in [Prompts -> {"new", "asked", "open"}]
  /\ answer \in [Prompts -> {"none", "allow", "tick", "deny", "abort"}]
  /\ racing \in [Prompts -> SUBSET Racer]
  /\ web \subseteq Prompts
  /\ queue \in Seq(Prompts) /\ \A i, j \in DOMAIN queue : queue[i] = queue[j] => i = j
  /\ ticking \subseteq {p \in Prompts : answer[p] = "tick"}
  /\ shown \in [prompt: Prompts, ticked: BOOLEAN] \cup {None}
  /\ interacted \subseteq Prompts
  /\ running \in BOOLEAN /\ aborted \subseteq Signals
  /\ rules \subseteq Prompts /\ due \in BOOLEAN
  /\ recheck \in [Prompts -> {"no", "asked", "allow"}]
  /\ late \subseteq Prompts

(* A prompt that is answered, by whomever, has gone from the web page and   *)
(* from the queue, where it stays only as long as a timer will remove it.  *)
SurfacesAgree ==
  \A p \in Prompts : answer[p] # "none" => p \notin web /\ (Queued(p) => p \in ticking)

(* setToolPermissionContext: what the user or a hook permits for good, or   *)
(* the web page by a mode, reaches every prompt in the queue; not those     *)
(* queued later that had asked the rules before.                           *)
RulesReachTheQueue ==
  \A p \in rules \ late : Open(p) /\ Queued(p) => due \/ recheck[p] # "no"

(* No prompt starves in the queue behind another, as long as the user       *)
(* answers what he sees.                                                   *)
QueueMovesOn == \A p \in Prompts : Queued(p) ~> ~Queued(p)
=============================================================================
