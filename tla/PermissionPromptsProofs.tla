----------------------- MODULE PermissionPromptsProofs -----------------------
(* Proofs about PermissionPrompts, for every number of prompts, whatever    *)
(* may answer each of them and whichever rules there are.                  *)
EXTENDS PermissionPrompts, FilteringProofs, TLAPS

Answers == {"none", "allow", "tick", "deny", "abort"}

(* A prompt is on the screen's queue and on the web page only once it was   *)
(* asked, and so is the one whose dialog is shown; that one is the first   *)
(* in the queue as long as it is queued.                                   *)
AskedWhenSeen ==
  /\ \A p \in Prompts : Queued(p) \/ p \in web => stage[p] = "open"
  /\ shown # None => stage[shown.prompt] = "open"

First(p) == queue # <<>> /\ Head(queue) = p
ShownIsFirst == shown # None /\ Queued(shown.prompt) => First(shown.prompt)

PromptInv == TypeOK /\ AskedWhenSeen /\ ShownIsFirst /\ SurfacesAgree /\ RulesReachTheQueue

\* The invariant holds at the start.
LEMMA InitPromptInv == Init => PromptInv
<1> SUFFICES ASSUME Init PROVE PromptInv
  OBVIOUS
<1>1. \A p \in Prompts : ~Queued(p)
  BY DEF Init, Queued
<1>2. TypeOK
  <2>1. queue \in Seq(Prompts) /\ \A i, j \in DOMAIN queue : queue[i] = queue[j] => i = j
    BY DEF Init
  <2>2. QED
    BY <2>1 DEF Init, TypeOK, Racer
<1>3. QED
  BY <1>1, <1>2 DEF Init, PromptInv, AskedWhenSeen, ShownIsFirst, SurfacesAgree, RulesReachTheQueue

-----------------------------------------------------------------------------
(* The queue. *)
Line == queue \in Seq(Prompts) /\ Distinct(queue)

(* Some prompts leave it, and the others keep their order. *)
Shrinks ==
  /\ Line'
  /\ \A p \in Prompts : Queued(p)' => Queued(p)
  /\ \A p \in Prompts : First(p) /\ Queued(p)' => First(p)'

\* A queue that stays shrinks (to itself).
LEMMA UnchangedShrinks == Line /\ UNCHANGED queue => Shrinks
  BY DEF Line, Shrinks, Queued, First

\* Taking prompts out of the queue shrinks it, and they are gone.
LEMMA WithoutShrinks ==
  ASSUME Line, NEW S, queue' = Without(S)
  PROVE  Shrinks /\ \A p \in Prompts : Queued(p)' => p \notin S
<1>1. queue \in Seq(Prompts) /\ Distinct(queue) /\ queue' = Dropping(queue, S)
  BY DEF Line, Without
<1>2. queue' \in Seq(Prompts) /\ Distinct(queue')
  BY <1>1, DroppingElements, DroppingDistinct
<1>3. \A p : Queued(p)' <=> p \notin S /\ Queued(p)
  BY <1>1, DroppingElements DEF Queued
<1>4. ASSUME NEW p \in Prompts, First(p), Queued(p)' PROVE First(p)'
  <2>1. p \notin S
    BY <1>3, <1>4
  <2>2. QED
    BY <1>1, <1>4, <2>1, DroppingFirst DEF First
<1>5. QED
  BY <1>2, <1>3, <1>4 DEF Shrinks, Line

(* The head goes as well: onDone. *)
LEMMA DoneShrinks ==
  ASSUME Line, NEW S, queue' = Done(Without(S))
  PROVE  /\ Shrinks
         /\ \A p \in Prompts : Queued(p)' => p \notin S
         /\ \A p \in Prompts : First(p) => ~Queued(p)'
<1> DEFINE w == Without(S)
<1>1. queue \in Seq(Prompts) /\ Distinct(queue) /\ w = Dropping(queue, S)
  BY DEF Line, Without
<1>2. w \in Seq(Prompts) /\ Distinct(w)
  BY <1>1, DroppingElements, DroppingDistinct
<1>3. \A p : (\E i \in DOMAIN w : w[i] = p) <=> p \notin S /\ Queued(p)
  BY <1>1, DroppingElements DEF Queued
<1>4. queue' = IF w = <<>> THEN w ELSE Tail(w)
  BY DEF Done
<1>5. ASSUME NEW p \in Prompts, First(p), p \notin S PROVE w # <<>> /\ Head(w) = p
  BY <1>1, <1>5, DroppingFirst DEF First
<1> HIDE DEF w
<1>6. CASE w = <<>>
  <2>1. queue' = <<>> /\ \A p : ~Queued(p)'
    BY <1>4, <1>6 DEF Queued
  <2>2. QED
    BY <1>2, <1>6, <2>1 DEF Shrinks, Line
<1>7. CASE w # <<>>
  <2>1. /\ queue' = Tail(w) /\ Tail(w) \in Seq(Prompts) /\ Distinct(Tail(w))
        /\ \A p : Queued(p)' <=> p # Head(w) /\ \E i \in DOMAIN w : w[i] = p
    BY <1>2, <1>4, <1>7, TailDistinct DEF Queued
  <2>2. \A p : Queued(p)' <=> p # Head(w) /\ p \notin S /\ Queued(p)
    BY <1>3, <2>1
  <2>3. \A p \in Prompts : First(p) => ~Queued(p)'
    BY <1>5, <2>2
  <2>4. QED
    BY <2>1, <2>2, <2>3 DEF Shrinks, Line
<1>8. QED
  BY <1>6, <1>7

\* Emptying the queue shrinks it, and nobody is left.
LEMMA EmptyShrinks == queue' = <<>> => Shrinks /\ \A p \in Prompts : ~Queued(p)'
<1> SUFFICES ASSUME queue' = <<>> PROVE Shrinks /\ \A p \in Prompts : ~Queued(p)'
  OBVIOUS
<1>1. \A p : ~Queued(p)'
  BY DEF Queued
<1>2. Line'
  BY DEF Line, Distinct
<1>3. QED
  BY <1>1, <1>2 DEF Shrinks

-----------------------------------------------------------------------------
(* What every action but the asking and the rendering does to the answers: *)
(* one that is given stays, and takes its prompt from the surfaces.        *)
Settles ==
  /\ answer' \in [Prompts -> Answers]
  /\ web' \subseteq web
  /\ ticking' \subseteq {p \in Prompts : answer'[p] = "tick"}
  /\ \A p \in Prompts : answer[p] # "none" => answer'[p] = answer[p]
  /\ \A p \in Prompts : answer[p] = "none" /\ answer'[p] # "none"
                          => p \notin web' /\ (Queued(p)' => p \in ticking')
  /\ \A p \in ticking : Queued(p)' => p \in ticking'

OthersTyped ==
  /\ racing' \in [Prompts -> SUBSET Racer]
  /\ interacted' \subseteq Prompts
  /\ running' \in BOOLEAN /\ aborted' \subseteq Signals
  /\ rules' \subseteq Prompts /\ due' \in BOOLEAN

(* What it does to the rules: the queue shall be checked again when they     *)
(* change.                                                                 *)
Announces == due' = TRUE \/ UNCHANGED <<rules, due>>

\* The invariant's types, one by one.
LEMMA Parts ==
  ASSUME PromptInv
  PROVE  /\ Line /\ stage \in [Prompts -> {"new", "asked", "open"}]
         /\ answer \in [Prompts -> Answers] /\ racing \in [Prompts -> SUBSET Racer]
         /\ web \subseteq Prompts /\ ticking \subseteq {p \in Prompts : answer[p] = "tick"}
         /\ shown \in [prompt: Prompts, ticked: BOOLEAN] \cup {None}
         /\ interacted \subseteq Prompts /\ running \in BOOLEAN /\ aborted \subseteq Signals
         /\ rules \subseteq Prompts /\ due \in BOOLEAN
         /\ recheck \in [Prompts -> {"no", "asked", "allow"}] /\ late \subseteq Prompts
  BY DEF PromptInv, TypeOK, Line, Distinct, Answers

(* Such a step keeps the invariant. *)
LEMMA SettlingKeeps ==
  ASSUME PromptInv, Shrinks, Settles, OthersTyped, UNCHANGED <<stage, shown, late>>,
         recheck' \in [Prompts -> {"no", "asked", "allow"}], RulesReachTheQueue'
  PROVE  PromptInv'
<1>1. TypeOK'
  BY Parts DEF Shrinks, Line, Distinct, Settles, OthersTyped, TypeOK, Answers
<1>2. AskedWhenSeen'
  BY DEF PromptInv, AskedWhenSeen, Shrinks, Settles
<1>3. ShownIsFirst'
  <2>1. shown # None => shown.prompt \in Prompts
    BY Parts
  <2>2. \A p \in Prompts : First(p) /\ Queued(p)' => First(p)'
    BY DEF Shrinks
  <2>3. \A p \in Prompts : Queued(p)' => Queued(p)
    BY DEF Shrinks
  <2>4. SUFFICES ASSUME shown # None, shown' = shown, Queued(shown.prompt)'
                 PROVE  First(shown.prompt)'
    BY DEF ShownIsFirst, Queued, First
  <2>5. QED
    BY <2>1, <2>2, <2>3, <2>4 DEF PromptInv, ShownIsFirst
<1>4. SurfacesAgree'
  <2>1. SUFFICES ASSUME NEW p \in Prompts, answer'[p] # "none"
                 PROVE  p \notin web' /\ (Queued(p)' => p \in ticking')
    BY DEF SurfacesAgree
  <2>2. CASE answer[p] = "none"
    BY <2>1, <2>2 DEF Settles
  <2>3. CASE answer[p] # "none"
    BY <2>3 DEF PromptInv, SurfacesAgree, Settles, Shrinks
  <2>4. QED
    BY <2>2, <2>3
<1>5. QED
  BY <1>1, <1>2, <1>3, <1>4 DEF PromptInv

(* The rules reach the queue when a step does not check it again. *)
LEMMA AnnouncedRulesReach ==
  ASSUME PromptInv, Shrinks, Settles, Announces, UNCHANGED <<stage, late, recheck>>
  PROVE  RulesReachTheQueue'
<1>1. CASE due' = TRUE
  BY <1>1 DEF RulesReachTheQueue
<1>2. CASE UNCHANGED <<rules, due>>
  <2>1. SUFFICES ASSUME NEW p \in rules \ late, Open(p)', Queued(p)'
                 PROVE  due \/ recheck[p] # "no"
    BY <1>2 DEF RulesReachTheQueue
  <2>2. p \in Prompts
    BY Parts
  <2>3. Open(p) /\ Queued(p)
    BY <2>1, <2>2 DEF Open, At, Settles, Shrinks
  <2>4. QED
    BY <2>1, <2>3 DEF PromptInv, RulesReachTheQueue
<1>3. QED
  BY <1>1, <1>2 DEF Announces

-----------------------------------------------------------------------------
(* What actions have in common. *)
LEMMA EndedType ==
  ASSUME racing \in [Prompts -> SUBSET Racer], aborted \subseteq Signals,
         NEW p, NEW rs, NEW sigs \in SUBSET Signals, Ended(p, rs, sigs)
  PROVE  /\ racing' \in [Prompts -> SUBSET Racer] /\ aborted' \subseteq Signals
         /\ ticking' = ticking \ Silenced(sigs)
  BY DEF Ended, Silenced

\* A rule keeps the rules' types and announces itself to the recheck.
LEMMA GrantType ==
  ASSUME rules \subseteq Prompts, due \in BOOLEAN, NEW cond, NEW p \in Prompts, GrantIf(cond, p)
  PROVE  rules' \subseteq Prompts /\ due' \in BOOLEAN /\ Announces
  BY PromptsAssumption DEF GrantIf, Grant, granted, Announces

(* An answer, and what goes with it: an open prompt leaves the web page and *)
(* the queue, or ticks; the dialogs in S that leave the queue tick no more. *)
LEMMA AnswerSettles ==
  ASSUME PromptInv, Shrinks, NEW p \in Prompts, NEW a \in Answers \ {"none"}, NEW S,
         answer[p] = "none", Claim(p, a),
         ~Queued(p)' \/ (a = "tick" /\ p \in ticking'),
         ticking' = ticking \ S \/ (a = "tick" /\ ticking' = ticking \cup {p}),
         \A q \in Prompts : Queued(q)' /\ q \in ticking => q \in ticking'
  PROVE  Settles
<1>1. answer' = [answer EXCEPT ![p] = a] /\ web' = web \ {p}
  BY DEF Claim, Answer
<1>2. answer \in [Prompts -> Answers] /\ ticking \subseteq {q \in Prompts : answer[q] = "tick"}
  BY Parts
<1>3. QED
  BY <1>1, <1>2 DEF Settles

\* Prompts that are silenced on every surface are settled.
LEMMA SilenceSettles ==
  ASSUME PromptInv, Shrinks, UNCHANGED <<answer, web>>, NEW S, ticking' = ticking \ S,
         \A q \in Prompts : Queued(q)' => q \notin S
  PROVE  Settles
  BY Parts DEF Settles

(* A step that only announces the rules, and keeps the rest. *)
LEMMA SettledStep ==
  ASSUME PromptInv, Shrinks, Settles, OthersTyped, Announces,
         UNCHANGED <<stage, shown, late, recheck>>
  PROVE  PromptInv'
<1>1. RulesReachTheQueue'
  BY AnnouncedRulesReach
<1>2. recheck' \in [Prompts -> {"no", "asked", "allow"}]
  BY Parts
<1>3. QED
  BY <1>1, <1>2, SettlingKeeps

(* An answer that ends racers and takes its prompt and the dialogs that an  *)
(* abort silences from the queue,                                          *)
LEMMA AnswerLeaves ==
  ASSUME PromptInv, NEW p \in Prompts, NEW a \in Answers \ {"none"}, NEW rs,
         NEW sigs \in SUBSET Signals, Ended(p, rs, sigs), answer[p] = "none", Claim(p, a),
         Shrinks, ~Queued(p)', \A q \in Prompts : Queued(q)' => q \notin Silenced(sigs)
  PROVE  Settles /\ racing' \in [Prompts -> SUBSET Racer] /\ aborted' \subseteq Signals
<1>1. /\ racing' \in [Prompts -> SUBSET Racer] /\ aborted' \subseteq Signals
      /\ ticking' = ticking \ Silenced(sigs)
  BY Parts, EndedType
<1>2. Settles
  BY <1>1, AnswerSettles
<1>3. QED
  BY <1>1, <1>2

(* and one that comes too late. *)
LEMMA SilenceLeaves ==
  ASSUME PromptInv, NEW p, NEW rs, NEW sigs \in SUBSET Signals, Ended(p, rs, sigs),
         UNCHANGED <<answer, web>>, Shrinks,
         \A q \in Prompts : Queued(q)' => q \notin Silenced(sigs)
  PROVE  Settles /\ racing' \in [Prompts -> SUBSET Racer] /\ aborted' \subseteq Signals
<1>1. /\ racing' \in [Prompts -> SUBSET Racer] /\ aborted' \subseteq Signals
      /\ ticking' = ticking \ Silenced(sigs)
  BY Parts, EndedType
<1>2. Settles
  BY <1>1, SilenceSettles
<1>3. QED
  BY <1>1, <1>2

\* The signals a turn aborts are signals.
LEMMA TurnedType ==
  ASSUME NEW p \in Prompts, NEW b
  PROVE  Turned(p, b) \in SUBSET Signals /\ {Signal[p]} \in SUBSET Signals
  BY DEF Turned, Signals

-----------------------------------------------------------------------------
(* The racers. *)
LEMMA HookAllowsKeeps ==
  ASSUME PromptInv, NEW p \in Prompts, NEW b \in BOOLEAN, HookAllows(p, b)
  PROVE  PromptInv'
<1>1. /\ Ended(p, {"hook"}, {}) /\ GrantIf(b, p)
      /\ UNCHANGED <<stage, shown, interacted, running, recheck, late>>
  BY DEF HookAllows
<1>2. rules' \subseteq Prompts /\ due' \in BOOLEAN /\ Announces
  BY <1>1, Parts, GrantType
<1>3. Shrinks /\ Settles /\ racing' \in [Prompts -> SUBSET Racer] /\ aborted' \subseteq Signals
  <2>1. {} \in SUBSET Signals /\ Silenced({}) = {} /\ Line
    BY Parts DEF Silenced
  <2>2. CASE Open(p)
    <3>1. Claim(p, "allow") /\ queue' = Without({p}) /\ answer[p] = "none"
      BY <2>2 DEF HookAllows, Open, At
    <3>2. Shrinks /\ ~Queued(p)'
      BY <2>1, <3>1, WithoutShrinks
    <3>3. "allow" \in Answers \ {"none"}
      BY DEF Answers
    <3>4. QED
      BY <1>1, <2>1, <3>1, <3>2, <3>3, AnswerLeaves
  <2>3. CASE ~Open(p)
    <3>1. UNCHANGED <<answer, web, queue>>
      BY <2>3 DEF HookAllows
    <3>2. Shrinks
      BY <2>1, <3>1, UnchangedShrinks
    <3>3. QED
      BY <1>1, <2>1, <3>1, <3>2, SilenceLeaves
  <2>4. QED
    BY <2>2, <2>3
<1>4. OthersTyped
  BY <1>1, <1>2, <1>3, Parts DEF OthersTyped
<1>5. QED
  BY <1>1, <1>2, <1>3, <1>4, SettledStep

\* A hook that denies keeps the invariant.
LEMMA HookDeniesKeeps ==
  ASSUME PromptInv, NEW p \in Prompts, NEW b \in BOOLEAN, HookDenies(p, b)
  PROVE  PromptInv'
<1>1. PICK sigs \in SUBSET Signals : sigs = IF b THEN {Signal[p]} ELSE {}
  BY TurnedType
<1>2. /\ Ended(p, {"hook"}, sigs) /\ UNCHANGED <<rules, due>>
      /\ UNCHANGED <<stage, shown, interacted, running, recheck, late>>
  BY <1>1 DEF HookDenies, granted
<1>3. Shrinks /\ Settles /\ racing' \in [Prompts -> SUBSET Racer] /\ aborted' \subseteq Signals
  <2>1. Line
    BY Parts
  <2>2. CASE Open(p)
    <3>1. Claim(p, "deny") /\ queue' = Without({p} \cup Silenced(sigs)) /\ answer[p] = "none"
      BY <1>1, <2>2 DEF HookDenies, Open, At
    <3>2. Shrinks /\ ~Queued(p)' /\ \A q \in Prompts : Queued(q)' => q \notin Silenced(sigs)
      BY <2>1, <3>1, WithoutShrinks
    <3>3. "deny" \in Answers \ {"none"}
      BY DEF Answers
    <3>4. QED
      BY <1>2, <3>1, <3>2, <3>3, AnswerLeaves
  <2>3. CASE ~Open(p)
    <3>1. queue' = Without(Silenced(sigs)) /\ UNCHANGED <<answer, web>>
      BY <1>1, <2>3 DEF HookDenies
    <3>2. Shrinks /\ \A q \in Prompts : Queued(q)' => q \notin Silenced(sigs)
      BY <2>1, <3>1, WithoutShrinks
    <3>3. QED
      BY <1>2, <3>1, <3>2, SilenceLeaves
  <2>4. QED
    BY <2>2, <2>3
<1>4. OthersTyped /\ Announces
  BY <1>2, <1>3, Parts DEF OthersTyped, Announces
<1>5. QED
  BY <1>2, <1>3, <1>4, SettledStep

\* A hook that says nothing keeps the invariant.
LEMMA HookAbstainsKeeps ==
  ASSUME PromptInv, NEW p \in Prompts, HookAbstains(p)
  PROVE  PromptInv'
<1>1. /\ Ended(p, {"hook"}, {}) /\ UNCHANGED <<answer, web, queue, rules, due>>
      /\ UNCHANGED <<stage, shown, interacted, running, recheck, late>>
  BY DEF HookAbstains, granted
<1>2. {} \in SUBSET Signals /\ Silenced({}) = {}
  BY DEF Silenced
<1>3. Shrinks
  BY <1>1, Parts, UnchangedShrinks
<1>4. Settles /\ racing' \in [Prompts -> SUBSET Racer] /\ aborted' \subseteq Signals
  BY <1>1, <1>2, <1>3, SilenceLeaves
<1>5. OthersTyped /\ Announces
  BY <1>1, <1>4, Parts DEF OthersTyped, Announces
<1>6. QED
  BY <1>1, <1>3, <1>4, <1>5, SettledStep

\* The classifier's approval, with its tick, keeps the invariant.
LEMMA ClassifierAllowsKeeps ==
  ASSUME PromptInv, NEW p \in Prompts, ClassifierAllows(p)
  PROVE  PromptInv'
<1>1. /\ answer[p] = "none" /\ Claim(p, "tick") /\ ticking' = ticking \cup {p}
      /\ UNCHANGED <<queue, rules, due, aborted, running, interacted>>
      /\ UNCHANGED <<stage, shown, recheck, late>>
      /\ racing' = [racing EXCEPT ![p] = @ \ {"classifier"}]
  BY DEF ClassifierAllows, Open, At, granted, signals
<1>2. Shrinks
  BY <1>1, Parts, UnchangedShrinks
<1>3. Settles
  <2>1. "tick" \in Answers \ {"none"}
    BY DEF Answers
  <2>2. QED
    BY <1>1, <1>2, <2>1, AnswerSettles
<1>4. OthersTyped /\ Announces
  BY <1>1, Parts DEF OthersTyped, Announces
<1>5. QED
  BY <1>1, <1>2, <1>3, <1>4, SettledStep

\* An approval from the web or a channel keeps the invariant.
LEMMA RemoteAllowsKeeps ==
  ASSUME PromptInv, NEW p \in Prompts, NEW r \in Remote, NEW b \in BOOLEAN, RemoteAllows(p, r, b)
  PROVE  PromptInv'
<1>1. /\ Ended(p, Remote, {}) /\ Claim(p, "allow") /\ queue' = Without({p}) /\ GrantIf(b, p)
      /\ UNCHANGED <<stage, shown, interacted, running, recheck, late>> /\ answer[p] = "none"
  BY DEF RemoteAllows, Open, At
<1>2. rules' \subseteq Prompts /\ due' \in BOOLEAN /\ Announces
  BY <1>1, Parts, GrantType
<1>3. Shrinks /\ ~Queued(p)'
  BY <1>1, Parts, WithoutShrinks
<1>4. Settles /\ racing' \in [Prompts -> SUBSET Racer] /\ aborted' \subseteq Signals
  <2>1. {} \in SUBSET Signals /\ Silenced({}) = {} /\ "allow" \in Answers \ {"none"}
    BY DEF Silenced, Answers
  <2>2. QED
    BY <1>1, <1>3, <2>1, AnswerLeaves
<1>5. OthersTyped
  BY <1>1, <1>2, <1>4, Parts DEF OthersTyped
<1>6. QED
  BY <1>1, <1>2, <1>3, <1>4, <1>5, SettledStep

\* A denial from the web or a channel keeps the invariant.
LEMMA RemoteDeniesKeeps ==
  ASSUME PromptInv, NEW p \in Prompts, NEW r \in Remote, NEW b \in BOOLEAN, RemoteDenies(p, r, b)
  PROVE  PromptInv'
<1>1. PICK sigs \in SUBSET Signals : sigs = Turned(p, b)
  BY TurnedType
<1>2. /\ Ended(p, Remote, sigs) /\ Claim(p, "deny") /\ queue' = Without({p} \cup Silenced(sigs))
      /\ UNCHANGED <<stage, shown, interacted, running, recheck, late>> /\ answer[p] = "none"
      /\ UNCHANGED <<rules, due>>
  BY <1>1 DEF RemoteDenies, Open, At, granted
<1>3. Shrinks /\ ~Queued(p)' /\ \A q \in Prompts : Queued(q)' => q \notin Silenced(sigs)
  BY <1>2, Parts, WithoutShrinks
<1>4. Settles /\ racing' \in [Prompts -> SUBSET Racer] /\ aborted' \subseteq Signals
  <2>1. "deny" \in Answers \ {"none"}
    BY DEF Answers
  <2>2. QED
    BY <1>2, <1>3, <2>1, AnswerLeaves
<1>5. OthersTyped /\ Announces
  BY <1>2, <1>4, Parts DEF OthersTyped, Announces
<1>6. QED
  BY <1>2, <1>3, <1>4, <1>5, SettledStep

-----------------------------------------------------------------------------
(* The asking. *)
LEMMA AutomatedKeeps ==
  ASSUME PromptInv, NEW p \in Prompts, NEW a \in {"allow", "deny"}, NEW b \in BOOLEAN,
         NEW c \in BOOLEAN, Automated(p, a, b, c)
  PROVE  PromptInv'
<1>1. PICK sigs \in SUBSET Signals : sigs = IF c THEN {Signal[p]} ELSE {}
  BY TurnedType
<1>2. /\ Ended(p, {}, sigs) /\ Answer(p, a) /\ queue' = Without(Silenced(sigs)) /\ GrantIf(b, p)
      /\ UNCHANGED <<stage, web, shown, interacted, running, recheck, late>>
      /\ stage[p] = "asked" /\ answer[p] = "none"
  BY <1>1 DEF Automated, At
<1>3. rules' \subseteq Prompts /\ due' \in BOOLEAN /\ Announces
  BY <1>2, Parts, GrantType
<1>4. ~Queued(p) /\ p \notin web
  BY <1>2 DEF PromptInv, AskedWhenSeen
<1>5. Shrinks /\ \A q \in Prompts : Queued(q)' => q \notin Silenced(sigs)
  BY <1>2, Parts, WithoutShrinks
<1>6. ~Queued(p)'
  BY <1>4, <1>5 DEF Shrinks
<1>7. Settles /\ racing' \in [Prompts -> SUBSET Racer] /\ aborted' \subseteq Signals
  <2>1. Claim(p, a) /\ a \in Answers \ {"none"}
    BY <1>2, <1>4 DEF Claim, Answers
  <2>2. QED
    BY <1>2, <1>5, <1>6, <2>1, AnswerLeaves
<1>8. OthersTyped
  BY <1>2, <1>3, <1>7, Parts DEF OthersTyped
<1>9. QED
  BY <1>2, <1>3, <1>5, <1>7, <1>8, SettledStep

(* An answer before the prompt was queued. *)
LEMMA EarlyAnswerKeeps ==
  ASSUME PromptInv, NEW p \in Prompts, NEW a \in Answers \ {"none"}, At(p, "asked"), Answer(p, a),
         UNCHANGED <<stage, racing, web, queue, ticking, shown, interacted, signals, granted,
                     recheck, late>>
  PROVE  PromptInv'
<1>1. /\ UNCHANGED <<stage, racing, web, queue, ticking, shown, interacted, running, aborted>>
      /\ UNCHANGED <<rules, due, recheck, late>> /\ stage[p] = "asked" /\ answer[p] = "none"
  BY DEF At, signals, granted
<1>2. ~Queued(p) /\ p \notin web
  BY <1>1 DEF PromptInv, AskedWhenSeen
<1>3. Shrinks
  BY <1>1, Parts, UnchangedShrinks
<1>4. ~Queued(p)'
  BY <1>2, <1>3 DEF Shrinks
<1>5. Settles
  <2>1. Claim(p, a) /\ ticking' = ticking \ {}
    BY <1>1, <1>2 DEF Claim
  <2>2. QED
    BY <1>1, <1>3, <1>4, <2>1, AnswerSettles
<1>6. OthersTyped /\ Announces
  BY <1>1, Parts DEF OthersTyped, Announces
<1>7. QED
  BY <1>1, <1>3, <1>5, <1>6, SettledStep

(* A prompt in an earlier stage is on no surface. *)
LEMMA CheckKeeps ==
  ASSUME PromptInv, NEW p \in Prompts, Check(p)
  PROVE  PromptInv'
<1>1. /\ stage[p] = "new" /\ answer[p] = "none" /\ stage' = [stage EXCEPT ![p] = "asked"]
      /\ UNCHANGED <<racing, web, queue, ticking, shown, interacted, running, aborted>>
      /\ UNCHANGED <<rules, due, recheck, late>>
  BY DEF Check, At, signals, granted
<1>2. answer' \in [Prompts -> Answers] /\ \A q \in Prompts \ {p} : answer'[q] = answer[q]
  BY Parts DEF Check, Answer, Answers
<1>3. ~Queued(p) /\ p \notin web /\ (shown # None => shown.prompt # p)
  BY <1>1 DEF PromptInv, AskedWhenSeen
<1>4. \A q : Queued(q)' <=> Queued(q)
  BY <1>1 DEF Queued
<1>5. TypeOK'
  <2>1. ticking \subseteq {q \in Prompts : answer'[q] = "tick"}
    BY <1>1, <1>2, Parts
  <2>2. QED
    BY <1>1, <1>2, <2>1, Parts DEF TypeOK, PromptInv, Answers
<1>6. AskedWhenSeen'
  <2>1. shown # None => shown.prompt \in Prompts
    BY Parts
  <2>2. QED
    BY <1>1, <1>3, <1>4, <2>1, Parts DEF PromptInv, AskedWhenSeen
<1>7. ShownIsFirst'
  BY <1>1 DEF PromptInv, ShownIsFirst, First, Queued
<1>8. SurfacesAgree'
  BY <1>1, <1>2, <1>3, <1>4 DEF PromptInv, SurfacesAgree
<1>9. RulesReachTheQueue'
  <2>1. SUFFICES ASSUME NEW q \in rules \ late, Open(q)', Queued(q)'
                 PROVE  due \/ recheck[q] # "no"
    BY <1>1 DEF RulesReachTheQueue
  <2>2. q \in Prompts /\ q # p
    BY <1>3, <1>4, <2>1, Parts
  <2>3. Open(q) /\ Queued(q)
    BY <1>1, <1>2, <1>4, <2>1, <2>2 DEF Open, At
  <2>4. QED
    BY <2>1, <2>3 DEF PromptInv, RulesReachTheQueue
<1>10. QED
  BY <1>5, <1>6, <1>7, <1>8, <1>9 DEF PromptInv

\* A prompt that joins the queue keeps the invariant.
LEMMA AskKeeps ==
  ASSUME PromptInv, NEW p \in Prompts, Ask(p)
  PROVE  PromptInv'
<1>1. /\ stage[p] = "asked" /\ answer[p] = "none" /\ stage' = [stage EXCEPT ![p] = "open"]
      /\ queue' = Append(queue, p)
      /\ racing' = [racing EXCEPT ![p] = IF p \in Early THEN Racers[p] \cap Remote ELSE Racers[p]]
      /\ web' \in {web, web \cup {p}}
      /\ late' = IF p \in rules /\ ~due THEN late \cup {p} ELSE late
      /\ UNCHANGED <<answer, ticking, shown, interacted, running, aborted, rules, due, recheck>>
  BY DEF Ask, At, signals, granted
<1>2. ~Queued(p) /\ p \notin web /\ (shown # None => shown.prompt # p)
  BY <1>1 DEF PromptInv, AskedWhenSeen
<1>3. PICK s \in Seq(Prompts) : s = queue /\ Distinct(s)
  BY Parts DEF Line
<1>4. /\ Append(s, p) \in Seq(Prompts) /\ Len(s) \in Nat
      /\ DOMAIN s = 1..Len(s) /\ DOMAIN Append(s, p) = 1..(Len(s) + 1)
      /\ Append(s, p)[Len(s) + 1] = p /\ \A i \in 1..Len(s) : Append(s, p)[i] = s[i]
  BY <1>3, AppendProperties, LenProperties
<1>5. \A q : Queued(q)' <=> Queued(q) \/ q = p
  <2>1. 1..(Len(s) + 1) = 1..Len(s) \cup {Len(s) + 1}
    BY <1>4
  <2>2. QED
    BY <1>1, <1>3, <1>4, <2>1 DEF Queued
<1>6. Line'
  <2>1. \A i \in 1..Len(s) : s[i] # p
    BY <1>2, <1>3, <1>4 DEF Queued
  <2>2. Distinct(Append(s, p))
    <3>1. SUFFICES ASSUME NEW i \in 1..(Len(s) + 1), NEW j \in 1..(Len(s) + 1),
                          Append(s, p)[i] = Append(s, p)[j]
                   PROVE  i = j
      BY <1>4 DEF Distinct
    <3>2. CASE i \in 1..Len(s) /\ j \in 1..Len(s)
      BY <1>3, <1>4, <3>1, <3>2 DEF Distinct
    <3>3. CASE i \notin 1..Len(s) \/ j \notin 1..Len(s)
      BY <1>4, <2>1, <3>1, <3>3
    <3>4. QED
      BY <3>2, <3>3
  <2>3. QED
    BY <1>1, <1>3, <1>4, <2>2 DEF Line
<1>7. \A q \in Prompts : First(q) => First(q)'
  BY <1>1, <1>3 DEF First
<1>8. TypeOK'
  <2>1. racing' \in [Prompts -> SUBSET Racer]
    BY <1>1, Parts, PromptsAssumption
  <2>2. late' \subseteq Prompts /\ web' \subseteq Prompts
    BY <1>1, Parts
  <2>3. queue' \in Seq(Prompts) /\ \A i, j \in DOMAIN queue' : queue'[i] = queue'[j] => i = j
    BY <1>6 DEF Line, Distinct
  <2>4. QED
    BY <1>1, <2>1, <2>2, <2>3, Parts DEF TypeOK, Answers
<1>9. AskedWhenSeen'
  <2>1. shown # None => shown.prompt \in Prompts
    BY Parts
  <2>2. QED
    BY <1>1, <1>2, <1>5, <2>1, Parts DEF PromptInv, AskedWhenSeen
<1>10. ShownIsFirst'
  <2>1. shown # None => shown.prompt \in Prompts
    BY Parts
  <2>2. SUFFICES ASSUME shown # None, NEW q \in Prompts, q = shown.prompt, Queued(q)'
                 PROVE  First(q)'
    BY <1>1, <2>1 DEF ShownIsFirst, Queued, First
  <2>3. Queued(q)
    BY <1>2, <1>5, <2>2
  <2>4. First(q)
    BY <2>2, <2>3 DEF PromptInv, ShownIsFirst
  <2>5. QED
    BY <1>7, <2>4
<1>11. SurfacesAgree'
  BY <1>1, <1>5 DEF PromptInv, SurfacesAgree
<1>12. RulesReachTheQueue'
  <2>1. SUFFICES ASSUME NEW q \in rules \ late', Open(q)', Queued(q)'
                 PROVE  due \/ recheck[q] # "no"
    BY <1>1 DEF RulesReachTheQueue
  <2>2. CASE q = p
    BY <1>1, <2>1, <2>2
  <2>3. CASE q # p
    <3>1. q \in Prompts /\ q \notin late /\ Queued(q)
      BY <1>1, <1>5, <2>1, <2>3, Parts
    <3>2. Open(q)
      BY <1>1, <2>1, <2>3, <3>1, Parts DEF Open, At
    <3>3. QED
      BY <2>1, <3>1, <3>2 DEF PromptInv, RulesReachTheQueue
  <2>4. QED
    BY <2>2, <2>3
<1>13. QED
  BY <1>8, <1>9, <1>10, <1>11, <1>12 DEF PromptInv

-----------------------------------------------------------------------------
(* The rules. *)
LEMMA ModeSwitchKeeps == PromptInv /\ ModeSwitch => PromptInv'
<1> SUFFICES ASSUME PromptInv, ModeSwitch PROVE PromptInv'
  OBVIOUS
<1>1. /\ UNCHANGED <<stage, answer, racing, web, queue, ticking, shown, interacted>>
      /\ UNCHANGED <<running, aborted, recheck, late>> /\ rules' = Prompts /\ due' = TRUE
  BY DEF ModeSwitch, signals
<1>2. Shrinks
  BY <1>1, Parts, UnchangedShrinks
<1>3. Settles
  BY <1>1, <1>2, Parts DEF Settles
<1>4. OthersTyped /\ Announces
  BY <1>1, Parts DEF OthersTyped, Announces
<1>5. QED
  BY <1>1, <1>2, <1>3, <1>4, SettledStep

\* The recheck of all queued prompts after new rules keeps the invariant.
LEMMA RecheckAllKeeps == PromptInv /\ RecheckAll => PromptInv'
<1> SUFFICES ASSUME PromptInv, RecheckAll PROVE PromptInv'
  OBVIOUS
<1>1. /\ UNCHANGED <<stage, answer, racing, web, queue, ticking, shown, interacted>>
      /\ UNCHANGED <<running, aborted, rules, late>> /\ due' = FALSE
      /\ recheck' = [p \in Prompts |->
           IF Queued(p) /\ Open(p) /\ recheck[p] = "no" THEN "asked" ELSE recheck[p]]
  BY DEF RecheckAll, signals
<1>2. Shrinks
  BY <1>1, Parts, UnchangedShrinks
<1>3. Settles /\ OthersTyped
  BY <1>1, <1>2, Parts DEF Settles, OthersTyped
<1>4. recheck' \in [Prompts -> {"no", "asked", "allow"}]
  BY <1>1, Parts
<1>5. RulesReachTheQueue'
  <2>1. SUFFICES ASSUME NEW p \in Prompts, Open(p)', Queued(p)' PROVE recheck'[p] # "no"
    BY <1>1, Parts DEF RulesReachTheQueue
  <2>2. Open(p) /\ Queued(p)
    BY <1>1, <2>1 DEF Open, At, Queued
  <2>3. QED
    BY <1>1, <2>2
<1>6. QED
  BY <1>1, <1>2, <1>3, <1>4, <1>5, SettlingKeeps

\* A recheck that reads the rules keeps the invariant.
LEMMA RecheckReadsKeeps ==
  ASSUME PromptInv, NEW p \in Prompts, RecheckReads(p)
  PROVE  PromptInv'
<1>1. /\ UNCHANGED <<stage, answer, racing, web, queue, ticking, shown, interacted>>
      /\ UNCHANGED <<running, aborted, rules, due, late>>
      /\ recheck' = [recheck EXCEPT ![p] = IF p \in rules THEN "allow" ELSE "no"]
  BY DEF RecheckReads, signals, granted
<1>2. Shrinks
  BY <1>1, Parts, UnchangedShrinks
<1>3. Settles /\ OthersTyped
  BY <1>1, <1>2, Parts DEF Settles, OthersTyped
<1>4. recheck' \in [Prompts -> {"no", "asked", "allow"}]
  BY <1>1, Parts
<1>5. RulesReachTheQueue'
  <2>1. SUFFICES ASSUME NEW q \in rules \ late, Open(q)', Queued(q)' PROVE due \/ recheck'[q] # "no"
    BY <1>1 DEF RulesReachTheQueue
  <2>2. q \in Prompts /\ Open(q) /\ Queued(q)
    BY <1>1, <2>1, Parts DEF Open, At, Queued
  <2>3. CASE q = p
    BY <1>1, <2>1, <2>3, Parts
  <2>4. CASE q # p
    <3>1. due \/ recheck[q] # "no"
      BY <2>1, <2>2 DEF PromptInv, RulesReachTheQueue
    <3>2. QED
      BY <1>1, <2>2, <2>4, <3>1, Parts
  <2>5. QED
    BY <2>3, <2>4
<1>6. QED
  BY <1>1, <1>2, <1>3, <1>4, <1>5, SettlingKeeps

\* A recheck that claims its prompt keeps the invariant.
LEMMA RecheckClaimsKeeps ==
  ASSUME PromptInv, NEW p \in Prompts, RecheckClaims(p)
  PROVE  PromptInv'
<1>1. /\ UNCHANGED <<stage, racing, ticking, shown, interacted>>
      /\ UNCHANGED <<running, aborted, rules, due, late>>
      /\ recheck' = [recheck EXCEPT ![p] = "no"]
  BY DEF RecheckClaims, signals, granted
<1>2. Shrinks /\ Settles /\ (Open(p)' => ~Queued(p)')
  <2>1. CASE Open(p)
    <3>1. Claim(p, "allow") /\ queue' = Without({p}) /\ answer[p] = "none"
      BY <2>1 DEF RecheckClaims, Open, At
    <3>2. Shrinks /\ ~Queued(p)'
      BY <3>1, Parts, WithoutShrinks
    <3>3. "allow" \in Answers \ {"none"} /\ ticking' = ticking \ {}
      BY <1>1 DEF Answers
    <3>4. Settles
      BY <1>1, <3>1, <3>2, <3>3, AnswerSettles
    <3>5. QED
      BY <3>2, <3>4
  <2>2. CASE ~Open(p)
    <3>1. UNCHANGED <<answer, web, queue>> /\ ~Open(p)'
      BY <1>1, <2>2 DEF RecheckClaims, Open, At
    <3>2. Shrinks
      BY <3>1, Parts, UnchangedShrinks
    <3>3. QED
      BY <1>1, <3>1, <3>2, Parts DEF Settles
  <2>3. QED
    BY <2>1, <2>2
<1>3. OthersTyped /\ recheck' \in [Prompts -> {"no", "asked", "allow"}]
  BY <1>1, Parts DEF OthersTyped
<1>4. RulesReachTheQueue'
  <2>1. SUFFICES ASSUME NEW q \in rules \ late, Open(q)', Queued(q)' PROVE due \/ recheck'[q] # "no"
    BY <1>1 DEF RulesReachTheQueue
  <2>2. q \in Prompts /\ q # p
    BY <1>2, <2>1, Parts
  <2>3. Open(q) /\ Queued(q)
    BY <1>1, <1>2, <2>1, <2>2 DEF Open, At, Settles, Shrinks
  <2>4. due \/ recheck[q] # "no"
    BY <2>1, <2>3 DEF PromptInv, RulesReachTheQueue
  <2>5. QED
    BY <1>1, <2>2, <2>4, Parts
<1>5. QED
  BY <1>1, <1>2, <1>3, <1>4, SettlingKeeps

-----------------------------------------------------------------------------
(* The screen and the user. *)
LEMMA TickEndsKeeps ==
  ASSUME PromptInv, NEW p \in Prompts, TickEnds(p)
  PROVE  PromptInv'
<1>1. /\ ticking' = ticking \ {p} /\ queue' = Without({p})
      /\ UNCHANGED <<stage, answer, racing, web, shown, interacted, running, aborted>>
      /\ UNCHANGED <<rules, due, recheck, late>>
  BY DEF TickEnds, signals, granted
<1>2. Shrinks /\ \A q \in Prompts : Queued(q)' => q \notin {p}
  BY <1>1, Parts, WithoutShrinks
<1>3. Settles
  BY <1>1, <1>2, SilenceSettles
<1>4. OthersTyped /\ Announces
  BY <1>1, Parts DEF OthersTyped, Announces
<1>5. QED
  BY <1>1, <1>2, <1>3, <1>4, SettledStep

\* A key in the dialog keeps the invariant.
LEMMA InteractKeeps ==
  ASSUME PromptInv, NEW p \in Prompts, Interact(p)
  PROVE  PromptInv'
<1>1. /\ interacted' = interacted \cup {p}
      /\ UNCHANGED <<stage, answer, racing, web, queue, ticking, shown, running, aborted>>
      /\ UNCHANGED <<rules, due, recheck, late>>
  BY DEF Interact, signals, granted
<1>2. Shrinks
  BY <1>1, Parts, UnchangedShrinks
<1>3. Settles /\ OthersTyped /\ Announces
  BY <1>1, <1>2, Parts DEF Settles, OthersTyped, Announces
<1>4. QED
  BY <1>1, <1>2, <1>3, SettledStep

\* React's rendering of the queue's head keeps the invariant.
LEMMA RenderKeeps == PromptInv /\ Render => PromptInv'
<1> SUFFICES ASSUME PromptInv, Render PROVE PromptInv'
  OBVIOUS
<1>1. /\ shown' = Dialog
      /\ UNCHANGED <<stage, answer, racing, web, queue, ticking, interacted, running, aborted>>
      /\ UNCHANGED <<rules, due, recheck, late>>
  BY DEF Render, signals, granted
<1>2. queue # <<>> => Head(queue) \in Prompts /\ Queued(Head(queue))
  <2>1. SUFFICES ASSUME queue # <<>> PROVE Head(queue) \in Prompts /\ Queued(Head(queue))
    OBVIOUS
  <2>2. queue \in Seq(Prompts)
    BY Parts DEF Line
  <2>3. 1 \in DOMAIN queue /\ queue[1] = Head(queue) /\ Head(queue) \in Prompts
    BY <2>1, <2>2, HeadTailProperties, LenProperties, EmptySeq
  <2>4. QED
    BY <2>3 DEF Queued
<1>3. \/ queue = <<>> /\ shown' = None
      \/ queue # <<>> /\ shown' = [prompt |-> Head(queue), ticked |-> answer[Head(queue)] = "tick"]
  BY <1>1 DEF Dialog
<1>4. shown' \in [prompt: Prompts, ticked: BOOLEAN] \cup {None}
  <2>1. PICK b \in BOOLEAN : b = (answer[Head(queue)] = "tick")
    BY Zenon
  <2>2. queue # <<>> => shown' = [prompt |-> Head(queue), ticked |-> b]
    BY <1>3, <2>1
  <2>3. QED
    BY <1>2, <1>3, <2>2
<1>5. TypeOK'
  BY <1>1, <1>4 DEF PromptInv, TypeOK
<1>6. AskedWhenSeen'
  <2>1. shown' # None => stage[shown'.prompt] = "open"
    BY <1>2, <1>3 DEF PromptInv, AskedWhenSeen
  <2>2. QED
    BY <1>1, <2>1 DEF PromptInv, AskedWhenSeen, Queued
<1>7. ShownIsFirst'
  BY <1>1, <1>3 DEF ShownIsFirst, First
<1>8. SurfacesAgree' /\ RulesReachTheQueue'
  BY <1>1 DEF PromptInv, SurfacesAgree, RulesReachTheQueue, Open, At, Queued
<1>9. QED
  BY <1>5, <1>6, <1>7, <1>8 DEF PromptInv

(* onDone takes the dialog that is shown, if its prompt is still queued. *)
LEMMA OfferedIsFirst ==
  ASSUME PromptInv, NEW p \in Prompts, Offers(p), Queued(p)
  PROVE  First(p)
  BY DEF PromptInv, ShownIsFirst, Offers

\* The user's approval keeps the invariant.
LEMMA UserAllowsKeeps ==
  ASSUME PromptInv, NEW p \in Prompts, NEW b \in BOOLEAN, UserAllows(p, b)
  PROVE  PromptInv'
<1>1. /\ Offers(p) /\ queue' = Done(queue)
      /\ UNCHANGED <<stage, racing, ticking, shown, interacted, running, aborted, recheck, late>>
  BY DEF UserAllows, signals
<1>2. queue' = Done(Without({}))
  <2>1. queue \in Seq(Prompts)
    BY Parts DEF Line
  <2>2. Dropping(queue, {}) = queue
    BY <2>1, DroppingNothing
  <2>3. QED
    BY <1>1, <2>2 DEF Without
<1>3. Shrinks /\ ~Queued(p)'
  <2>1. Shrinks /\ \A q \in Prompts : First(q) => ~Queued(q)'
    BY <1>2, Parts, DoneShrinks
  <2>2. QED
    BY <1>1, <2>1, OfferedIsFirst DEF Shrinks
<1>4. Settles /\ rules' \subseteq Prompts /\ due' \in BOOLEAN /\ Announces
  <2>1. CASE Open(p)
    <3>1. Claim(p, "allow") /\ GrantIf(b, p) /\ answer[p] = "none"
      BY <2>1 DEF UserAllows, Open, At
    <3>2. "allow" \in Answers \ {"none"} /\ ticking' = ticking \ {}
      BY <1>1 DEF Answers
    <3>3. Settles
      BY <1>1, <1>3, <3>1, <3>2, AnswerSettles
    <3>4. QED
      BY <3>1, <3>3, Parts, GrantType
  <2>2. CASE ~Open(p)
    BY <1>1, <1>3, <2>2, Parts DEF UserAllows, granted, Settles, Announces
  <2>3. QED
    BY <2>1, <2>2
<1>5. OthersTyped
  BY <1>1, <1>4, Parts DEF OthersTyped
<1>6. QED
  BY <1>1, <1>3, <1>4, <1>5, SettledStep

\* The user's rejection keeps the invariant.
LEMMA UserRejectsKeeps ==
  ASSUME PromptInv, NEW p \in Prompts, NEW b \in BOOLEAN, UserRejects(p, b)
  PROVE  PromptInv'
<1>1. PICK sigs \in SUBSET Signals : sigs = IF Open(p) THEN Turned(p, b) ELSE {}
  BY TurnedType
<1>2. /\ Offers(p) /\ queue' = Done(Without(Silenced(sigs))) /\ Ended(p, {}, sigs)
      /\ UNCHANGED <<stage, shown, interacted, running, recheck, late, rules, due>>
  BY <1>1 DEF UserRejects, granted
<1>3. Shrinks /\ ~Queued(p)' /\ \A q \in Prompts : Queued(q)' => q \notin Silenced(sigs)
  <2>1. /\ Shrinks /\ \A q \in Prompts : First(q) => ~Queued(q)'
        /\ \A q \in Prompts : Queued(q)' => q \notin Silenced(sigs)
    BY <1>2, Parts, DoneShrinks
  <2>2. QED
    BY <1>2, <2>1, OfferedIsFirst DEF Shrinks
<1>4. Settles /\ racing' \in [Prompts -> SUBSET Racer] /\ aborted' \subseteq Signals
  <2>1. CASE Open(p)
    <3>1. Claim(p, "deny") /\ answer[p] = "none" /\ "deny" \in Answers \ {"none"}
      BY <2>1 DEF UserRejects, Open, At, Answers
    <3>2. QED
      BY <1>2, <1>3, <3>1, AnswerLeaves
  <2>2. CASE ~Open(p)
    <3>1. UNCHANGED <<answer, web>>
      BY <2>2 DEF UserRejects
    <3>2. QED
      BY <1>2, <1>3, <3>1, SilenceLeaves
  <2>3. QED
    BY <2>1, <2>2
<1>5. OthersTyped /\ Announces
  BY <1>2, <1>4, Parts DEF OthersTyped, Announces
<1>6. QED
  BY <1>2, <1>3, <1>4, <1>5, SettledStep

\* Esc keeps the invariant.
LEMMA CancelKeeps == PromptInv /\ Cancel => PromptInv'
<1> SUFFICES ASSUME PromptInv, Cancel PROVE PromptInv'
  OBVIOUS
<1> DEFINE p == shown.prompt
<1>1. /\ running' = FALSE /\ queue' = <<>>
      /\ UNCHANGED <<stage, shown, interacted, rules, due, recheck, late>>
  BY DEF Cancel, granted
<1>2. Shrinks /\ \A q \in Prompts : ~Queued(q)'
  BY <1>1, EmptyShrinks
<1>3. shown # None => p \in Prompts
  BY Parts
<1>4. Settles /\ racing' \in [Prompts -> SUBSET Racer] /\ aborted' \subseteq Signals
  <2>1. CASE shown = None
    <3>1. {Main} \in SUBSET Signals /\ Ended(None, {}, {Main}) /\ UNCHANGED <<answer, web>>
      BY <2>1 DEF Cancel, Signals
    <3>2. QED
      BY <1>2, <3>1, SilenceLeaves
  <2>2. CASE shown # None /\ Open(p)
    <3>1. /\ Ended(p, {}, {Signal[p]}) /\ Claim(p, "abort") /\ answer[p] = "none"
          /\ "abort" \in Answers \ {"none"}
      BY <2>2 DEF Cancel, Open, At, Answers
    <3>2. {Signal[p]} \in SUBSET Signals
      BY <1>3, <2>2, TurnedType
    <3> HIDE DEF p
    <3>3. QED
      BY <1>2, <1>3, <2>2, <3>1, <3>2, AnswerLeaves
  <2>3. CASE shown # None /\ ~Open(p)
    <3>1. UNCHANGED <<racing, aborted, ticking, answer, web>>
      BY <2>3 DEF Cancel
    <3>2. QED
      BY <1>2, <3>1, Parts DEF Settles
  <2>4. QED
    BY <2>1, <2>2, <2>3
<1>5. OthersTyped /\ Announces
  BY <1>1, <1>4, Parts DEF OthersTyped, Announces
<1>6. QED
  BY <1>1, <1>2, <1>4, <1>5, SettledStep

\* A signal aborted from elsewhere keeps the invariant.
LEMMA AbortElsewhereKeeps ==
  ASSUME PromptInv, NEW sig \in Signals, AbortElsewhere(sig)
  PROVE  PromptInv'
<1>1. /\ Ended(None, {}, {sig}) /\ queue' = Without(Silenced({sig}))
      /\ UNCHANGED <<stage, answer, web, shown, interacted, running, rules, due, recheck, late>>
  BY DEF AbortElsewhere, granted
<1>2. Shrinks /\ \A q \in Prompts : Queued(q)' => q \notin Silenced({sig})
  BY <1>1, Parts, WithoutShrinks
<1>3. Settles /\ racing' \in [Prompts -> SUBSET Racer] /\ aborted' \subseteq Signals
  <2>1. {sig} \in SUBSET Signals
    OBVIOUS
  <2>2. QED
    BY <1>1, <1>2, <2>1, SilenceLeaves
<1>4. OthersTyped /\ Announces
  BY <1>1, <1>3, Parts DEF OthersTyped, Announces
<1>5. QED
  BY <1>1, <1>2, <1>3, <1>4, SettledStep

\* A step that changes nothing keeps the invariant.
LEMMA StutterKeeps == PromptInv /\ UNCHANGED vars => PromptInv'
  BY DEF PromptInv, TypeOK, AskedWhenSeen, ShownIsFirst, SurfacesAgree, RulesReachTheQueue,
         First, Queued, Open, At, vars, signals, granted

-----------------------------------------------------------------------------
\* Every step before a prompt is open keeps the invariant.
LEMMA AskingKeeps ==
  ASSUME PromptInv, NEW p \in Prompts, Asking(p)
  PROVE  PromptInv'
<1>1. CASE Check(p)
  BY <1>1, CheckKeeps
<1>2. CASE Speculated(p)
  <2>1. "allow" \in Answers \ {"none"}
    BY DEF Answers
  <2>2. QED
    BY <1>2, <2>1, EarlyAnswerKeeps DEF Speculated
<1>3. CASE AskTooLate(p)
  <2>1. "abort" \in Answers \ {"none"}
    BY DEF Answers
  <2>2. QED
    BY <1>3, <2>1, EarlyAnswerKeeps DEF AskTooLate
<1>4. CASE Ask(p)
  BY <1>4, AskKeeps
<1>5. CASE \E a \in {"allow", "deny"}, b, c \in BOOLEAN : Automated(p, a, b, c)
  BY <1>5, AutomatedKeeps
<1>6. QED
  BY <1>1, <1>2, <1>3, <1>4, <1>5 DEF Asking

\* Every racer of an open prompt keeps the invariant.
LEMMA RacesKeep ==
  ASSUME PromptInv, NEW p \in Prompts, Races(p)
  PROVE  PromptInv'
  BY HookAllowsKeeps, HookDeniesKeeps, HookAbstainsKeeps, ClassifierAllowsKeeps,
     RemoteAllowsKeeps, RemoteDeniesKeeps DEF Races

\* Every step keeps the invariant.
LEMMA StepPromptInv == PromptInv /\ [Next]_vars => PromptInv'
<1> SUFFICES ASSUME PromptInv, [Next]_vars PROVE PromptInv'
  OBVIOUS
<1>1. ASSUME NEW p \in Prompts,
             Asking(p) \/ Races(p) \/ TickEnds(p) \/ Interact(p) \/ RecheckReads(p) \/ RecheckClaims(p)
      PROVE  PromptInv'
  BY <1>1, AskingKeeps, RacesKeep, TickEndsKeeps, InteractKeeps, RecheckReadsKeeps,
     RecheckClaimsKeeps
<1>2. CASE ModeSwitch \/ RecheckAll \/ Render \/ Cancel
  BY <1>2, ModeSwitchKeeps, RecheckAllKeeps, RenderKeeps, CancelKeeps
<1>3. CASE UserDecides
  BY <1>3, UserAllowsKeeps, UserRejectsKeeps DEF UserDecides
<1>4. CASE \E sig \in Signals : AbortElsewhere(sig)
  BY <1>4, AbortElsewhereKeeps
<1>5. CASE UNCHANGED vars
  BY <1>5, StutterKeeps
<1>6. QED
  BY <1>1, <1>2, <1>3, <1>4, <1>5 DEF Next

(* The strengthened invariant holds of every behaviour of the prompts. *)
THEOREM PromptInvIsKept == Spec => []PromptInv
<1>1. Init => PromptInv
  BY InitPromptInv
<1>2. PromptInv /\ [Next]_vars => PromptInv'
  BY StepPromptInv
<1>3. QED
  BY <1>1, <1>2, PTL DEF Spec

(* No prompt is in the queue twice, only answers of the classifier tick. *)
THEOREM PromptsAreTyped == Spec => []TypeOK
<1>1. PromptInv => TypeOK
  BY DEF PromptInv
<1>2. QED
  BY <1>1, PromptInvIsKept, PTL

(* An answered prompt, whoever answered it, has left the web page and the   *)
(* queue, but for a dialog that a timer will remove.                       *)
THEOREM SurfacesAlwaysAgree == Spec => []SurfacesAgree
<1>1. PromptInv => SurfacesAgree
  BY DEF PromptInv
<1>2. QED
  BY <1>1, PromptInvIsKept, PTL

(* A permission that is given for good reaches every prompt in the queue. *)
THEOREM RulesAlwaysReachTheQueue == Spec => []RulesReachTheQueue
<1>1. PromptInv => RulesReachTheQueue
  BY DEF PromptInv
<1>2. QED
  BY <1>1, PromptInvIsKept, PTL
=============================================================================
