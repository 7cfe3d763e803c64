-------------------- MODULE StreamingToolExecutorProofs --------------------
(* Proofs about StreamingToolExecutor, for every set of kinds, every number *)
(* of calls and every cap.                                                  *)
EXTENDS StreamingToolExecutor, FiniteSetTheorems, SequenceTheorems,
        WellFoundedInduction, TLAPS

Labels == {"stream", "added", "collect", "emit", "loop", "pass", "passed", "wait", "done"}

\* First picks the least element of a set of numbers.
LEMMA FirstIsLeast ==
  ASSUME NEW S \in SUBSET Nat, S # {}
  PROVE  First(S) \in S /\ \A j \in S : First(S) <= j
<1> DEFINE less == {ss \in Nat \X Nat : ss[1] < ss[2]}
<1>1. IsWellFoundedOn(less, Nat)
  BY NatLessThanWellFounded, Zenon DEF OpToRel
<1>2. \A i, j \in Nat : i < j => <<i, j>> \in less
  OBVIOUS
<1> HIDE DEF less
<1>3. PICK x \in S : \A y \in S : ~ (<<y, x>> \in less)
  BY <1>1, WFMin
<1>4. ASSUME NEW y \in S PROVE x <= y
  <2>1. x \in Nat /\ y \in Nat
    OBVIOUS
  <2>2. y < x => <<y, x>> \in less
    BY <1>2, <2>1
  <2>3. ~ (y < x)
    BY <1>3, <2>2
  <2>4. QED
    BY <2>1, <2>3
<1>5. QED
  BY <1>4 DEF First

\* The positions of a status are finitely many numbers.
LEMMA WithType ==
  ASSUME NEW ts \in Seq(Tracked), NEW s
  PROVE  /\ With(ts, s) \in SUBSET Nat
         /\ IsFiniteSet(With(ts, s))
         /\ DOMAIN ts = 1..Len(ts) /\ Len(ts) \in Nat
<1>1. DOMAIN ts = 1..Len(ts) /\ Len(ts) \in Nat
  BY LenProperties
<1>2. With(ts, s) \in SUBSET (1..Len(ts)) /\ IsFiniteSet(1..Len(ts))
  BY <1>1, FS_Interval DEF With
<1>3. QED
  BY <1>1, <1>2, FS_Subset

\* The call a pass of the queue starts next is the first of all that wait, if
\* nothing that waits is behind the pass.
LEMMA StartsTheFirst ==
  ASSUME NEW ts \in Seq(Tracked), NEW p \in Nat,
         \A i \in With(ts, "queued") : i >= p,
         Startable(ts, p) # {}
  PROVE  LET k == First(Startable(ts, p)) IN
         /\ k \in With(ts, "queued")
         /\ CanExecute(ts, ts[k].kind.safe)
         /\ \A i \in With(ts, "queued") : i >= k
<1> DEFINE k == First(Startable(ts, p))
<1>1. With(ts, "queued") \in SUBSET Nat
  BY WithType
<1>2. Startable(ts, p) \in SUBSET Nat
  BY <1>1 DEF Startable
<1>3. k \in Startable(ts, p) /\ \A j \in Startable(ts, p) : k <= j
  BY <1>2, FirstIsLeast
<1> HIDE DEF k
<1>4. /\ k \in With(ts, "queued") /\ CanExecute(ts, ts[k].kind.safe)
      /\ \A j \in With(ts, "queued") : p <= j /\ j < k =>
           ts[j].kind.safe \/ CanExecute(ts, ts[j].kind.safe)
  BY <1>3 DEF Startable
<1>5. ASSUME NEW i \in With(ts, "queued"), i < k PROVE FALSE
  <2>1. CanExecute(ts, ts[i].kind.safe)
    BY <1>4, <1>5 DEF CanExecute
  <2>2. i \in Startable(ts, p)
    BY <1>1, <1>4, <1>5, <2>1 DEF Startable
  <2>3. QED
    BY <1>1, <1>3, <1>4, <1>5, <2>2
<1>6. QED
  BY <1>1, <1>4, <1>5 DEF k

-----------------------------------------------------------------------------
\* The fields of a call, and what may be written to them.
LEMMA TrackedFields ==
  ASSUME NEW call \in Tracked
  PROVE  /\ call.kind \in Kinds /\ call.status \in Statuses
         /\ call.answer \in Answers /\ call.prog \in BOOLEAN
         /\ \A s \in Statuses : [call EXCEPT !.status = s] \in Tracked
         /\ \A a \in Answers : [call EXCEPT !.status = "completed", !.answer = a] \in Tracked
         /\ \A b \in BOOLEAN : [call EXCEPT !.prog = b] \in Tracked
  BY DEF Tracked, Statuses

\* The reasons for a cancellation.
LEMMA ReasonType ==
  ASSUME NEW kind
  PROVE  AbortReason(kind) \in {"none", "sibling_error", "user_interrupted"}
  BY DEF AbortReason

\* A step that changes one call leaves the others, and the kind of that one.
LEMMA OneCallChanges ==
  ASSUME NEW ts \in Seq(Tracked), NEW k \in DOMAIN ts, NEW call \in Tracked,
         NEW us, us = [ts EXCEPT ![k] = call]
  PROVE  /\ us \in Seq(Tracked) /\ Len(us) = Len(ts) /\ DOMAIN us = DOMAIN ts
         /\ us[k] = call /\ \A j \in DOMAIN ts \ {k} : us[j] = ts[j]
<1>1. DOMAIN ts = 1..Len(ts)
  BY LenProperties
<1>2. us \in Seq(Tracked) /\ Len(us) = Len(ts)
  BY <1>1, ExceptSeq
<1>3. DOMAIN us = 1..Len(us)
  BY <1>2, LenProperties
<1>4. QED
  BY <1>1, <1>2, <1>3, ExceptSeq

\* Starting a call changes that call only, and perhaps starts a pass.
LEMMA ExecuteType ==
  ASSUME NEW ts \in Seq(Tracked), NEW k \in DOMAIN ts, NEW pending,
         Execute(ts, k, pending)
  PROVE  /\ tools' \in Seq(Tracked) /\ Len(tools') = Len(ts) /\ DOMAIN tools' = DOMAIN ts
         /\ \A j \in DOMAIN ts \ {k} : tools'[j] = ts[j]
         /\ tools'[k].kind = ts[k].kind /\ tools'[k].status \in {"executing", "completed"}
         /\ loops' \in {pending, pending \cup {1}}
<1>1. ts[k] \in Tracked
  BY LenProperties, ElementOfSeq
<1>2. CASE AbortReason(ts[k].kind) = "none"
  <2> DEFINE call == [ts[k] EXCEPT !.status = "executing"]
  <2>1. call \in Tracked
    BY <1>1, TrackedFields DEF Statuses
  <2>2. tools' = [ts EXCEPT ![k] = call] /\ loops' = pending
    BY <1>2 DEF Execute
  <2>3. call.kind = ts[k].kind /\ call.status = "executing"
    BY <1>1 DEF Tracked
  <2> HIDE DEF call
  <2>4. QED
    BY <2>1, <2>2, <2>3, OneCallChanges
<1>3. CASE AbortReason(ts[k].kind) # "none"
  <2> DEFINE reason == AbortReason(ts[k].kind)
             call == [ts[k] EXCEPT !.status = "completed", !.answer = reason]
  <2>1. reason \in Answers
    BY ReasonType DEF Answers
  <2>2. call \in Tracked
    BY <1>1, <2>1, TrackedFields
  <2>3. tools' = [ts EXCEPT ![k] = call] /\ loops' = pending \cup {1}
    BY <1>3 DEF Execute
  <2>4. call.kind = ts[k].kind /\ call.status = "completed"
    BY <1>1 DEF Tracked
  <2> HIDE DEF call
  <2>5. QED
    BY <2>2, <2>3, <2>4, OneCallChanges
<1>4. QED
  BY <1>2, <1>3

\* The first call that can start waits in the queue.
LEMMA StartableType ==
  ASSUME NEW ts \in Seq(Tracked), Len(ts) <= MaxTools, NEW p \in Nat, Startable(ts, p) # {}
  PROVE  LET k == First(Startable(ts, p)) IN
         k \in With(ts, "queued") /\ k \in DOMAIN ts /\ k \in 1..MaxTools
                                 /\ k + 1 \in Positions
<1>1. Startable(ts, p) \subseteq With(ts, "queued") /\ With(ts, "queued") \subseteq DOMAIN ts
  BY DEF Startable, With
<1>2. DOMAIN ts = 1..Len(ts) /\ Len(ts) \in Nat
  BY LenProperties
<1>3. Startable(ts, p) \in SUBSET Nat
  BY <1>1, <1>2
<1>4. First(Startable(ts, p)) \in Startable(ts, p)
  BY <1>3, FirstIsLeast
<1>5. QED
  BY <1>1, <1>2, <1>4, ConstantsAssumption DEF Positions

\* A fresh call is a call.
LEMMA NewCallType ==
  ASSUME NEW kind \in Kinds
  PROVE  NewCall(kind) \in Tracked
  BY DEF NewCall, Tracked, Statuses, Answers

\* The positions of the queue, in numbers.
LEMMA DomainType ==
  ASSUME TypeOK
  PROVE  /\ DOMAIN tools = 1..Len(tools) /\ Len(tools) \in Nat
         /\ DOMAIN tools \subseteq 1..MaxTools /\ Executing \subseteq DOMAIN tools
         /\ \A i \in DOMAIN tools : tools[i] \in Tracked
         /\ Positions \subseteq Nat /\ pos \in Nat
<1>1. DOMAIN tools = 1..Len(tools) /\ Len(tools) \in Nat
  BY LenProperties DEF TypeOK
<1>2. QED
  BY <1>1, ElementOfSeq, ConstantsAssumption DEF TypeOK, Executing, With, Positions

\* The types hold at the start.
LEMMA InitTypeOK == Init => TypeOK
<1> SUFFICES ASSUME Init PROVE TypeOK
  OBVIOUS
<1>1. tools \in Seq(Tracked) /\ Len(tools) <= MaxTools
  <2>1. tools \in Seq(Tracked) /\ Len(tools) = 0
    BY EmptySeq, Zenon DEF Init
  <2>2. QED
    BY <2>1, ConstantsAssumption
<1>2. context \in Seq(1..MaxTools) /\ seen \in Seq(1..MaxTools) /\ emitted \in Seq(1..MaxTools)
  BY EmptySeq, Zenon DEF Init
<1>3. pos \in Positions /\ retries \in 0..MaxRetries
  BY ConstantsAssumption DEF Init, Positions
<1>4. QED
  BY <1>1, <1>2, <1>3 DEF Init, TypeOK

\* What an action may do to the queue and leave a queue.
QueueType ==
  /\ tools \in Seq(Tracked) /\ Len(tools) <= MaxTools
  /\ hasErrored \in BOOLEAN
  /\ loops \subseteq Positions

\* Every step keeps the types of the queue.
LEMMA QueueTypeStays ==
  ASSUME TypeOK, [Next]_vars
  PROVE  QueueType'
<1> USE DomainType, ConstantsAssumption DEF QueueType
<1>0. QueueType
  BY DEF TypeOK
<1>a. 1 \in Positions
  BY DEF Positions
<1>1. ASSUME NEW kind \in Kinds, AddTool(kind) PROVE QueueType'
  <2> DEFINE ts == Append(tools, NewCall(kind))
             k == First(Startable(ts, 1))
  <2>1. ts \in Seq(Tracked) /\ Len(ts) = Len(tools) + 1
    BY <1>0, NewCallType, AppendProperties
  <2>2. Len(ts) <= MaxTools
    BY <1>1, <2>1 DEF AddTool
  <2>3. UNCHANGED hasErrored
    BY <1>1 DEF AddTool
  <2>4. CASE kind.known /\ Startable(ts, 1) # {}
    <3>1. Execute(ts, k, loops \cup {k + 1})
      BY <1>1, <2>4 DEF AddTool
    <3>2. k \in DOMAIN ts /\ k + 1 \in Positions
      BY <2>1, <2>2, <2>4, StartableType
    <3> HIDE DEF ts, k
    <3>3. /\ tools' \in Seq(Tracked) /\ Len(tools') = Len(ts)
          /\ loops' \subseteq loops \cup {k + 1} \cup {1}
      BY <2>1, <3>1, <3>2, ExecuteType
    <3>4. QED
      BY <1>0, <1>a, <2>2, <2>3, <3>2, <3>3
  <2>5. CASE ~(kind.known /\ Startable(ts, 1) # {})
    <3>1. tools' = ts /\ UNCHANGED loops
      BY <1>1, <2>5 DEF AddTool
    <3>2. QED
      BY <1>0, <2>1, <2>2, <2>3, <3>1
  <2>6. QED
    BY <2>4, <2>5
<1>2. ASSUME NEW p \in Positions, RunLoop(p) PROVE QueueType'
  <2> DEFINE k == First(Startable(tools, p))
  <2>1. UNCHANGED hasErrored
    BY <1>2 DEF RunLoop
  <2>2. CASE Startable(tools, p) = {}
    BY <1>0, <1>2, <2>1, <2>2 DEF RunLoop
  <2>3. CASE Startable(tools, p) # {}
    <3>1. Execute(tools, k, (loops \ {p}) \cup {k + 1})
      BY <1>2, <2>3 DEF RunLoop
    <3>2. k \in DOMAIN tools /\ k + 1 \in Positions
      BY <1>0, <2>3, StartableType
    <3> HIDE DEF k
    <3>3. /\ tools' \in Seq(Tracked) /\ Len(tools') = Len(tools)
          /\ loops' \subseteq loops \cup {k + 1} \cup {1}
      BY <1>0, <3>1, <3>2, ExecuteType
    <3>4. QED
      BY <1>0, <1>a, <2>1, <3>2, <3>3
  <2>4. QED
    BY <2>2, <2>3
<1>3. ASSUME NEW p \in Nat, DrainStep(p), UNCHANGED hasErrored PROVE QueueType'
  <2> DEFINE k == First(Startable(tools, p))
  <2>1. CASE Startable(tools, p) = {}
    BY <1>0, <1>3, <2>1 DEF DrainStep
  <2>2. CASE Startable(tools, p) # {}
    <3>1. Execute(tools, k, loops)
      BY <1>3, <2>2 DEF DrainStep
    <3>2. k \in DOMAIN tools
      BY <1>0, <2>2, StartableType
    <3> HIDE DEF k
    <3>3. /\ tools' \in Seq(Tracked) /\ Len(tools') = Len(tools)
          /\ loops' \subseteq loops \cup {1}
      BY <1>0, <3>1, <3>2, ExecuteType
    <3>4. QED
      BY <1>0, <1>a, <1>3, <3>3
  <2>3. QED
    BY <2>1, <2>2
<1>4. CASE DrainLoop \/ DrainPass
  BY <1>0, <1>3, <1>4 DEF DrainLoop, DrainPass
<1>5. CASE Discard
  <2>1. tools' \in Seq(Tracked) /\ Len(tools') = 0
    BY <1>5, EmptySeq, Zenon DEF Discard
  <2>2. hasErrored' = FALSE /\ loops' = {}
    BY <1>5 DEF Discard
  <2>3. Len(tools') <= MaxTools
    BY <2>1
  <2>4. loops' \subseteq Positions /\ hasErrored' \in BOOLEAN
    BY <2>2
  <2>5. QED
    BY <2>1, <2>3, <2>4
<1>6. CASE Emit
  <2> DEFINE i == First(Yieldable)
  <2>1. i \in DOMAIN tools
    <3>1. Yieldable \in SUBSET Nat /\ Yieldable \subseteq DOMAIN tools
      BY DEF Yieldable
    <3>2. QED
      BY <1>6, <3>1, FirstIsLeast DEF Emit
  <2>2. \E call \in Tracked : tools' = [tools EXCEPT ![i] = call]
    <3>1. [tools[i] EXCEPT !.prog = FALSE] \in Tracked
          /\ [tools[i] EXCEPT !.status = "yielded"] \in Tracked
      BY <2>1, TrackedFields DEF Statuses
    <3>2. tools' = [tools EXCEPT ![i] = [tools[i] EXCEPT !.prog = FALSE]]
          \/ tools' = [tools EXCEPT ![i] = [tools[i] EXCEPT !.status = "yielded"]]
      BY <1>6 DEF Emit
    <3>3. QED
      BY <3>1, <3>2
  <2> HIDE DEF i
  <2>3. tools' \in Seq(Tracked) /\ Len(tools') = Len(tools)
    BY <1>0, <2>1, <2>2, OneCallChanges
  <2>4. QED
    BY <1>0, <1>6, <2>3 DEF Emit
<1>7. ASSUME NEW i \in 1..MaxTools, ToolEnds(i) PROVE QueueType'
  <2>1. i \in DOMAIN tools
    BY <1>7 DEF ToolEnds, Cancelled, Answered, MayUpdate
  <2>2. \E call \in Tracked : tools' = [tools EXCEPT ![i] = call]
    <3>1. \A a \in Answers : [tools[i] EXCEPT !.status = "completed", !.answer = a] \in Tracked
      BY <2>1, TrackedFields
    <3>2. AbortReason(tools[i].kind) \in Answers
      BY ReasonType DEF Answers
    <3>3. \E a \in Answers :
            tools' = [tools EXCEPT ![i] = [tools[i] EXCEPT !.status = "completed", !.answer = a]]
      <4>1. CASE Cancelled(i)
        BY <3>2, <4>1, Zenon DEF Cancelled
      <4>2. ASSUME NEW answer \in {"ok", "error"}, Answered(i, answer)
            PROVE  \E a \in Answers : tools' =
                     [tools EXCEPT ![i] = [tools[i] EXCEPT !.status = "completed", !.answer = a]]
        <5>1. answer \in Answers
          BY DEF Answers
        <5>2. QED
          BY <4>2, <5>1, Zenon DEF Answered
      <4>3. QED
        BY <1>7, <4>1, <4>2 DEF ToolEnds
    <3>4. QED
      BY <3>1, <3>3
  <2>3. tools' \in Seq(Tracked) /\ Len(tools') = Len(tools)
    BY <1>0, <2>1, <2>2, OneCallChanges
  <2>4. loops' = loops \cup {1} /\ hasErrored' \in BOOLEAN
    BY <1>0, <1>7 DEF ToolEnds, Cancelled, Answered
  <2>5. QED
    BY <1>0, <1>a, <2>3, <2>4
<1>8. ASSUME NEW i \in 1..MaxTools, Progress(i) PROVE QueueType'
  <2>1. i \in DOMAIN tools
    BY <1>8 DEF Progress, MayUpdate
  <2>2. [tools[i] EXCEPT !.prog = TRUE] \in Tracked
    BY <2>1, TrackedFields
  <2>3. tools' = [tools EXCEPT ![i] = [tools[i] EXCEPT !.prog = TRUE]]
    BY <1>8 DEF Progress
  <2>4. tools' \in Seq(Tracked) /\ Len(tools') = Len(tools)
    BY <1>0, <2>1, <2>2, <2>3, OneCallChanges
  <2>5. QED
    BY <1>0, <1>8, <2>4 DEF Progress
<1>9. CASE UNCHANGED queue
  BY <1>0, <1>9 DEF queue
<1>10. QED
  BY <1>1, <1>2, <1>4, <1>5, <1>6, <1>7, <1>8, <1>9
     DEF Next, Caller, TakeResults, StreamEnds, OrphanEnds, Emitted, Collected, Wake,
         DrainCollect, Abort, vars

\* The rest of the type invariant.
CallerType ==
  /\ aborted \in {"no", "interrupt", "abort"}
  /\ draining \in BOOLEAN
  /\ at \in Labels
  /\ pos \in Positions
  /\ waits \subseteq 1..MaxTools
  /\ context \in Seq(1..MaxTools) /\ seen \in Seq(1..MaxTools) /\ emitted \in Seq(1..MaxTools)
  /\ orphans \subseteq [kind: Kinds, id: (0..MaxRetries) \X (1..MaxTools)]
  /\ retries \in 0..MaxRetries

\* The type invariant in two halves.
LEMMA TypeOKParts == TypeOK <=> QueueType /\ CallerType
  BY DEF TypeOK, QueueType, CallerType, Labels

\* Every step keeps the types of the caller's part.
LEMMA CallerTypeStays ==
  ASSUME TypeOK, [Next]_vars
  PROVE  CallerType'
<1>0. QueueType /\ CallerType
  BY TypeOKParts
<1> USE DomainType, ConstantsAssumption DEF CallerType, QueueType, history, retry, caller, Labels
<1>1. ASSUME NEW kind \in Kinds, AddTool(kind) PROVE CallerType'
  BY <1>0, <1>1 DEF AddTool
<1>2. CASE TakeResults \/ StreamEnds \/ Emitted \/ Wake \/ DrainCollect
  <2>1. 1 \in Positions
    BY DEF Positions
  <2>2. QED
    BY <1>0, <1>2, <2>1 DEF TakeResults, StreamEnds, Emitted, Wake, DrainCollect
<1>3. CASE Discard
  <2>1. context' \in Seq(1..MaxTools) /\ seen' \in Seq(1..MaxTools) /\ emitted' \in Seq(1..MaxTools)
    BY <1>3, EmptySeq, Zenon DEF Discard
  <2>2. retries' \in 0..MaxRetries /\ retries \in 0..MaxRetries
    BY <1>0, <1>3 DEF Discard
  <2>3. \A i \in Executing : tools[i].kind \in Kinds /\ i \in 1..MaxTools
    BY TrackedFields
  <2>4. orphans' \subseteq [kind: Kinds, id: (0..MaxRetries) \X (1..MaxTools)]
    BY <1>0, <1>3, <2>2, <2>3 DEF Discard
  <2>5. UNCHANGED <<aborted, draining, at, pos, waits>>
    BY <1>3 DEF Discard
  <2>6. QED
    BY <1>0, <2>1, <2>2, <2>4, <2>5
<1>4. ASSUME NEW o \in orphans, OrphanEnds(o) PROVE CallerType'
  BY <1>0, <1>4 DEF OrphanEnds
<1>5. ASSUME NEW p \in Positions, RunLoop(p) PROVE CallerType'
  BY <1>0, <1>5 DEF RunLoop
<1>6. CASE Emit
  <2> DEFINE i == First(Yieldable)
  <2>1. i \in DOMAIN tools
    <3>1. Yieldable \in SUBSET Nat /\ Yieldable \subseteq DOMAIN tools
      BY DEF Yieldable
    <3>2. QED
      BY <1>6, <3>1, FirstIsLeast DEF Emit
  <2>2. pos' \in {i, i + 1} /\ emitted' \in {emitted, Append(emitted, i)}
        /\ seen' \in {seen, context} /\ at' = "emit"
        /\ UNCHANGED <<aborted, draining, waits, context, orphans, retries>>
    BY <1>6 DEF Emit
  <2> HIDE DEF i
  <2>3. i \in 1..MaxTools /\ i \in Positions /\ i + 1 \in Positions
    BY <2>1 DEF Positions
  <2>4. Append(emitted, i) \in Seq(1..MaxTools)
    BY <1>0, <2>3, AppendProperties
  <2>5. QED
    BY <1>0, <2>2, <2>3, <2>4
<1>7. CASE Collected
  <2>1. Executing \subseteq 1..MaxTools
    OBVIOUS
  <2>2. QED
    BY <1>0, <1>7, <2>1 DEF Collected
<1>8. ASSUME NEW p \in Positions, DrainStep(p) PROVE at' \in Labels /\ pos' \in Positions
  <2>1. CASE Startable(tools, p) = {}
    BY <1>8, <2>1 DEF DrainStep, Positions
  <2>2. CASE Startable(tools, p) # {}
    <3>1. First(Startable(tools, p)) + 1 \in Positions
      BY <1>0, <2>2, StartableType
    <3>2. QED
      BY <1>8, <2>2, <3>1 DEF DrainStep
  <2>3. QED
    BY <2>1, <2>2
<1>9. CASE DrainLoop \/ DrainPass
  <2>1. 1 \in Positions /\ pos \in Positions
    BY <1>0 DEF Positions
  <2>2. at' \in Labels /\ pos' \in Positions
    BY <1>0, <1>8, <1>9, <2>1 DEF DrainLoop, DrainPass
  <2>3. UNCHANGED <<aborted, draining, waits, history, retry>>
    BY <1>9 DEF DrainLoop, DrainPass
  <2>4. QED
    BY <1>0, <2>2, <2>3
<1>10. ASSUME NEW i \in 1..MaxTools, ToolEnds(i) PROVE CallerType'
  <2>1. i \in DOMAIN tools
    BY <1>10 DEF ToolEnds, Cancelled, Answered, MayUpdate
  <2>2. Append(context, i) \in Seq(1..MaxTools)
    BY <1>0, AppendProperties
  <2>3. context' \in {context, Append(context, i)}
        /\ UNCHANGED <<aborted, caller, seen, emitted, retry>>
    BY <1>10 DEF ToolEnds, Cancelled, Answered
  <2>4. QED
    BY <1>0, <2>2, <2>3
<1>11. ASSUME NEW i \in 1..MaxTools, Progress(i) PROVE CallerType'
  BY <1>0, <1>11 DEF Progress
<1>12. ASSUME NEW reason \in {"interrupt", "abort"}, Abort(reason) PROVE CallerType'
  BY <1>0, <1>12 DEF Abort
<1>13. CASE UNCHANGED vars
  BY <1>0, <1>13 DEF vars
<1>14. QED
  BY <1>1, <1>2, <1>3, <1>4, <1>5, <1>6, <1>7, <1>9, <1>10, <1>11, <1>12, <1>13
     DEF Next, Caller

\* Every step keeps the types.
LEMMA StepTypeOK == TypeOK /\ [Next]_vars => TypeOK'
<1>1. TypeOK' <=> QueueType' /\ CallerType'
  BY DEF TypeOK, QueueType, CallerType, Labels
<1>2. QED
  BY <1>1, QueueTypeStays, CallerTypeStays

\* The queue, the caller's position and what it has seen always hold values of
\* their kind, for any kinds of calls, bounds and cap (TypeOK).
THEOREM TypeCorrect == Spec => []TypeOK
  BY InitTypeOK, StepTypeOK, PTL DEF Spec

-----------------------------------------------------------------------------
\* What holds of the queue between any two steps.
Ordered(ts) ==
  \A i, j \in DOMAIN ts :
    i < j /\ ts[j].kind.known /\ ts[i].status = "queued" => ts[j].status = "queued"

Apart(ts) ==
  /\ Cardinality(With(ts, "executing")) <= Cap
  /\ \A i, j \in With(ts, "executing") : i # j => ts[i].kind.safe

\* Nothing that waits is behind position p.
Ahead(ts, p) == \A i \in With(ts, "queued") : i >= p

\* Every suspended pass of the queue, the drain's own included, has everything
\* that waits before it: this is why a pass that goes on finds the first call.
PassesAhead ==
  /\ \A p \in loops : p <= Len(tools) + 1 /\ Ahead(tools, p)
  /\ at = "pass" => Ahead(tools, pos)

QueueOK == Ordered(tools) /\ Apart(tools) /\ PassesAhead

\* Starting the first of the calls that wait keeps the order and the exclusion.
LEMMA Starting ==
  ASSUME NEW ts \in Seq(Tracked), NEW k \in With(ts, "queued"), NEW pending,
         CanExecute(ts, ts[k].kind.safe), Ahead(ts, k), Ordered(ts), Apart(ts),
         Execute(ts, k, pending)
  PROVE  /\ Ordered(tools') /\ Apart(tools')
         /\ With(tools', "queued") \subseteq With(ts, "queued") \ {k}
         /\ Len(tools') = Len(ts)
         /\ loops' \subseteq pending \cup {1}
<1> DEFINE E == With(ts, "executing")
           F == With(tools', "executing")
<1>0. k \in DOMAIN ts /\ ts[k].status = "queued"
  BY DEF With
<1>1. /\ tools' \in Seq(Tracked) /\ Len(tools') = Len(ts) /\ DOMAIN tools' = DOMAIN ts
      /\ \A j \in DOMAIN ts \ {k} : tools'[j] = ts[j]
      /\ tools'[k].kind = ts[k].kind /\ tools'[k].status \in {"executing", "completed"}
      /\ loops' \in {pending, pending \cup {1}}
  BY <1>0, ExecuteType
<1>2. DOMAIN ts = 1..Len(ts) /\ Len(ts) \in Nat /\ IsFiniteSet(E) /\ IsFiniteSet(F)
  BY <1>1, WithType
<1>3. With(tools', "queued") \subseteq With(ts, "queued") \ {k}
  BY <1>1 DEF With
<1>4. Ordered(tools')
  <2> SUFFICES ASSUME NEW i \in DOMAIN ts, NEW j \in DOMAIN ts, i < j,
                      tools'[j].kind.known, tools'[i].status = "queued"
               PROVE  tools'[j].status = "queued"
    BY <1>1 DEF Ordered
  <2>1. i # k /\ ts[i].status = "queued"
    BY <1>1
  <2>2. i >= k
    BY <2>1 DEF Ahead, With
  <2>3. j # k /\ tools'[j] = ts[j]
    BY <1>1, <1>2, <2>2
  <2>4. QED
    BY <1>2, <2>1, <2>3 DEF Ordered
<1>5. F \subseteq E \cup {k}
  BY <1>1 DEF With
<1>6. \A i \in E : i # k /\ tools'[i] = ts[i]
  BY <1>0, <1>1 DEF With
<1>7. Cardinality(F) <= Cap
  <2>1. Cap \in Nat /\ 1 <= Cap
    BY ConstantsAssumption
  <2>2. Cardinality(E) \in Nat /\ Cardinality(F) \in Nat
    BY <1>2, FS_CardinalityType
  <2>3. IsFiniteSet(E \cup {k}) /\ Cardinality(E \cup {k}) = Cardinality(E) + 1
    BY <1>2, <1>6, FS_AddElement
  <2>4. Cardinality(F) <= Cardinality(E) + 1
    BY <1>5, <2>3, FS_Subset
  <2>5. CASE E = {}
    <3>1. Cardinality(E) = 0
      BY <2>5, FS_EmptySet
    <3> HIDE DEF E, F
    <3>2. QED
      BY <2>1, <2>2, <2>4, <3>1
  <2>6. CASE E # {}
    BY <2>1, <2>2, <2>4, <2>6 DEF CanExecute
  <2>7. QED
    BY <2>5, <2>6
<1>8. \A i, j \in F : i # j => tools'[i].kind.safe
  BY <1>1, <1>5, <1>6 DEF Apart, CanExecute
<1>9. QED
  BY <1>1, <1>3, <1>4, <1>7, <1>8 DEF Apart

\* A step that starts nothing and puts nothing in the queue keeps them too.
LEMMA NotStarting ==
  ASSUME NEW ts \in Seq(Tracked), NEW us \in Seq(Tracked), DOMAIN us = DOMAIN ts,
         \A j \in DOMAIN ts :
           /\ us[j].kind = ts[j].kind
           /\ \/ us[j].status = ts[j].status
              \/ ts[j].status # "queued" /\ us[j].status \in {"completed", "yielded"}
  PROVE  /\ With(us, "queued") = With(ts, "queued")
         /\ Ordered(ts) => Ordered(us)
         /\ Apart(ts) => Apart(us)
<1>1. With(us, "queued") = With(ts, "queued")
  BY DEF With
<1>2. Ordered(ts) => Ordered(us)
  <2> SUFFICES ASSUME Ordered(ts), NEW i \in DOMAIN ts, NEW j \in DOMAIN ts, i < j,
                      us[j].kind.known, us[i].status = "queued"
               PROVE  us[j].status = "queued"
    BY DEF Ordered
  <2>1. ts[i].status = "queued" /\ ts[j].kind.known
    OBVIOUS
  <2>2. ts[j].status = "queued"
    BY <2>1 DEF Ordered
  <2>3. QED
    BY <2>2
<1>3. Apart(ts) => Apart(us)
  <2> SUFFICES ASSUME Apart(ts) PROVE Apart(us)
    OBVIOUS
  <2>1. With(us, "executing") \subseteq With(ts, "executing")
    BY DEF With
  <2>2. Cardinality(With(us, "executing")) <= Cardinality(With(ts, "executing"))
    BY <2>1, WithType, FS_Subset
  <2>3. /\ Cardinality(With(us, "executing")) \in Nat
        /\ Cardinality(With(ts, "executing")) \in Nat /\ Cap \in Nat
    BY WithType, FS_CardinalityType, ConstantsAssumption
  <2>4. Cardinality(With(us, "executing")) <= Cap
    BY <2>2, <2>3 DEF Apart
  <2>5. \A i, j \in With(us, "executing") : i # j => us[i].kind.safe
    BY <2>1 DEF Apart, With
  <2>6. QED
    BY <2>4, <2>5 DEF Apart
<1>4. QED
  BY <1>1, <1>2, <1>3

\* The queue's invariant holds at the start.
LEMMA InitQueueOK == Init => QueueOK
<1> SUFFICES ASSUME Init PROVE QueueOK
  OBVIOUS
<1>1. DOMAIN tools = {}
  <2>1. tools \in Seq(Tracked) /\ Len(tools) = 0
    BY EmptySeq, Zenon DEF Init
  <2>2. QED
    BY <2>1, LenProperties
<1>2. With(tools, "executing") = {} /\ With(tools, "queued") = {}
  BY <1>1 DEF With
<1>3. Apart(tools)
  <2>1. Cardinality(With(tools, "executing")) = 0
    BY <1>2, FS_EmptySet
  <2>2. QED
    BY <1>2, <2>1, ConstantsAssumption DEF Apart
<1>4. Ordered(tools)
  BY <1>1 DEF Ordered
<1>5. PassesAhead
  BY DEF PassesAhead, Init
<1>6. QED
  BY <1>3, <1>4, <1>5 DEF QueueOK

\* If nothing new waits and the queue has not become shorter, the passes that
\* were suspended before are still ahead.
LEMMA StillAhead ==
  ASSUME With(tools', "queued") \subseteq With(tools, "queued"), Len(tools') = Len(tools),
         NEW p, Ahead(tools, p)
  PROVE  Ahead(tools', p)
  BY DEF Ahead

\* A step of a suspended pass (or of the drain's own) from p on.
LEMMA PassStarts ==
  ASSUME TypeOK, QueueOK, NEW p \in Positions, Ahead(tools, p), Startable(tools, p) # {},
         NEW pending, Execute(tools, First(Startable(tools, p)), pending)
  PROVE  LET k == First(Startable(tools, p)) IN
         /\ Ordered(tools') /\ Apart(tools')
         /\ With(tools', "queued") \subseteq With(tools, "queued")
         /\ Len(tools') = Len(tools)
         /\ loops' \subseteq pending \cup {1}
         /\ Ahead(tools', k + 1) /\ k + 1 <= Len(tools) + 1
<1> DEFINE k == First(Startable(tools, p))
<1>1. p \in Nat /\ tools \in Seq(Tracked) /\ With(tools, "queued") \in SUBSET Nat
  BY WithType, DomainType DEF TypeOK
<1>2. /\ k \in With(tools, "queued") /\ CanExecute(tools, tools[k].kind.safe)
      /\ \A i \in With(tools, "queued") : i >= k
  BY <1>1, StartsTheFirst DEF Ahead
<1> HIDE DEF k
<1>3. /\ Ordered(tools') /\ Apart(tools')
      /\ With(tools', "queued") \subseteq With(tools, "queued") \ {k}
      /\ Len(tools') = Len(tools) /\ loops' \subseteq pending \cup {1}
  BY <1>1, <1>2, Starting DEF k, QueueOK, Ahead
<1>4. Ahead(tools', k + 1)
  BY <1>1, <1>2, <1>3 DEF Ahead
<1>5. k \in 1..Len(tools) /\ Len(tools) \in Nat
  BY <1>2, DomainType DEF With
<1>6. QED
  BY <1>3, <1>4, <1>5 DEF k

\* Every step keeps the queue's invariant.
LEMMA StepQueueOK == TypeOK /\ QueueOK /\ [Next]_vars => QueueOK'
<1> SUFFICES ASSUME TypeOK, QueueOK, [Next]_vars PROVE QueueOK'
  OBVIOUS
<1>0. /\ tools \in Seq(Tracked) /\ tools' \in Seq(Tracked)
      /\ DOMAIN tools = 1..Len(tools) /\ Len(tools) \in Nat /\ With(tools, "queued") \in SUBSET (1..Len(tools))
      /\ loops \subseteq Positions /\ Positions \subseteq Nat /\ pos \in Positions
      /\ 1 \in Positions
  <2>1. tools \in Seq(Tracked) /\ loops \subseteq Positions /\ pos \in Positions
    BY DEF TypeOK
  <2>2. tools' \in Seq(Tracked)
    <3>1. TypeOK'
      BY StepTypeOK
    <3>2. QED
      BY <3>1 DEF TypeOK
  <2>3. DOMAIN tools = 1..Len(tools) /\ Len(tools) \in Nat
    BY <2>1, DomainType
  <2>4. With(tools, "queued") \in SUBSET (1..Len(tools))
    BY <2>3 DEF With
  <2>5. Positions \subseteq Nat /\ 1 \in Positions
    BY ConstantsAssumption DEF Positions
  <2>6. QED
    BY <2>1, <2>2, <2>3, <2>4, <2>5
<1>1. Ahead(tools, 1)
  BY <1>0 DEF Ahead
<1>2. \A ts \in Seq(Tracked) : Ahead(ts, 1)
  BY WithType, LenProperties DEF Ahead, With
<1>3. ASSUME NEW i \in DOMAIN tools, NEW call \in Tracked, tools' = [tools EXCEPT ![i] = call],
             call.kind = tools[i].kind,
             \/ call.status = tools[i].status
             \/ tools[i].status # "queued" /\ call.status \in {"completed", "yielded"},
             loops' \subseteq loops \cup {1}, at' = "pass" => at = "pass" /\ pos' = pos
      PROVE  QueueOK'
  <2>1. /\ Len(tools') = Len(tools) /\ DOMAIN tools' = DOMAIN tools
        /\ tools'[i] = call /\ \A j \in DOMAIN tools \ {i} : tools'[j] = tools[j]
    BY <1>0, <1>3, OneCallChanges
  <2>2. \A j \in DOMAIN tools :
           /\ tools'[j].kind = tools[j].kind
           /\ \/ tools'[j].status = tools[j].status
              \/ tools[j].status # "queued" /\ tools'[j].status \in {"completed", "yielded"}
    BY <1>3, <2>1
  <2>3. With(tools', "queued") = With(tools, "queued") /\ Ordered(tools') /\ Apart(tools')
    BY <1>0, <2>1, <2>2, NotStarting DEF QueueOK
  <2>4. PassesAhead'
    <3>1. \A p : Ahead(tools, p) => Ahead(tools', p)
      BY <2>1, <2>3 DEF Ahead
    <3>2. Ahead(tools', 1) /\ 1 <= Len(tools') + 1
      BY <1>0, <1>2, <2>1
    <3>3. \A p \in loops' : p <= Len(tools') + 1 /\ Ahead(tools', p)
      BY <1>3, <2>1, <3>1, <3>2 DEF PassesAhead, QueueOK
    <3>4. at' = "pass" => Ahead(tools', pos')
      BY <1>3, <2>1, <3>1 DEF PassesAhead, QueueOK
    <3>5. QED
      BY <3>3, <3>4 DEF PassesAhead
  <2>5. QED
    BY <2>3, <2>4 DEF QueueOK
<1>4. ASSUME NEW kind \in Kinds, AddTool(kind) PROVE QueueOK'
  <2> DEFINE call == NewCall(kind)
             ts == Append(tools, call)
             k == First(Startable(ts, 1))
             n == Len(tools) + 1
  <2>1. call \in Tracked /\ (call.status = "queued" <=> kind.known) /\ call.kind = kind
        /\ call.status \in {"queued", "completed"}
    BY NewCallType DEF NewCall
  <2> HIDE DEF call
  <2>2. /\ ts \in Seq(Tracked) /\ Len(ts) = n /\ DOMAIN ts = 1..n
        /\ ts[n] = call /\ \A j \in 1..Len(tools) : ts[j] = tools[j]
    BY <1>0, <2>1, AppendProperties, LenProperties
  <2> HIDE DEF ts
  <2>3. /\ With(ts, "queued") \subseteq With(tools, "queued") \cup {n}
        /\ With(ts, "executing") = With(tools, "executing")
    BY <1>0, <2>1, <2>2 DEF With
  <2>4. Ordered(ts)
    BY <1>0, <2>1, <2>2 DEF Ordered, QueueOK
  <2>5. Apart(ts)
    BY <1>0, <2>2, <2>3 DEF Apart, QueueOK, With
  <2>6. \A p \in loops : p <= n /\ Ahead(ts, p)
    BY <1>0, <2>3 DEF QueueOK, PassesAhead, Ahead
  <2>7. at' = "added"
    BY <1>4 DEF AddTool
  <2>8. CASE kind.known /\ Startable(ts, 1) # {}
    <3>1. Execute(ts, k, loops \cup {k + 1})
      BY <1>4, <2>8 DEF AddTool, ts, call
    <3>2. /\ k \in With(ts, "queued") /\ CanExecute(ts, ts[k].kind.safe)
          /\ \A i \in With(ts, "queued") : i >= k
      BY <1>2, <2>2, <2>8, StartsTheFirst DEF Ahead
    <3> HIDE DEF k
    <3>3. /\ Ordered(tools') /\ Apart(tools')
          /\ With(tools', "queued") \subseteq With(ts, "queued") \ {k}
          /\ Len(tools') = n /\ loops' \subseteq loops \cup {k + 1} \cup {1}
      BY <2>2, <2>4, <2>5, <3>1, <3>2, Starting DEF Ahead
    <3>4. k \in 1..n /\ With(ts, "queued") \in SUBSET Nat
      BY <2>2, <3>2, WithType DEF With
    <3>5. Ahead(tools', k + 1) /\ \A p \in loops : Ahead(tools', p)
      BY <2>6, <3>2, <3>3, <3>4 DEF Ahead
    <3>6. PassesAhead'
      BY <1>0, <1>2, <2>6, <2>7, <3>3, <3>4, <3>5 DEF PassesAhead
    <3>7. QED
      BY <3>3, <3>6 DEF QueueOK
  <2>9. CASE ~(kind.known /\ Startable(ts, 1) # {})
    <3>1. tools' = ts /\ loops' = loops
      BY <1>4, <2>9 DEF AddTool, ts, call
    <3>2. PassesAhead'
      BY <1>0, <2>2, <2>6, <2>7, <3>1 DEF PassesAhead
    <3>3. QED
      BY <2>4, <2>5, <3>1, <3>2 DEF QueueOK
  <2>10. QED
    BY <2>8, <2>9
<1>5. ASSUME NEW p \in Positions, RunLoop(p) PROVE QueueOK'
  <2> DEFINE k == First(Startable(tools, p))
  <2>1. Ahead(tools, p) /\ UNCHANGED <<at, pos>>
    BY <1>5 DEF RunLoop, QueueOK, PassesAhead, caller
  <2>2. CASE Startable(tools, p) = {}
    BY <1>5, <2>1, <2>2 DEF RunLoop, QueueOK, PassesAhead, Ahead, Ordered, Apart, With
  <2>3. CASE Startable(tools, p) # {}
    <3>1. Execute(tools, k, (loops \ {p}) \cup {k + 1})
      BY <1>5, <2>3 DEF RunLoop
    <3>2. /\ Ordered(tools') /\ Apart(tools')
          /\ With(tools', "queued") \subseteq With(tools, "queued")
          /\ Len(tools') = Len(tools)
          /\ loops' \subseteq (loops \ {p}) \cup {k + 1} \cup {1}
          /\ Ahead(tools', k + 1) /\ k + 1 <= Len(tools) + 1
      BY <2>1, <2>3, <3>1, PassStarts
    <3> HIDE DEF k
    <3>3. PassesAhead'
      BY <1>0, <1>2, <2>1, <3>2, StillAhead DEF QueueOK, PassesAhead
    <3>4. QED
      BY <3>2, <3>3 DEF QueueOK
  <2>4. QED
    BY <2>2, <2>3
<1>6. ASSUME NEW p \in Positions, Ahead(tools, p), DrainStep(p) PROVE QueueOK'
  <2> DEFINE k == First(Startable(tools, p))
  <2>1. CASE Startable(tools, p) = {}
    BY <1>6, <2>1 DEF DrainStep, QueueOK, PassesAhead, Ahead, Ordered, Apart, With
  <2>2. CASE Startable(tools, p) # {}
    <3>1. Execute(tools, k, loops) /\ pos' = k + 1
      BY <1>6, <2>2 DEF DrainStep
    <3>2. /\ Ordered(tools') /\ Apart(tools')
          /\ With(tools', "queued") \subseteq With(tools, "queued")
          /\ Len(tools') = Len(tools)
          /\ loops' \subseteq loops \cup {1}
          /\ Ahead(tools', k + 1)
      BY <1>6, <2>2, <3>1, PassStarts
    <3> HIDE DEF k
    <3>3. PassesAhead'
      BY <1>0, <1>2, <3>1, <3>2, StillAhead DEF QueueOK, PassesAhead
    <3>4. QED
      BY <3>2, <3>3 DEF QueueOK
  <2>3. QED
    BY <2>1, <2>2
<1>7. CASE DrainLoop
  <2>1. CASE DrainStep(1)
    BY <1>0, <1>1, <1>6, <2>1
  <2>2. CASE at' = "done" /\ UNCHANGED <<tools, loops, pos>>
    BY <2>2 DEF QueueOK, PassesAhead, Ahead, Ordered, Apart, With
  <2>3. QED
    BY <1>7, <2>1, <2>2 DEF DrainLoop
<1>8. CASE DrainPass
  <2>1. DrainStep(pos) /\ Ahead(tools, pos)
    BY <1>8 DEF DrainPass, QueueOK, PassesAhead
  <2>2. QED
    BY <1>0, <1>6, <2>1
<1>9. CASE Discard
  <2>1. tools' \in Seq(Tracked) /\ Len(tools') = 0
    BY <1>9, EmptySeq, Zenon DEF Discard
  <2>2. DOMAIN tools' = {}
    BY <2>1, LenProperties
  <2>3. With(tools', "executing") = {} /\ With(tools', "queued") = {}
    BY <2>2 DEF With
  <2>4. Cardinality(With(tools', "executing")) = 0
    BY <2>3, FS_EmptySet
  <2>5. Apart(tools')
    BY <2>3, <2>4, ConstantsAssumption DEF Apart
  <2>6. Ordered(tools')
    BY <2>2 DEF Ordered
  <2>7. PassesAhead'
    BY <1>9, <2>3 DEF Discard, PassesAhead, caller
  <2>8. QED
    BY <2>5, <2>6, <2>7 DEF QueueOK
<1>10. CASE Emit
  <2> DEFINE i == First(Yieldable)
  <2>1. i \in Yieldable
    <3>1. Yieldable \in SUBSET Nat
      BY <1>0 DEF Yieldable
    <3>2. QED
      BY <1>10, <3>1, FirstIsLeast DEF Emit
  <2>2. i \in DOMAIN tools /\ HasNews(i) /\ tools[i] \in Tracked
    BY <2>1, DomainType DEF Yieldable
  <2>3. loops' = loops /\ at' = "emit"
    BY <1>10 DEF Emit
  <2>4. CASE tools[i].prog
    <3>1. tools' = [tools EXCEPT ![i] = [tools[i] EXCEPT !.prog = FALSE]]
      BY <1>10, <2>4 DEF Emit
    <3>2. [tools[i] EXCEPT !.prog = FALSE] \in Tracked
          /\ [tools[i] EXCEPT !.prog = FALSE].kind = tools[i].kind
          /\ [tools[i] EXCEPT !.prog = FALSE].status = tools[i].status
      BY <2>2 DEF Tracked
    <3> HIDE DEF i
    <3>3. QED
      BY <1>3, <2>2, <2>3, <3>1, <3>2
  <2>5. CASE ~tools[i].prog
    <3>1. tools' = [tools EXCEPT ![i] = [tools[i] EXCEPT !.status = "yielded"]]
      BY <1>10, <2>5 DEF Emit
    <3>2. [tools[i] EXCEPT !.status = "yielded"] \in Tracked
          /\ [tools[i] EXCEPT !.status = "yielded"].kind = tools[i].kind
          /\ [tools[i] EXCEPT !.status = "yielded"].status = "yielded"
      BY <2>2 DEF Tracked, Statuses
    <3>3. tools[i].status # "queued"
      BY <2>2, <2>5 DEF HasNews
    <3> HIDE DEF i
    <3>4. QED
      BY <1>3, <2>2, <2>3, <3>1, <3>2, <3>3
  <2>6. QED
    BY <2>4, <2>5
<1>11. ASSUME NEW i \in 1..MaxTools, ToolEnds(i) PROVE QueueOK'
  <2>1. i \in DOMAIN tools /\ tools[i].status = "executing" /\ tools[i] \in Tracked
    BY <1>11, DomainType DEF ToolEnds, Cancelled, Answered, MayUpdate, Executing, With
  <2>2. PICK a \in Answers :
          tools' = [tools EXCEPT ![i] = [tools[i] EXCEPT !.status = "completed", !.answer = a]]
    <3>1. CASE Cancelled(i)
      <4>1. AbortReason(tools[i].kind) \in Answers
        BY ReasonType DEF Answers
      <4>2. QED
        BY <3>1, <4>1, Zenon DEF Cancelled
    <3>2. ASSUME NEW answer \in {"ok", "error"}, Answered(i, answer)
          PROVE  \E a \in Answers : tools' =
                   [tools EXCEPT ![i] = [tools[i] EXCEPT !.status = "completed", !.answer = a]]
      <4>1. answer \in Answers
        BY DEF Answers
      <4>2. QED
        BY <3>2, <4>1, Zenon DEF Answered
    <3>3. QED
      BY <1>11, <3>1, <3>2 DEF ToolEnds
  <2>3. loops' = loops \cup {1} /\ UNCHANGED <<at, pos>>
    BY <1>11 DEF ToolEnds, Cancelled, Answered, caller
  <2> DEFINE call == [tools[i] EXCEPT !.status = "completed", !.answer = a]
  <2>4. call \in Tracked /\ call.kind = tools[i].kind /\ call.status = "completed"
    BY <2>1 DEF Tracked, Statuses
  <2>5. tools' = [tools EXCEPT ![i] = call]
    BY <2>2
  <2> HIDE DEF call
  <2>6. QED
    BY <1>3, <2>1, <2>3, <2>4, <2>5
<1>12. ASSUME NEW i \in 1..MaxTools, Progress(i) PROVE QueueOK'
  <2>1. i \in DOMAIN tools /\ tools[i] \in Tracked
    BY <1>12, DomainType DEF Progress, MayUpdate
  <2> DEFINE call == [tools[i] EXCEPT !.prog = TRUE]
  <2>2. call \in Tracked /\ call.kind = tools[i].kind /\ call.status = tools[i].status
    BY <2>1 DEF Tracked
  <2>3. tools' = [tools EXCEPT ![i] = call] /\ UNCHANGED <<loops, at, pos>>
    BY <1>12 DEF Progress, caller
  <2> HIDE DEF call
  <2>4. QED
    BY <1>3, <2>1, <2>2, <2>3
<1>13. ASSUME UNCHANGED <<tools, loops>>, at' # "pass" \/ UNCHANGED <<at, pos>> PROVE QueueOK'
  BY <1>13 DEF QueueOK, PassesAhead, Ahead, Ordered, Apart, With
<1>14. CASE \/ TakeResults \/ StreamEnds \/ Emitted \/ Collected \/ Wake \/ DrainCollect
  BY <1>13, <1>14 DEF TakeResults, StreamEnds, Emitted, Collected, Wake, DrainCollect, queue
<1>15. ASSUME NEW o \in orphans, OrphanEnds(o) PROVE QueueOK'
  BY <1>13, <1>15 DEF OrphanEnds, queue, caller
<1>16. ASSUME NEW reason \in {"interrupt", "abort"}, Abort(reason) PROVE QueueOK'
  BY <1>13, <1>16 DEF Abort, queue, caller
<1>17. CASE UNCHANGED vars
  BY <1>13, <1>17 DEF vars, queue, caller
<1>18. QED
  BY <1>4, <1>5, <1>7, <1>8, <1>9, <1>10, <1>11, <1>12, <1>14, <1>15, <1>16, <1>17
     DEF Next, Caller

\* The queue's invariant always holds.
LEMMA QueueStaysOK == Spec => [](TypeOK /\ QueueOK)
  BY InitTypeOK, StepTypeOK, InitQueueOK, StepQueueOK, PTL DEF Spec

\* An exclusive call executes alone and never more than Cap calls execute,
\* however many passes of the queue are under way (ExclusiveAccess).
THEOREM Exclusion == Spec => []ExclusiveAccess
<1>1. QueueOK => ExclusiveAccess
  BY DEF QueueOK, Apart, ExclusiveAccess, Executing
<1>2. QED
  BY <1>1, QueueStaysOK, PTL

\* Calls start in the order of the response (StartsInOrder): every suspended
\* pass of the queue is ahead of all that waits, so that whichever goes on
\* starts the first.
THEOREM StartOrder == Spec => []StartsInOrder
<1>1. QueueOK => StartsInOrder
  BY DEF QueueOK, Ordered, StartsInOrder
<1>2. QED
  BY <1>1, QueueStaysOK, PTL

-----------------------------------------------------------------------------
\* What starting the first of the waiting calls does to the queue ts: the call
\* executes, unless there is a reason to cancel it.
Started(ts, k) ==
  /\ k \in With(ts, "queued") /\ CanExecute(ts, ts[k].kind.safe) /\ Ahead(ts, k)
  /\ DOMAIN tools' = DOMAIN ts
  /\ \A j \in DOMAIN ts \ {k} : tools'[j] = ts[j]
  /\ tools'[k].kind = ts[k].kind /\ tools'[k].prog = ts[k].prog
  /\ \/ /\ tools'[k].status = "executing" /\ tools'[k].answer = ts[k].answer
        /\ ~hasErrored
     \/ /\ tools'[k].status = "completed"
        /\ tools'[k].answer \in {"sibling_error", "user_interrupted"}
        /\ tools'[k].answer = "sibling_error" => hasErrored

\* executeTool, called for the first call a pass from p on may start.
LEMMA PassStarted ==
  ASSUME NEW ts \in Seq(Tracked), hasErrored \in BOOLEAN, NEW p \in Nat, Ahead(ts, p), Startable(ts, p) # {},
         NEW pending, Execute(ts, First(Startable(ts, p)), pending)
  PROVE  Started(ts, First(Startable(ts, p)))
<1> DEFINE k == First(Startable(ts, p))
<1>1. /\ k \in With(ts, "queued") /\ CanExecute(ts, ts[k].kind.safe)
      /\ \A i \in With(ts, "queued") : i >= k
  BY StartsTheFirst DEF Ahead
<1>2. Execute(ts, k, pending)
  OBVIOUS
<1> HIDE DEF k
<1>3. k \in DOMAIN ts /\ ts[k] \in Tracked
  BY <1>1, LenProperties, ElementOfSeq DEF With
<1>4. /\ DOMAIN tools' = DOMAIN ts
      /\ \A j \in DOMAIN ts \ {k} : tools'[j] = ts[j]
  BY <1>2, <1>3, ExecuteType
<1>5. CASE AbortReason(ts[k].kind) = "none"
  <2> DEFINE call == [ts[k] EXCEPT !.status = "executing"]
  <2>1. tools' = [ts EXCEPT ![k] = call]
    BY <1>2, <1>5 DEF Execute
  <2>2. tools'[k] = call
    BY <1>3, <2>1
  <2>3. /\ call.kind = ts[k].kind /\ call.prog = ts[k].prog
        /\ call.status = "executing" /\ call.answer = ts[k].answer
    BY <1>3 DEF Tracked
  <2>4. ~hasErrored
    BY <1>5 DEF AbortReason
  <2> HIDE DEF call
  <2>5. QED
    BY <1>1, <1>4, <2>2, <2>3, <2>4 DEF Started, Ahead, k
<1>6. CASE AbortReason(ts[k].kind) # "none"
  <2> DEFINE reason == AbortReason(ts[k].kind)
             call == [ts[k] EXCEPT !.status = "completed", !.answer = reason]
  <2>1. tools' = [ts EXCEPT ![k] = call]
    BY <1>2, <1>6 DEF Execute
  <2>2. tools'[k] = call
    BY <1>3, <2>1
  <2>3. /\ reason \in {"sibling_error", "user_interrupted"}
        /\ reason = "sibling_error" => hasErrored
    BY <1>6 DEF AbortReason
  <2> HIDE DEF reason
  <2>4. /\ call.kind = ts[k].kind /\ call.prog = ts[k].prog
        /\ call.status = "completed" /\ call.answer = reason
    BY <1>3 DEF Tracked
  <2> HIDE DEF call
  <2>5. QED
    BY <1>1, <1>4, <2>2, <2>3, <2>4 DEF Started, Ahead, k
<1>7. QED
  BY <1>5, <1>6

\* What a step may do to the calls, their answers and what was handed over.
LEMMA Effects ==
  ASSUME TypeOK, QueueOK, [Next]_vars
  PROVE  \/ UNCHANGED <<tools, hasErrored, context, emitted>>
         \/ \E kind \in Kinds :
              /\ UNCHANGED <<hasErrored, context, emitted>> /\ at' = "added"
              /\ \/ tools' = Append(tools, NewCall(kind))
                 \/ \E k : Started(Append(tools, NewCall(kind)), k)
         \/ UNCHANGED <<hasErrored, context, emitted>> /\ \E k : Started(tools, k)
         \/ Discard
         \/ Emit
         \/ \E i \in 1..MaxTools : ToolEnds(i) \/ Progress(i)
<1> DEFINE Goal == 
         \/ UNCHANGED <<tools, hasErrored, context, emitted>>
         \/ \E kind \in Kinds :
              /\ UNCHANGED <<hasErrored, context, emitted>> /\ at' = "added"
              /\ \/ tools' = Append(tools, NewCall(kind))
                 \/ \E k : Started(Append(tools, NewCall(kind)), k)
         \/ UNCHANGED <<hasErrored, context, emitted>> /\ \E k : Started(tools, k)
         \/ Discard
         \/ Emit
         \/ \E i \in 1..MaxTools : ToolEnds(i) \/ Progress(i)
<1>0. tools \in Seq(Tracked) /\ hasErrored \in BOOLEAN /\ Positions \subseteq Nat /\ pos \in Positions
  BY DomainType DEF TypeOK
<1>1. \A ts \in Seq(Tracked) : Ahead(ts, 1)
  BY WithType, LenProperties DEF Ahead, With
<1>2. ASSUME NEW kind \in Kinds, AddTool(kind) PROVE Goal
  <2> DEFINE ts == Append(tools, NewCall(kind))
             k == First(Startable(ts, 1))
  <2>1. UNCHANGED <<hasErrored, context, emitted>> /\ at' = "added"
    BY <1>2 DEF AddTool, history
  <2>2. ts \in Seq(Tracked)
    BY <1>0, NewCallType, AppendProperties
  <2>3. CASE kind.known /\ Startable(ts, 1) # {}
    <3>1. Execute(ts, k, loops \cup {k + 1})
      BY <1>2, <2>3 DEF AddTool
    <3>2. Ahead(ts, 1)
      BY <1>1, <2>2
    <3> HIDE DEF ts
    <3>3. Started(ts, k)
      BY <1>0, <2>2, <2>3, <3>1, <3>2, PassStarted
    <3>4. QED
      BY <2>1, <3>3 DEF ts
  <2>4. CASE ~(kind.known /\ Startable(ts, 1) # {})
    BY <1>2, <2>1, <2>4 DEF AddTool
  <2>5. QED
    BY <2>3, <2>4
<1>3. ASSUME NEW p \in Positions, RunLoop(p) PROVE Goal
  <2>1. UNCHANGED <<hasErrored, context, emitted>>
    BY <1>3 DEF RunLoop, history
  <2>2. CASE Startable(tools, p) = {}
    BY <1>3, <2>1, <2>2 DEF RunLoop
  <2>3. CASE Startable(tools, p) # {}
    <3> DEFINE k == First(Startable(tools, p))
    <3>1. Execute(tools, k, (loops \ {p}) \cup {k + 1})
      BY <1>3, <2>3 DEF RunLoop
    <3>2. Ahead(tools, p) /\ p \in Nat
      BY <1>0, <1>3 DEF RunLoop, QueueOK, PassesAhead
    <3>3. Started(tools, k)
      BY <1>0, <2>3, <3>1, <3>2, PassStarted
    <3>4. QED
      BY <2>1, <3>3
  <2>4. QED
    BY <2>2, <2>3
<1>4. ASSUME NEW p \in Nat, Ahead(tools, p), DrainStep(p), UNCHANGED <<hasErrored, history>> PROVE Goal
  <2>1. CASE Startable(tools, p) = {}
    BY <1>4, <2>1 DEF DrainStep, history
  <2>2. CASE Startable(tools, p) # {}
    <3> DEFINE k == First(Startable(tools, p))
    <3>1. Execute(tools, k, loops)
      BY <1>4, <2>2 DEF DrainStep
    <3>2. Started(tools, k)
      BY <1>0, <1>4, <2>2, <3>1, PassStarted
    <3>3. QED
      BY <1>4, <3>2 DEF history
  <2>3. QED
    BY <2>1, <2>2
<1>5. CASE DrainLoop
  <2>1. Ahead(tools, 1)
    BY <1>0, <1>1
  <2>2. QED
    BY <1>4, <1>5, <2>1 DEF DrainLoop, history
<1>6. CASE DrainPass
  <2>1. DrainStep(pos) /\ Ahead(tools, pos) /\ UNCHANGED <<hasErrored, history>>
    BY <1>6 DEF DrainPass, QueueOK, PassesAhead
  <2>2. QED
    BY <1>0, <1>4, <2>1
<1>7. CASE \/ TakeResults \/ StreamEnds \/ Emitted \/ Collected \/ Wake \/ DrainCollect
           \/ \E o \in orphans : OrphanEnds(o)
           \/ \E reason \in {"interrupt", "abort"} : Abort(reason)
           \/ UNCHANGED vars
  BY <1>7 DEF TakeResults, StreamEnds, Emitted, Collected, Wake, DrainCollect, OrphanEnds,
              Abort, vars, queue, history
<1>8. QED
  BY <1>2, <1>3, <1>5, <1>6, <1>7 DEF Next, Caller

\* The end or the progress of a call: that call changes and no other.
LEMMA OutcomeChanges ==
  ASSUME TypeOK, NEW i \in 1..MaxTools, ToolEnds(i) \/ Progress(i)
  PROVE  /\ i \in Executing /\ DOMAIN tools' = DOMAIN tools
         /\ \A j \in DOMAIN tools \ {i} : tools'[j] = tools[j]
         /\ tools'[i].kind = tools[i].kind /\ UNCHANGED emitted
         /\ \/ /\ Progress(i) /\ UNCHANGED <<hasErrored, context>>
               /\ tools'[i].status = "executing" /\ tools'[i].answer = tools[i].answer
            \/ /\ Cancelled(i) /\ UNCHANGED <<hasErrored, context>>
               /\ tools'[i].status = "completed" /\ tools'[i].prog = tools[i].prog
               /\ tools'[i].answer \in {"sibling_error", "user_interrupted"}
               /\ tools'[i].answer = "sibling_error" => hasErrored
            \/ \E answer \in {"ok", "error"} :
               /\ Answered(i, answer)
               /\ tools'[i].status = "completed" /\ tools'[i].prog = tools[i].prog
               /\ tools'[i].answer = answer
<1>1. i \in Executing
  BY DEF ToolEnds, Cancelled, Answered, Progress, MayUpdate
<1>2. i \in DOMAIN tools /\ tools[i] \in Tracked /\ tools[i].status = "executing"
  BY <1>1, DomainType DEF Executing, With
<1>3. UNCHANGED emitted
  BY DEF ToolEnds, Cancelled, Answered, Progress, history
<1>4. CASE Progress(i)
  <2> DEFINE call == [tools[i] EXCEPT !.prog = TRUE]
  <2>1. tools' = [tools EXCEPT ![i] = call] /\ UNCHANGED <<hasErrored, context>>
    BY <1>4 DEF Progress, history
  <2>2. call.kind = tools[i].kind /\ call.status = "executing" /\ call.answer = tools[i].answer
    BY <1>2 DEF Tracked
  <2> HIDE DEF call
  <2>3. /\ DOMAIN tools' = DOMAIN tools /\ tools'[i] = call
        /\ \A j \in DOMAIN tools \ {i} : tools'[j] = tools[j]
    BY <1>2, <2>1
  <2>4. QED
    BY <1>1, <1>3, <1>4, <2>1, <2>2, <2>3
<1>5. CASE Cancelled(i)
  <2> DEFINE reason == AbortReason(tools[i].kind)
             call == [tools[i] EXCEPT !.status = "completed", !.answer = reason]
  <2>1. tools' = [tools EXCEPT ![i] = call] /\ reason # "none" /\ UNCHANGED <<hasErrored, context>>
    BY <1>5 DEF Cancelled, history
  <2>2. reason \in {"sibling_error", "user_interrupted"} /\ (reason = "sibling_error" => hasErrored)
    <3>1. hasErrored \in BOOLEAN
      BY DEF TypeOK
    <3>2. QED
      BY <2>1, <3>1 DEF AbortReason
  <2> HIDE DEF reason
  <2>3. /\ call.kind = tools[i].kind /\ call.status = "completed" /\ call.answer = reason
        /\ call.prog = tools[i].prog
    BY <1>2 DEF Tracked
  <2> HIDE DEF call
  <2>4. /\ DOMAIN tools' = DOMAIN tools /\ tools'[i] = call
        /\ \A j \in DOMAIN tools \ {i} : tools'[j] = tools[j]
    BY <1>2, <2>1
  <2>5. QED
    BY <1>1, <1>3, <1>5, <2>1, <2>2, <2>3, <2>4
<1>6. ASSUME NEW answer \in {"ok", "error"}, Answered(i, answer)
      PROVE  /\ DOMAIN tools' = DOMAIN tools
             /\ \A j \in DOMAIN tools \ {i} : tools'[j] = tools[j]
             /\ tools'[i].kind = tools[i].kind
             /\ tools'[i].status = "completed" /\ tools'[i].prog = tools[i].prog
             /\ tools'[i].answer = answer
  <2> DEFINE call == [tools[i] EXCEPT !.status = "completed", !.answer = answer]
  <2>1. tools' = [tools EXCEPT ![i] = call]
    BY <1>6 DEF Answered
  <2>2. /\ call.kind = tools[i].kind /\ call.status = "completed" /\ call.answer = answer
        /\ call.prog = tools[i].prog
    BY <1>2 DEF Tracked
  <2> HIDE DEF call
  <2>3. /\ DOMAIN tools' = DOMAIN tools /\ tools'[i] = call
        /\ \A j \in DOMAIN tools \ {i} : tools'[j] = tools[j]
    BY <1>2, <2>1
  <2>4. QED
    BY <2>2, <2>3
<1>7. QED
  BY <1>1, <1>3, <1>4, <1>5, <1>6 DEF ToolEnds

\* Handing something over: of the first call that has news, its progress or its result.
LEMMA EmitChanges ==
  ASSUME TypeOK, Emit
  PROVE  LET i == First(Yieldable) IN
         /\ i \in Yieldable /\ \A j \in Yieldable : i <= j
         /\ i \in DOMAIN tools /\ DOMAIN tools' = DOMAIN tools
         /\ \A j \in DOMAIN tools \ {i} : tools'[j] = tools[j]
         /\ tools'[i].kind = tools[i].kind /\ tools'[i].answer = tools[i].answer
         /\ UNCHANGED <<hasErrored, context>> /\ at = "collect" /\ at' = "emit"
         /\ \/ /\ tools[i].prog /\ ~tools'[i].prog /\ tools'[i].status = tools[i].status
               /\ pos' = i /\ UNCHANGED emitted
            \/ /\ ~tools[i].prog /\ tools'[i].prog = tools[i].prog
               /\ tools[i].status = "completed" /\ tools'[i].status = "yielded"
               /\ pos' = i + 1 /\ emitted' = Append(emitted, i)
<1> DEFINE i == First(Yieldable)
<1>1. Yieldable \in SUBSET Nat /\ Yieldable \subseteq DOMAIN tools
  BY DomainType DEF Yieldable
<1>2. i \in Yieldable /\ \A j \in Yieldable : i <= j
  BY <1>1, FirstIsLeast DEF Emit
<1>3. i \in DOMAIN tools /\ tools[i] \in Tracked /\ HasNews(i)
  BY <1>1, <1>2, DomainType DEF Yieldable
<1>4. UNCHANGED <<hasErrored, context>> /\ at = "collect" /\ at' = "emit"
  BY DEF Emit
<1>5. CASE tools[i].prog
  <2> DEFINE call == [tools[i] EXCEPT !.prog = FALSE]
  <2>1. tools' = [tools EXCEPT ![i] = call] /\ pos' = i /\ UNCHANGED emitted
    BY <1>5 DEF Emit
  <2>2. /\ call.kind = tools[i].kind /\ call.status = tools[i].status
        /\ call.answer = tools[i].answer /\ ~call.prog
    BY <1>3 DEF Tracked
  <2> HIDE DEF call, i
  <2>3. /\ DOMAIN tools' = DOMAIN tools /\ tools'[i] = call
        /\ \A j \in DOMAIN tools \ {i} : tools'[j] = tools[j]
    BY <1>3, <2>1
  <2>4. QED
    BY <1>2, <1>3, <1>4, <1>5, <2>1, <2>2, <2>3 DEF i
<1>6. CASE ~tools[i].prog
  <2> DEFINE call == [tools[i] EXCEPT !.status = "yielded"]
  <2>1. /\ tools' = [tools EXCEPT ![i] = call] /\ pos' = i + 1
        /\ emitted' = Append(emitted, i)
    BY <1>6 DEF Emit
  <2>2. /\ call.kind = tools[i].kind /\ call.status = "yielded"
        /\ call.answer = tools[i].answer /\ call.prog = tools[i].prog
    BY <1>3 DEF Tracked
  <2>3. tools[i].status = "completed"
    BY <1>3, <1>6 DEF HasNews
  <2> HIDE DEF call, i
  <2>4. /\ DOMAIN tools' = DOMAIN tools /\ tools'[i] = call
        /\ \A j \in DOMAIN tools \ {i} : tools'[j] = tools[j]
    BY <1>3, <2>1
  <2>5. QED
    BY <1>2, <1>3, <1>4, <1>6, <2>1, <2>2, <2>3, <2>4 DEF i
<1>7. QED
  BY <1>5, <1>6

\* The queue with one more call.
LEMMA Appended ==
  ASSUME TypeOK, NEW kind \in Kinds, NEW ts, ts = Append(tools, NewCall(kind))
  PROVE  /\ ts \in Seq(Tracked) /\ DOMAIN ts = 1..(Len(tools) + 1)
         /\ \A j \in DOMAIN tools : ts[j] = tools[j]
         /\ ts[Len(tools) + 1] = NewCall(kind) /\ Len(tools) + 1 \notin DOMAIN tools
         /\ DOMAIN ts = DOMAIN tools \cup {Len(tools) + 1}
<1>1. DOMAIN tools = 1..Len(tools) /\ Len(tools) \in Nat /\ tools \in Seq(Tracked)
  BY DomainType DEF TypeOK
<1>2. NewCall(kind) \in Tracked
  BY NewCallType
<1>3. /\ ts \in Seq(Tracked) /\ Len(ts) = Len(tools) + 1
      /\ \A j \in 1..Len(tools) : ts[j] = tools[j]
      /\ ts[Len(tools) + 1] = NewCall(kind)
  BY <1>1, <1>2, AppendProperties
<1>4. DOMAIN ts = 1..Len(ts)
  BY <1>3, LenProperties
<1>5. QED
  BY <1>1, <1>3, <1>4

\* No step starts a call once a Bash call has failed.
LEMMA NothingStarts ==
  ASSUME TypeOK, QueueOK, [Next]_vars, hasErrored
  PROVE  Executing' \subseteq Executing
<1>1. CASE UNCHANGED <<tools, hasErrored, context, emitted>>
  BY <1>1 DEF Executing, With
<1>2. ASSUME NEW kind \in Kinds,
             \/ tools' = Append(tools, NewCall(kind))
             \/ \E k : Started(Append(tools, NewCall(kind)), k)
      PROVE  Executing' \subseteq Executing
  <2> DEFINE ts == Append(tools, NewCall(kind))
  <2>1. /\ DOMAIN ts = DOMAIN tools \cup {Len(tools) + 1}
        /\ \A j \in DOMAIN tools : ts[j] = tools[j]
        /\ ts[Len(tools) + 1].status # "executing"
    BY Appended DEF NewCall
  <2> HIDE DEF ts
  <2>2. With(ts, "executing") \subseteq Executing
    BY <2>1 DEF With, Executing
  <2>3. With(tools', "executing") \subseteq With(ts, "executing")
    BY <1>2 DEF Started, With, ts
  <2>4. QED
    BY <2>2, <2>3 DEF Executing
<1>3. ASSUME NEW k, Started(tools, k) PROVE Executing' \subseteq Executing
  BY <1>3 DEF Started, Executing, With
<1>4. CASE Discard
  <2>1. DOMAIN tools' = {}
    BY <1>4 DEF Discard
  <2>2. QED
    BY <2>1 DEF Executing, With
<1>5. CASE Emit
  BY <1>5, EmitChanges DEF Executing, With
<1>6. ASSUME NEW i \in 1..MaxTools, ToolEnds(i) \/ Progress(i)
      PROVE  Executing' \subseteq Executing
  BY <1>6, OutcomeChanges DEF Executing, With
<1>7. QED
  BY <1>1, <1>2, <1>3, <1>4, <1>5, <1>6, Effects

\* After a Bash call has failed no call that had not started does any work
\* (NothingStartsAfterAnError), whichever pass of the queue meets it.
THEOREM ErrorsStopStarts == Spec => NothingStartsAfterAnError
<1>1. TypeOK /\ QueueOK /\ [Next]_vars => [hasErrored /\ hasErrored' => Executing' \subseteq Executing]_vars
  BY NothingStarts
<1>2. QED
  BY <1>1, QueueStaysOK, PTL DEF Spec, NothingStartsAfterAnError

-----------------------------------------------------------------------------
\* What holds of the answers between any two steps.  A call is over exactly
\* when it has an answer, and its result has been handed over, once, exactly
\* when it is marked as yielded.
Told(ts) ==
  /\ \A i \in DOMAIN ts :
       /\ ts[i].status \in {"completed", "yielded"} <=> ts[i].answer # "none"
       /\ ~ts[i].kind.known => ts[i].status \in {"completed", "yielded"}
       /\ ts[i].prog => ts[i].kind.known /\ ts[i].status # "queued"
       /\ ts[i].status = "yielded" <=> \E n \in DOMAIN emitted : emitted[n] = i
  /\ \A n \in DOMAIN emitted : emitted[n] \in DOMAIN ts
  /\ \A m, n \in DOMAIN emitted : m # n => emitted[m] # emitted[n]

\* A failure has a Bash call that keeps its error; a sibling error has a failure.
Caused(ts) ==
  /\ hasErrored => \E i \in DOMAIN ts : ts[i].kind.bash /\ ts[i].answer = "error"
  /\ \A i \in DOMAIN ts : ts[i].answer = "sibling_error" => hasErrored

\* The context went through calls that are before all that execute.
Modified(ts) ==
  /\ \A m, n \in DOMAIN context : m < n => context[m] < context[n]
  /\ \A n \in DOMAIN context :
       /\ context[n] \in DOMAIN ts
       /\ ts[context[n]].answer = "ok" /\ ts[context[n]].kind.known
       /\ \A i \in With(ts, "executing") : context[n] < i
  /\ \A i \in DOMAIN ts : ~ts[i].kind.safe /\ ts[i].kind.modifies /\ ts[i].answer = "ok" =>
       \E n \in DOMAIN context : context[n] = i

Accounts == Told(tools) /\ Caused(tools) /\ Modified(tools)

\* A new call changes nothing of it.
LEMMA AppendKeeps ==
  ASSUME TypeOK, Accounts, NEW kind \in Kinds
  PROVE  LET ts == Append(tools, NewCall(kind)) IN Told(ts) /\ Caused(ts) /\ Modified(ts)
<1> DEFINE ts == Append(tools, NewCall(kind))
           x == Len(tools) + 1
<1>1. /\ \A j \in DOMAIN tools : ts[j] = tools[j]
      /\ DOMAIN ts = DOMAIN tools \cup {x} /\ x \notin DOMAIN tools
  BY Appended
<1>2. ts[x] = NewCall(kind)
  BY Appended
<1>3. /\ ts[x].status \in {"completed", "yielded"} <=> ts[x].answer # "none"
      /\ ~ts[x].kind.known => ts[x].status \in {"completed", "yielded"}
      /\ ts[x].prog = FALSE /\ ts[x].status \notin {"yielded", "executing"}
      /\ ts[x].answer \in {"none", "error"}
  BY <1>2 DEF NewCall
<1> HIDE DEF ts, x
<1>4. Told(ts)
  <2>1. \A n \in DOMAIN emitted : emitted[n] # x
    BY <1>1 DEF Accounts, Told
  <2>2. ASSUME NEW i \in DOMAIN ts
        PROVE  /\ ts[i].status \in {"completed", "yielded"} <=> ts[i].answer # "none"
               /\ ~ts[i].kind.known => ts[i].status \in {"completed", "yielded"}
               /\ ts[i].prog => ts[i].kind.known /\ ts[i].status # "queued"
               /\ ts[i].status = "yielded" <=> \E n \in DOMAIN emitted : emitted[n] = i
    <3>1. CASE i = x
      BY <1>3, <2>1, <3>1
    <3>2. CASE i \in DOMAIN tools
      BY <1>1, <3>2 DEF Accounts, Told
    <3>3. QED
      BY <1>1, <3>1, <3>2
  <2>3. QED
    BY <1>1, <2>2 DEF Accounts, Told
<1>5. Caused(ts)
  BY <1>1, <1>3 DEF Accounts, Caused
<1>6. Modified(ts)
  <2>1. With(ts, "executing") \subseteq With(tools, "executing")
    BY <1>1, <1>3 DEF With
  <2>2. QED
    BY <1>1, <1>3, <2>1 DEF Accounts, Modified
<1>7. QED
  BY <1>4, <1>5, <1>6 DEF ts

\* Starting the first of those that wait keeps it: what executes then is behind
\* every call the context went through, because those have started before it.
LEMMA StartKeeps ==
  ASSUME NEW ts \in Seq(Tracked), NEW k, Started(ts, k), Ordered(ts),
         Told(ts), Caused(ts), Modified(ts),
         UNCHANGED <<hasErrored, context, emitted>>
  PROVE  Accounts'
<1>0. /\ k \in DOMAIN ts /\ ts[k].status = "queued" /\ ts[k].answer = "none"
      /\ ts[k].kind.known /\ ~ts[k].prog
      /\ DOMAIN ts = 1..Len(ts) /\ Len(ts) \in Nat
  BY WithType, ElementOfSeq DEF Started, With, Told, Tracked
<1>a. /\ DOMAIN tools' = DOMAIN ts
      /\ \A j \in DOMAIN ts \ {k} : tools'[j] = ts[j]
      /\ tools'[k].kind = ts[k].kind /\ tools'[k].prog = ts[k].prog
      /\ \/ /\ tools'[k].status = "executing" /\ tools'[k].answer = ts[k].answer
            /\ ~hasErrored
         \/ /\ tools'[k].status = "completed"
            /\ tools'[k].answer \in {"sibling_error", "user_interrupted"}
            /\ tools'[k].answer = "sibling_error" => hasErrored
  BY DEF Started
<1>1. Told(tools)'
  <2>1. \A n \in DOMAIN emitted : emitted[n] # k
    BY <1>0 DEF Told
  <2>2. ASSUME NEW i \in DOMAIN ts
        PROVE  /\ tools'[i].status \in {"completed", "yielded"} <=> tools'[i].answer # "none"
               /\ ~tools'[i].kind.known => tools'[i].status \in {"completed", "yielded"}
               /\ tools'[i].prog => tools'[i].kind.known /\ tools'[i].status # "queued"
               /\ tools'[i].status = "yielded" <=> \E n \in DOMAIN emitted : emitted[n] = i
    <3>1. CASE i = k
      BY <1>0, <1>a, <2>1, <3>1
    <3>2. CASE i # k
      BY <1>a, <3>2 DEF Told
    <3>3. QED
      BY <3>1, <3>2
  <2>3. QED
    BY <1>a, <2>2 DEF Told
<1>2. Caused(tools)'
  <2>1. \A i \in DOMAIN ts : ts[i].answer = "error" => i # k
    BY <1>0
  <2>2. QED
    BY <1>a, <2>1 DEF Caused
<1>3. Modified(tools)'
  <2>1. ASSUME NEW n \in DOMAIN context
        PROVE  context[n] # k /\ context[n] < k /\ context[n] \in Nat
    <3>1. /\ context[n] \in DOMAIN ts /\ ts[context[n]].answer = "ok"
          /\ ts[context[n]].kind.known
      BY DEF Modified
    <3>2. context[n] # k /\ ts[context[n]].status # "queued"
      BY <1>0, <3>1 DEF Told
    <3>3. ~(k < context[n])
      BY <1>0, <3>1, <3>2 DEF Ordered
    <3>4. QED
      BY <1>0, <3>1, <3>2, <3>3
  <2>2. With(tools', "executing") \subseteq With(ts, "executing") \cup {k}
    BY <1>a DEF With
  <2>3. \A i \in DOMAIN ts : tools'[i].answer = "ok" => i # k
    BY <1>0, <1>a
  <2>4. QED
    BY <1>a, <2>1, <2>2, <2>3 DEF Modified
<1>4. QED
  BY <1>1, <1>2, <1>3 DEF Accounts

\* The end of a call, or its progress, keeps it: an exclusive call that
\* modifies the context executes alone, and behind all that did so before.
LEMMA OutcomeKeeps ==
  ASSUME TypeOK, QueueOK, Accounts, NEW i \in 1..MaxTools, ToolEnds(i) \/ Progress(i)
  PROVE  Accounts'
<1>0. /\ i \in DOMAIN tools /\ tools[i].status = "executing" /\ tools[i].answer = "none"
      /\ tools[i].kind.known
      /\ DOMAIN tools = 1..Len(tools) /\ Len(tools) \in Nat /\ context \in Seq(1..MaxTools)
  BY OutcomeChanges, DomainType DEF Executing, With, Accounts, Told, TypeOK
<1>a. /\ DOMAIN tools' = DOMAIN tools
      /\ \A j \in DOMAIN tools \ {i} : tools'[j] = tools[j]
      /\ tools'[i].kind = tools[i].kind /\ UNCHANGED emitted
      /\ tools'[i].status \in {"executing", "completed"}
      /\ tools'[i].status = "executing" <=> tools'[i].answer = "none"
  BY <1>0, OutcomeChanges
<1>1. Told(tools)'
  <2>1. \A n \in DOMAIN emitted : emitted[n] # i
    BY <1>0 DEF Accounts, Told
  <2>2. ASSUME NEW j \in DOMAIN tools
        PROVE  /\ tools'[j].status \in {"completed", "yielded"} <=> tools'[j].answer # "none"
               /\ ~tools'[j].kind.known => tools'[j].status \in {"completed", "yielded"}
               /\ tools'[j].prog => tools'[j].kind.known /\ tools'[j].status # "queued"
               /\ tools'[j].status = "yielded" <=> \E n \in DOMAIN emitted : emitted[n] = j
    <3>1. CASE j = i
      BY <1>0, <1>a, <2>1, <3>1
    <3>2. CASE j # i
      BY <1>a, <3>2 DEF Accounts, Told
    <3>3. QED
      BY <3>1, <3>2
  <2>3. QED
    BY <1>a, <2>2 DEF Accounts, Told
<1>2. Caused(tools)' /\ Modified(tools)'
  <2>1. With(tools', "executing") \subseteq With(tools, "executing")
    BY <1>0, <1>a DEF With
  <2>2. CASE /\ UNCHANGED <<hasErrored, context>>
             /\ tools'[i].answer \in {"none", "sibling_error", "user_interrupted"}
             /\ tools'[i].answer = "sibling_error" => hasErrored
    <3>1. Caused(tools)'
      BY <1>0, <1>a, <2>2 DEF Accounts, Caused
    <3>2. Modified(tools)'
      BY <1>0, <1>a, <2>1, <2>2 DEF Accounts, Modified
    <3>3. QED
      BY <3>1, <3>2
  <2>3. ASSUME NEW answer \in {"ok", "error"}, Answered(i, answer), tools'[i].answer = answer,
               tools'[i].status = "completed"
        PROVE  Caused(tools)' /\ Modified(tools)'
    <3>0. /\ hasErrored' = (hasErrored \/ (tools[i].kind.bash /\ answer = "error"))
          /\ context' = IF ~tools[i].kind.safe /\ tools[i].kind.modifies /\ answer = "ok"
                        THEN Append(context, i) ELSE context
      BY <2>3 DEF Answered
    <3>1. Caused(tools)'
      <4>1. hasErrored' => \E j \in DOMAIN tools : tools'[j].kind.bash /\ tools'[j].answer = "error"
        <5>1. CASE hasErrored
          <6>1. PICK j \in DOMAIN tools : tools[j].kind.bash /\ tools[j].answer = "error"
            BY <5>1 DEF Accounts, Caused
          <6>2. j # i
            BY <1>0, <6>1
          <6>3. QED
            BY <1>a, <6>1, <6>2
        <5>2. CASE tools[i].kind.bash /\ answer = "error"
          BY <1>0, <1>a, <2>3, <5>2
        <5>3. QED
          BY <3>0, <5>1, <5>2
      <4>2. \A j \in DOMAIN tools : tools'[j].answer = "sibling_error" => hasErrored'
        BY <1>a, <2>3, <3>0 DEF Accounts, Caused
      <4>3. QED
        BY <1>a, <4>1, <4>2 DEF Caused
    <3>2. CASE ~(~tools[i].kind.safe /\ tools[i].kind.modifies /\ answer = "ok")
      <4>1. UNCHANGED context
        BY <3>0, <3>2
      <4>2. Modified(tools)'
        BY <1>0, <1>a, <2>1, <2>3, <3>2, <4>1 DEF Accounts, Modified
      <4>3. QED
        BY <3>1, <4>2
    <3>3. CASE ~tools[i].kind.safe /\ tools[i].kind.modifies /\ answer = "ok"
      <4> DEFINE z == Len(context) + 1
      <4>1. /\ DOMAIN context = 1..Len(context) /\ Len(context) \in Nat
            /\ \A n \in DOMAIN context : context[n] \in Nat
        BY <1>0, LenProperties, ElementOfSeq, ConstantsAssumption
      <4>2. context' \in Seq(1..MaxTools) /\ Len(context') = z /\ context'[z] = i
            /\ \A n \in DOMAIN context : context'[n] = context[n]
        BY <1>0, <3>0, <3>3, <4>1, AppendProperties
      <4>3. DOMAIN context' = DOMAIN context \cup {z} /\ z \notin DOMAIN context
            /\ \A n \in DOMAIN context : n < z /\ ~(z < n)
        BY <4>1, <4>2, LenProperties
      <4> HIDE DEF z
      <4>4. \A n \in DOMAIN context : context[n] < i
        BY <1>0 DEF Accounts, Modified, With
      <4>5. With(tools', "executing") = {}
        <5>1. With(tools, "executing") \subseteq {i}
          BY <1>0, <3>3 DEF QueueOK, Apart, With
        <5>2. QED
          BY <2>1, <2>3, <5>1 DEF With
      <4>6. \A m, n \in DOMAIN context' : m < n => context'[m] < context'[n]
        BY <4>2, <4>3, <4>4 DEF Accounts, Modified
      <4>7. \A n \in DOMAIN context' :
              /\ context'[n] \in DOMAIN tools'
              /\ tools'[context'[n]].answer = "ok" /\ tools'[context'[n]].kind.known
        <5>1. \A n \in DOMAIN context : context[n] # i
          BY <1>0, <4>1, <4>4
        <5>2. QED
          BY <1>0, <1>a, <2>3, <3>3, <4>2, <4>3, <5>1 DEF Accounts, Modified
      <4>8. \A j \in DOMAIN tools' :
              ~tools'[j].kind.safe /\ tools'[j].kind.modifies /\ tools'[j].answer = "ok" =>
                \E n \in DOMAIN context' : context'[n] = j
        <5> SUFFICES ASSUME NEW j \in DOMAIN tools, ~tools'[j].kind.safe,
                            tools'[j].kind.modifies, tools'[j].answer = "ok"
                     PROVE  \E n \in DOMAIN context' : context'[n] = j
          BY <1>a
        <5>1. CASE j = i
          BY <4>2, <4>3, <5>1
        <5>2. CASE j # i
          <6>1. PICK n \in DOMAIN context : context[n] = j
            BY <1>a, <5>2 DEF Accounts, Modified
          <6>2. QED
            BY <4>2, <4>3, <6>1
        <5>3. QED
          BY <5>1, <5>2
      <4>9. Modified(tools)'
        BY <4>5, <4>6, <4>7, <4>8 DEF Modified
      <4>10. QED
        BY <3>1, <4>9
    <3>4. QED
      BY <3>2, <3>3
  <2>4. QED
    BY <1>0, <2>2, <2>3, OutcomeChanges
<1>3. QED
  BY <1>1, <1>2 DEF Accounts

\* Handing over keeps it.
LEMMA EmitKeeps ==
  ASSUME TypeOK, Accounts, Emit
  PROVE  Accounts'
<1> DEFINE i == First(Yieldable)
<1>0. /\ i \in DOMAIN tools /\ DOMAIN tools' = DOMAIN tools
      /\ \A j \in DOMAIN tools \ {i} : tools'[j] = tools[j]
      /\ tools'[i].kind = tools[i].kind /\ tools'[i].answer = tools[i].answer
      /\ UNCHANGED <<hasErrored, context>>
      /\ \/ /\ tools[i].prog /\ ~tools'[i].prog /\ tools'[i].status = tools[i].status
            /\ UNCHANGED emitted
         \/ /\ ~tools[i].prog /\ tools'[i].prog = tools[i].prog
            /\ tools[i].status = "completed" /\ tools'[i].status = "yielded"
            /\ emitted' = Append(emitted, i)
  BY EmitChanges
<1> HIDE DEF i
<1>1. \A j \in DOMAIN tools : tools'[j].kind = tools[j].kind /\ tools'[j].answer = tools[j].answer
  BY <1>0
<1>2. With(tools', "executing") \subseteq With(tools, "executing")
  BY <1>0 DEF With
<1>3. Caused(tools)'
  BY <1>0, <1>1 DEF Accounts, Caused
<1>4. Modified(tools)'
  BY <1>0, <1>1, <1>2 DEF Accounts, Modified
<1>5. Told(tools)'
  <2>1. CASE /\ tools[i].prog /\ ~tools'[i].prog /\ tools'[i].status = tools[i].status
             /\ UNCHANGED emitted
    <3>1. \A j \in DOMAIN tools : /\ tools'[j].kind = tools[j].kind
                                  /\ tools'[j].answer = tools[j].answer
                                  /\ tools'[j].status = tools[j].status
                                  /\ tools'[j].prog => tools[j].prog
      BY <1>0, <2>1
    <3>2. QED
      BY <1>0, <2>1, <3>1 DEF Accounts, Told
  <2>2. CASE /\ ~tools[i].prog /\ tools'[i].prog = tools[i].prog
             /\ tools[i].status = "completed" /\ tools'[i].status = "yielded"
             /\ emitted' = Append(emitted, i)
    <3> DEFINE z == Len(emitted) + 1
    <3>1. /\ DOMAIN emitted = 1..Len(emitted) /\ Len(emitted) \in Nat /\ i \in 1..MaxTools
          /\ emitted \in Seq(1..MaxTools)
      BY <1>0, LenProperties, DomainType DEF TypeOK
    <3>2. /\ emitted' \in Seq(1..MaxTools) /\ Len(emitted') = z /\ emitted'[z] = i
          /\ \A n \in DOMAIN emitted : emitted'[n] = emitted[n]
      BY <2>2, <3>1, AppendProperties
    <3>3. DOMAIN emitted' = DOMAIN emitted \cup {z}
      BY <3>1, <3>2, LenProperties
    <3> HIDE DEF z
    <3>4. \A n \in DOMAIN emitted : emitted[n] # i
      BY <1>0, <2>2 DEF Accounts, Told
    <3>5. ASSUME NEW j \in DOMAIN tools
          PROVE  /\ tools'[j].status \in {"completed", "yielded"} <=> tools'[j].answer # "none"
                 /\ ~tools'[j].kind.known => tools'[j].status \in {"completed", "yielded"}
                 /\ tools'[j].prog => tools'[j].kind.known /\ tools'[j].status # "queued"
                 /\ tools'[j].status = "yielded" <=> \E n \in DOMAIN emitted' : emitted'[n] = j
      <4>1. CASE j = i
        BY <1>0, <2>2, <3>2, <3>3, <4>1 DEF Accounts, Told
      <4>2. CASE j # i
        BY <1>0, <3>2, <3>3, <4>2 DEF Accounts, Told
      <4>3. QED
        BY <4>1, <4>2
    <3>6. \A n \in DOMAIN emitted' : emitted'[n] \in DOMAIN tools'
      BY <1>0, <3>2, <3>3 DEF Accounts, Told
    <3>7. \A m, n \in DOMAIN emitted' : m # n => emitted'[m] # emitted'[n]
      BY <3>2, <3>3, <3>4 DEF Accounts, Told
    <3>8. QED
      BY <1>0, <3>5, <3>6, <3>7 DEF Told
  <2>3. QED
    BY <1>0, <2>1, <2>2
<1>6. QED
  BY <1>3, <1>4, <1>5 DEF Accounts

-----------------------------------------------------------------------------
\* Among the results em[n], for n in ns, is the answer to a missing tool behind
\* call i and not behind call j.
MissingBetween(ts, em, i, j, ns) ==
  \E l \in ns : i < em[l] /\ em[l] <= j /\ ~ts[em[l]].kind.known

\* What got ahead of an exclusive call, handed over or not, did so behind the
\* answer to a missing tool; and only such an answer lets the caller's position
\* get ahead of it.
InStep(ts) ==
  /\ \A m, n \in DOMAIN emitted :
       m < n /\ emitted[m] > emitted[n] /\ ~ts[emitted[n]].kind.safe =>
         MissingBetween(ts, emitted, emitted[n], emitted[m], 1..m)
  /\ \A i \in DOMAIN ts, n \in DOMAIN emitted :
       ~ts[i].kind.safe /\ ts[i].status # "yielded" /\ emitted[n] > i =>
         MissingBetween(ts, emitted, i, emitted[n], 1..n)
  /\ at \in {"collect", "emit"} =>
       \A i \in DOMAIN ts : ~ts[i].kind.safe /\ ts[i].status # "yielded" /\ i < pos =>
         MissingBetween(ts, emitted, i, pos - 1, DOMAIN emitted)

\* A pass of the drain ends at the head of the queue, the drain when all is yielded.
AtItsPlace ==
  /\ at = "passed" => pos = 1
  /\ at = "done" => Finished(tools)

SoundOK == Accounts /\ InStep(tools) /\ AtItsPlace

\* An answer to a missing tool stays one.
LEMMA MissingStays ==
  ASSUME NEW ts, NEW us, NEW em, NEW fm, NEW i, NEW j \in Int, NEW k \in Int, j <= k,
         NEW ms, NEW ns \in SUBSET ms, MissingBetween(ts, em, i, j, ns),
         \A l \in ns : /\ fm[l] = em[l] /\ em[l] \in Int
                       /\ us[em[l]].kind = ts[em[l]].kind
  PROVE  MissingBetween(us, fm, i, k, ms)
<1>1. PICK l \in ns : i < em[l] /\ em[l] <= j /\ ~ts[em[l]].kind.known
  BY DEF MissingBetween
<1>2. em[l] <= k
  BY <1>1
<1>3. l \in ms /\ i < fm[l] /\ fm[l] <= k /\ ~us[fm[l]].kind.known
  BY <1>1, <1>2
<1>4. QED
  BY <1>3 DEF MissingBetween

\* The results handed over, in numbers.
LEMMA EmittedType ==
  ASSUME TypeOK, Accounts
  PROVE  /\ DOMAIN tools = 1..Len(tools) /\ Len(tools) \in Nat
         /\ DOMAIN emitted = 1..Len(emitted) /\ Len(emitted) \in Nat
         /\ emitted \in Seq(1..MaxTools)
         /\ \A n \in DOMAIN emitted : /\ emitted[n] \in DOMAIN tools /\ emitted[n] \in Int
                                      /\ 1..n \in SUBSET DOMAIN emitted
<1>1. /\ DOMAIN tools = 1..Len(tools) /\ Len(tools) \in Nat
      /\ DOMAIN emitted = 1..Len(emitted) /\ Len(emitted) \in Nat
      /\ emitted \in Seq(1..MaxTools)
  BY LenProperties, DomainType DEF TypeOK
<1>2. ASSUME NEW n \in DOMAIN emitted
      PROVE  emitted[n] \in DOMAIN tools /\ emitted[n] \in Int /\ 1..n \in SUBSET DOMAIN emitted
  <2>1. emitted[n] \in DOMAIN tools
    BY DEF Accounts, Told
  <2>2. emitted[n] \in Int
    BY <1>1, <2>1
  <2>3. 1..n \in SUBSET DOMAIN emitted
    BY <1>1
  <2>4. QED
    BY <2>1, <2>2, <2>3
<1>3. QED
  BY <1>1, <1>2

\* A step that yields no result keeps the order of results, whatever calls it
\* adds at the end of the queue.
LEMMA NoYield ==
  ASSUME TypeOK, TypeOK', Accounts, InStep(tools), UNCHANGED emitted,
         DOMAIN tools \subseteq DOMAIN tools',
         \A j \in DOMAIN tools : /\ tools'[j].kind = tools[j].kind
                                 /\ tools'[j].status = "yielded" <=> tools[j].status = "yielded",
         at' \in {"collect", "emit"} =>
           \/ pos' = 1
           \/ at \in {"collect", "emit"} /\ pos' = pos /\ DOMAIN tools' = DOMAIN tools
  PROVE  InStep(tools)'
<1>1. /\ DOMAIN tools = 1..Len(tools) /\ Len(tools) \in Nat /\ pos \in Nat
      /\ DOMAIN tools' = 1..Len(tools') /\ Len(tools') \in Nat
      /\ DOMAIN emitted \in SUBSET DOMAIN emitted
      /\ \A n \in DOMAIN emitted : /\ emitted[n] \in DOMAIN tools /\ emitted[n] \in Int
                                   /\ 1..n \in SUBSET DOMAIN emitted
  BY EmittedType, DomainType, LenProperties DEF TypeOK
<1>a. Len(tools) \in Nat /\ Len(tools') \in Nat /\ pos \in Nat /\ pos - 1 \in Int
  <2>1. Len(tools) \in Nat /\ Len(tools') \in Nat /\ pos \in Nat
    BY <1>1
  <2>2. \A n \in Nat : n - 1 \in Int
    OBVIOUS
  <2>3. QED
    BY <2>1, <2>2, Zenon
<1>b. \A i, k, n \in Nat : \A j \in 1..k : i \in 1..n /\ j > i => i \in 1..k
  OBVIOUS
<1>2. emitted' = emitted /\ \A n \in DOMAIN emitted : tools'[emitted[n]].kind = tools[emitted[n]].kind
  BY <1>1
<1>3. ASSUME NEW i, NEW j \in Int, NEW ns \in SUBSET DOMAIN emitted,
             MissingBetween(tools, emitted, i, j, ns)
      PROVE  MissingBetween(tools', emitted, i, j, ns)
  <2>1. j <= j /\ ns \in SUBSET ns
    OBVIOUS
  <2>2. \A l \in ns : /\ emitted[l] = emitted[l] /\ emitted[l] \in Int
                      /\ tools'[emitted[l]].kind = tools[emitted[l]].kind
    BY <1>1, <1>2
  <2>3. QED
    BY <1>3, <2>1, <2>2, MissingStays
<1>4. ASSUME NEW m \in DOMAIN emitted, NEW n \in DOMAIN emitted,
             m < n, emitted[m] > emitted[n], ~tools'[emitted[n]].kind.safe
      PROVE  MissingBetween(tools', emitted, emitted[n], emitted[m], 1..m)
  <2>1. MissingBetween(tools, emitted, emitted[n], emitted[m], 1..m)
    BY <1>2, <1>4 DEF InStep
  <2>2. QED
    BY <1>1, <1>3, <2>1
<1>5. ASSUME NEW i \in DOMAIN tools', NEW n \in DOMAIN emitted,
             ~tools'[i].kind.safe, tools'[i].status # "yielded", emitted[n] > i
      PROVE  MissingBetween(tools', emitted, i, emitted[n], 1..n)
  <2>1. i \in DOMAIN tools
    <3>1. emitted[n] \in 1..Len(tools) /\ i \in 1..Len(tools')
      BY <1>1
    <3>2. i \in Nat
      BY <3>1
    <3>3. i \in 1..Len(tools)
      BY <1>a, <1>b, <1>5, <3>1, <3>2, Zenon
    <3>4. QED
      BY <1>1, <3>3, Zenon
  <2>2. ~tools[i].kind.safe /\ tools[i].status # "yielded"
    BY <1>5, <2>1
  <2>3. MissingBetween(tools, emitted, i, emitted[n], 1..n)
    BY <1>5, <2>1, <2>2 DEF InStep
  <2>4. QED
    BY <1>1, <1>3, <2>3
<1>6. ASSUME at' \in {"collect", "emit"},
             NEW i \in DOMAIN tools', ~tools'[i].kind.safe, tools'[i].status # "yielded", i < pos'
      PROVE  MissingBetween(tools', emitted, i, pos' - 1, DOMAIN emitted)
  <2>1. i \in 1..Len(tools')
    BY <1>1, Zenon
  <2>2. pos' # 1
    <3>1. \A n \in Nat : i \in 1..n => ~(i < 1)
      OBVIOUS
    <3>2. QED
      BY <1>a, <1>6, <2>1, <3>1, Zenon
  <2>3. at \in {"collect", "emit"} /\ pos' = pos /\ i \in DOMAIN tools
    BY <1>6, <2>2
  <2>4. ~tools[i].kind.safe /\ tools[i].status # "yielded" /\ i < pos
    BY <1>6, <2>3
  <2>5. MissingBetween(tools, emitted, i, pos - 1, DOMAIN emitted)
    BY <2>3, <2>4 DEF InStep
  <2>6. QED
    BY <1>1, <1>a, <1>3, <2>3, <2>5
<1>7. QED
  BY <1>2, <1>4, <1>5, <1>6 DEF InStep

\* When a call with news is handed over, an exclusive one before it that is not
\* yet handed over waits, and all behind that one wait too, but for missing
\* tools.
LEMMA OnlyMissingOvertake ==
  ASSUME TypeOK, QueueOK, Accounts, Emit,
         NEW h \in DOMAIN tools, pos <= h, h < First(Yieldable), ~tools[h].kind.safe,
         tools[h].status # "yielded"
  PROVE  ~tools[First(Yieldable)].kind.known /\ ~tools[First(Yieldable)].prog
<1> DEFINE i == First(Yieldable)
<1>1. i \in Yieldable /\ i \in DOMAIN tools /\ \A j \in Yieldable : i <= j
  BY EmitChanges
<1> HIDE DEF i
<1>2. /\ DOMAIN tools = 1..Len(tools) /\ Len(tools) \in Nat /\ pos \in Nat
      /\ tools[h].status \in Statuses
  BY DomainType DEF Tracked
<1>3. /\ pos <= h /\ h < i /\ HasNews(i) /\ h \in Nat /\ i \in Nat
      /\ \A j \in Executing : pos <= j /\ j < i => tools[j].kind.safe
  BY <1>1, <1>2 DEF Yieldable, i
<1>4. tools[h].status # "executing"
  BY <1>3 DEF Executing, With
<1>5. h \notin Yieldable
  BY <1>1, <1>3
<1>6. \A j \in Executing : pos <= j /\ j < h => tools[j].kind.safe
  BY <1>2, <1>3 DEF Executing, With
<1>7. ~HasNews(h)
  BY <1>3, <1>5, <1>6 DEF Yieldable
<1>8. tools[h].status = "queued"
  BY <1>2, <1>4, <1>7 DEF HasNews, Statuses
<1>9. tools[i].kind.known => tools[i].status = "queued"
  BY <1>1, <1>3, <1>8 DEF QueueOK, Ordered
<1>10. QED
  BY <1>1, <1>3, <1>9 DEF HasNews, Accounts, Told, i

\* Handing over keeps the order of results.
LEMMA EmitInStep ==
  ASSUME TypeOK, QueueOK, Accounts, InStep(tools), Emit
  PROVE  InStep(tools)'
<1> DEFINE i == First(Yieldable)
           z == Len(emitted) + 1
<1>0. /\ i \in Yieldable /\ i \in DOMAIN tools /\ DOMAIN tools' = DOMAIN tools
      /\ \A j \in DOMAIN tools \ {i} : tools'[j] = tools[j]
      /\ tools'[i].kind = tools[i].kind /\ at = "collect" /\ at' = "emit"
      /\ \/ /\ tools[i].prog /\ tools'[i].status = tools[i].status
            /\ pos' = i /\ UNCHANGED emitted
         \/ /\ ~tools[i].prog /\ tools[i].status = "completed" /\ tools'[i].status = "yielded"
            /\ pos' = i + 1 /\ emitted' = Append(emitted, i)
  BY EmitChanges
<1>a. \A h \in DOMAIN tools : pos <= h /\ h < i /\ ~tools[h].kind.safe /\ tools[h].status # "yielded" =>
        ~tools[i].kind.known /\ ~tools[i].prog
  BY OnlyMissingOvertake
<1>1. /\ DOMAIN tools \in SUBSET Nat /\ pos \in Nat /\ i \in Nat /\ i \in 1..MaxTools
      /\ emitted \in Seq(1..MaxTools)
      /\ DOMAIN emitted = 1..Len(emitted) /\ Len(emitted) \in Nat
      /\ \A n \in DOMAIN emitted : /\ emitted[n] \in DOMAIN tools /\ emitted[n] \in Int
                                   /\ 1..n \in SUBSET DOMAIN emitted
  BY <1>0, DomainType, EmittedType
<1>2. pos <= i
  BY <1>0 DEF Yieldable
<1> HIDE DEF i
<1>3. \A j \in DOMAIN tools : tools'[j].kind = tools[j].kind /\ (j # i => tools'[j].status = tools[j].status)
  BY <1>0
<1>4. CASE /\ tools[i].prog /\ tools'[i].status = tools[i].status
           /\ pos' = i /\ UNCHANGED emitted
  <2>1. emitted' = emitted /\ DOMAIN emitted \in SUBSET DOMAIN emitted
    BY <1>4
  <2>2. ASSUME NEW h, NEW j \in Int, NEW k \in Int, j <= k, NEW ns \in SUBSET DOMAIN emitted,
               MissingBetween(tools, emitted, h, j, ns)
        PROVE  MissingBetween(tools', emitted, h, k, ns)
    <3>1. \A l \in ns : /\ emitted[l] = emitted[l] /\ emitted[l] \in Int
                        /\ tools'[emitted[l]].kind = tools[emitted[l]].kind
      BY <1>1, <1>3
    <3>2. ns \in SUBSET ns
      OBVIOUS
    <3>3. QED
      BY <2>2, <3>1, <3>2, MissingStays
  <2>3. ASSUME NEW m \in DOMAIN emitted, NEW n \in DOMAIN emitted,
               m < n, emitted[m] > emitted[n], ~tools'[emitted[n]].kind.safe
        PROVE  MissingBetween(tools', emitted, emitted[n], emitted[m], 1..m)
    <3>1. MissingBetween(tools, emitted, emitted[n], emitted[m], 1..m)
      BY <1>1, <1>3, <2>3 DEF InStep
    <3>2. emitted[m] <= emitted[m]
      BY <1>1
    <3>3. QED
      BY <1>1, <2>2, <3>1, <3>2
  <2>4. ASSUME NEW h \in DOMAIN tools', NEW n \in DOMAIN emitted,
               ~tools'[h].kind.safe, tools'[h].status # "yielded", emitted[n] > h
        PROVE  MissingBetween(tools', emitted, h, emitted[n], 1..n)
    <3>1. ~tools[h].kind.safe /\ tools[h].status # "yielded" /\ h \in DOMAIN tools
      BY <1>0, <1>3, <1>4, <2>4
    <3>2. MissingBetween(tools, emitted, h, emitted[n], 1..n)
      BY <2>4, <3>1 DEF InStep
    <3>3. emitted[n] <= emitted[n]
      BY <1>1
    <3>4. QED
      BY <1>1, <2>2, <3>2, <3>3
  <2>5. ASSUME NEW h \in DOMAIN tools', ~tools'[h].kind.safe, tools'[h].status # "yielded", h < pos'
        PROVE  MissingBetween(tools', emitted, h, pos' - 1, DOMAIN emitted)
    <3>1. ~tools[h].kind.safe /\ tools[h].status # "yielded" /\ h \in DOMAIN tools
      BY <1>0, <1>3, <1>4, <2>5
    <3>2. h < pos
      BY <1>1, <1>4, <1>a, <2>5, <3>1
    <3>3. MissingBetween(tools, emitted, h, pos - 1, DOMAIN emitted)
      BY <1>0, <3>1, <3>2 DEF InStep
    <3>4. pos - 1 <= pos' - 1 /\ pos - 1 \in Int /\ pos' - 1 \in Int
      BY <1>1, <1>2, <1>4
    <3>5. QED
      BY <2>1, <2>2, <3>3, <3>4
  <2>6. QED
    BY <2>1, <2>3, <2>4, <2>5 DEF InStep
<1>5. CASE /\ ~tools[i].prog /\ tools[i].status = "completed" /\ tools'[i].status = "yielded"
           /\ pos' = i + 1 /\ emitted' = Append(emitted, i)
  <2>1. /\ emitted' \in Seq(1..MaxTools) /\ Len(emitted') = z /\ emitted'[z] = i
        /\ \A n \in DOMAIN emitted : emitted'[n] = emitted[n]
    BY <1>1, <1>5, AppendProperties
  <2>2. DOMAIN emitted' = 1..z
    BY <2>1, LenProperties
  <2>3. /\ DOMAIN emitted' = DOMAIN emitted \cup {z} /\ z \in Nat
        /\ \A n \in DOMAIN emitted : n < z /\ ~(z < n)
        /\ DOMAIN emitted \in SUBSET (1..z) /\ z \in 1..z
    BY <1>1, <2>2
  <2> HIDE DEF z
  <2>4. ASSUME NEW h, NEW j \in Int, NEW k \in Int, j <= k, NEW ms,
               NEW ns \in SUBSET DOMAIN emitted, ns \in SUBSET ms,
               MissingBetween(tools, emitted, h, j, ns)
        PROVE  MissingBetween(tools', emitted', h, k, ms)
    <3>1. \A l \in ns : /\ emitted'[l] = emitted[l] /\ emitted[l] \in Int
                        /\ tools'[emitted[l]].kind = tools[emitted[l]].kind
      BY <1>1, <1>3, <2>1
    <3>2. QED
      BY <2>4, <3>1, MissingStays
  \* Whoever is not handed over and before call i has been passed behind the
  \* answer to a missing tool, that of i included.
  <2>5. ASSUME NEW h \in DOMAIN tools, ~tools[h].kind.safe, tools[h].status # "yielded", h < i
        PROVE  MissingBetween(tools', emitted', h, i, 1..z)
    <3>1. CASE h < pos
      <4>1. MissingBetween(tools, emitted, h, pos - 1, DOMAIN emitted)
        BY <1>0, <2>5, <3>1 DEF InStep
      <4>2. /\ pos - 1 <= i /\ pos - 1 \in Int /\ i \in Int
            /\ DOMAIN emitted \in SUBSET DOMAIN emitted
        BY <1>1, <1>2
      <4>3. QED
        BY <2>3, <2>4, <4>1, <4>2
    <3>2. CASE pos <= h
      <4>1. ~tools'[i].kind.known
        BY <1>0, <1>a, <2>5, <3>2
      <4>2. i <= i
        BY <1>1
      <4>3. QED
        BY <2>1, <2>3, <2>5, <4>1, <4>2 DEF MissingBetween
    <3>3. h \in Nat
      BY <1>1
    <3>4. QED
      BY <1>1, <3>1, <3>2, <3>3
  <2>6. ASSUME NEW m \in DOMAIN emitted', NEW n \in DOMAIN emitted',
               m < n, emitted'[m] > emitted'[n], ~tools'[emitted'[n]].kind.safe
        PROVE  MissingBetween(tools', emitted', emitted'[n], emitted'[m], 1..m)
    <3>1. m \in DOMAIN emitted
      BY <2>3, <2>6
    <3>2. /\ 1..m \in SUBSET DOMAIN emitted /\ emitted[m] \in Int /\ emitted'[m] = emitted[m]
          /\ emitted[m] <= emitted[m] /\ 1..m \in SUBSET (1..m)
      BY <1>1, <2>1, <3>1
    <3>3. CASE n \in DOMAIN emitted
      <4>1. emitted'[n] = emitted[n] /\ ~tools[emitted[n]].kind.safe
        BY <1>1, <1>3, <2>1, <2>6, <3>3
      <4>2. MissingBetween(tools, emitted, emitted[n], emitted[m], 1..m)
        BY <2>6, <3>1, <3>2, <3>3, <4>1 DEF InStep
      <4>3. MissingBetween(tools', emitted', emitted[n], emitted[m], 1..m)
        BY <2>4, <3>2, <4>2
      <4>4. QED
        BY <3>2, <4>1, <4>3
    <3>4. CASE n = z
      <4>1. ~tools[i].kind.safe /\ tools[i].status # "yielded" /\ emitted[m] > i
        BY <1>0, <1>5, <2>1, <2>6, <3>2, <3>4
      <4>2. MissingBetween(tools, emitted, i, emitted[m], 1..m)
        BY <1>0, <3>1, <4>1 DEF InStep
      <4>3. MissingBetween(tools', emitted', i, emitted[m], 1..m)
        BY <2>4, <3>2, <4>2
      <4>4. QED
        BY <2>1, <3>2, <3>4, <4>3
    <3>5. QED
      BY <2>3, <3>3, <3>4
  <2>7. ASSUME NEW h \in DOMAIN tools', NEW n \in DOMAIN emitted',
               ~tools'[h].kind.safe, tools'[h].status # "yielded", emitted'[n] > h
        PROVE  MissingBetween(tools', emitted', h, emitted'[n], 1..n)
    <3>1. h \in DOMAIN tools /\ h # i /\ ~tools[h].kind.safe /\ tools[h].status # "yielded"
      BY <1>0, <1>3, <1>5, <2>7
    <3>2. CASE n \in DOMAIN emitted
      <4>1. emitted'[n] = emitted[n]
        BY <2>1, <3>2
      <4>2. MissingBetween(tools, emitted, h, emitted[n], 1..n)
        BY <2>7, <3>1, <3>2, <4>1 DEF InStep
      <4>3. /\ 1..n \in SUBSET DOMAIN emitted /\ emitted[n] \in Int
            /\ emitted[n] <= emitted[n] /\ 1..n \in SUBSET (1..n)
        BY <1>1, <3>2
      <4>4. MissingBetween(tools', emitted', h, emitted[n], 1..n)
        BY <2>4, <4>2, <4>3
      <4>5. QED
        BY <4>1, <4>4
    <3>3. CASE n = z
      <4>1. h < i
        BY <1>1, <2>1, <2>7, <3>1, <3>3
      <4>2. QED
        BY <2>1, <2>5, <3>1, <3>3, <4>1
    <3>4. QED
      BY <2>3, <3>2, <3>3
  <2>8. ASSUME NEW h \in DOMAIN tools', ~tools'[h].kind.safe, tools'[h].status # "yielded", h < pos'
        PROVE  MissingBetween(tools', emitted', h, pos' - 1, DOMAIN emitted')
    <3>1. h \in DOMAIN tools /\ h # i /\ ~tools[h].kind.safe /\ tools[h].status # "yielded"
      BY <1>0, <1>3, <1>5, <2>8
    <3>2. h < i /\ pos' - 1 = i
      <4>1. h \in Nat /\ i \in Nat /\ pos' = i + 1
        BY <1>1, <1>5, <3>1
      <4>2. QED
        BY <2>8, <3>1, <4>1
    <3>3. QED
      BY <2>2, <2>5, <3>1, <3>2
  <2>9. QED
    BY <2>6, <2>7, <2>8 DEF InStep
<1>6. QED
  BY <1>0, <1>4, <1>5

\* Where the caller's position may start when it goes through the calls.
LEMMA CallerMoves ==
  ASSUME AtItsPlace, [Next]_vars, ~Emit
  PROVE  at' \in {"collect", "emit"} =>
           \/ pos' = 1
           \/ at \in {"collect", "emit"} /\ pos' = pos
<1>1. CASE \/ TakeResults \/ StreamEnds \/ Emitted \/ Collected \/ Wake \/ DrainCollect
  BY <1>1 DEF TakeResults, StreamEnds, Emitted, Collected, Wake, DrainCollect, AtItsPlace
<1>2. CASE DrainLoop \/ DrainPass
  BY <1>2 DEF DrainLoop, DrainPass, DrainStep
<1>3. CASE \/ \E kind \in Kinds : AddTool(kind)
           \/ Discard
           \/ \E o \in orphans : OrphanEnds(o)
           \/ \E p \in Positions : RunLoop(p)
           \/ \E i \in 1..MaxTools : ToolEnds(i) \/ Progress(i)
           \/ \E reason \in {"interrupt", "abort"} : Abort(reason)
           \/ UNCHANGED vars
  BY <1>3 DEF AddTool, Discard, OrphanEnds, RunLoop, ToolEnds, Cancelled, Answered, Progress,
              Abort, caller, vars
<1>4. QED
  BY <1>1, <1>2, <1>3 DEF Next, Caller

\* Where the drain stands: nothing happens to the calls when it is over.
LEMMA PlacesStay ==
  ASSUME TypeOK, QueueOK, AtItsPlace, [Next]_vars
  PROVE  AtItsPlace'
<1>0. /\ DOMAIN tools = 1..Len(tools) /\ Len(tools) \in Nat
  BY DomainType
<1>1. at' = "passed" => pos' = 1
  <2>1. CASE \/ TakeResults \/ StreamEnds \/ Emit \/ Emitted \/ Collected \/ Wake \/ DrainCollect
    BY <2>1 DEF TakeResults, StreamEnds, Emit, Emitted, Collected, Wake, DrainCollect
  <2>2. CASE DrainLoop \/ DrainPass
    BY <2>2 DEF DrainLoop, DrainPass, DrainStep
  <2>3. CASE \/ \E kind \in Kinds : AddTool(kind)
             \/ Discard
             \/ \E o \in orphans : OrphanEnds(o)
             \/ \E p \in Positions : RunLoop(p)
             \/ \E i \in 1..MaxTools : ToolEnds(i) \/ Progress(i)
             \/ \E reason \in {"interrupt", "abort"} : Abort(reason)
             \/ UNCHANGED vars
    BY <2>3 DEF AddTool, Discard, OrphanEnds, RunLoop, ToolEnds, Cancelled, Answered, Progress,
                Abort, caller, vars, AtItsPlace
  <2>4. QED
    BY <2>1, <2>2, <2>3 DEF Next, Caller
<1>2. at' = "done" => Finished(tools)'
  <2>1. CASE DrainLoop
    BY <2>1 DEF DrainLoop, DrainStep, Finished
  <2>2. CASE /\ ~DrainLoop /\ at # "done"
    <3>1. CASE \/ TakeResults \/ StreamEnds \/ Emit \/ Emitted \/ Collected \/ Wake \/ DrainCollect \/ DrainPass
      BY <3>1 DEF TakeResults, StreamEnds, Emit, Emitted, Collected, Wake, DrainCollect, DrainPass,
                  DrainStep
    <3>2. CASE \/ \E kind \in Kinds : AddTool(kind)
               \/ Discard
               \/ \E o \in orphans : OrphanEnds(o)
               \/ \E p \in Positions : RunLoop(p)
               \/ \E i \in 1..MaxTools : ToolEnds(i) \/ Progress(i)
               \/ \E reason \in {"interrupt", "abort"} : Abort(reason)
               \/ UNCHANGED vars
      BY <2>2, <3>2 DEF AddTool, Discard, OrphanEnds, RunLoop, ToolEnds, Cancelled, Answered, Progress,
                        Abort, caller, vars
    <3>3. QED
      BY <2>2, <3>1, <3>2 DEF Next, Caller
  <2>3. CASE at = "done"
    <3>1. \A i \in DOMAIN tools : tools[i].status = "yielded"
      BY <2>3 DEF AtItsPlace, Finished
    <3>2. With(tools, "queued") = {} /\ Executing = {}
      BY <3>1 DEF With, Executing
    <3>3. UNCHANGED tools
      <4>1. ~Discard /\ ~Emit /\ \A kind \in Kinds : ~AddTool(kind)
        BY <2>3 DEF Discard, Emit, AddTool
      <4>2. \A k : ~Started(tools, k)
        BY <3>2 DEF Started
      <4>3. \A i \in 1..MaxTools : ~(ToolEnds(i) \/ Progress(i))
        BY <3>2, OutcomeChanges
      <4>4. at' # "added"
        <5>1. CASE at' = at
          BY <2>3, <5>1
        <5>2. CASE at' # at
          BY <2>3, <4>1, <5>2
             DEF Next, Caller, TakeResults, StreamEnds, OrphanEnds, RunLoop, Emitted, Collected, Wake,
                 DrainLoop, DrainPass, DrainCollect, ToolEnds, Cancelled, Answered, Progress, Abort,
                 caller, vars
        <5>3. QED
          BY <5>1, <5>2
      <4>5. QED
        BY <4>1, <4>2, <4>3, <4>4, Effects
    <3>4. QED
      BY <3>1, <3>3 DEF Finished
  <2>4. QED
    BY <2>1, <2>2, <2>3
<1>3. QED
  BY <1>1, <1>2 DEF AtItsPlace

\* Nothing has been answered at the start, nor after a fallback.
LEMMA NothingYet ==
  ASSUME tools = <<>>, hasErrored = FALSE, context = <<>>, emitted = <<>>, at = "stream"
  PROVE  SoundOK
<1>1. DOMAIN tools = {} /\ DOMAIN context = {} /\ DOMAIN emitted = {}
  OBVIOUS
<1>2. With(tools, "executing") = {}
  BY <1>1 DEF With
<1>3. Accounts
  BY <1>1, <1>2 DEF Accounts, Told, Caused, Modified
<1>4. InStep(tools) /\ AtItsPlace
  BY <1>1 DEF InStep, AtItsPlace
<1>5. QED
  BY <1>3, <1>4 DEF SoundOK

\* Every step keeps the invariant of the answers.
LEMMA StepSoundOK ==
  ASSUME TypeOK, TypeOK', QueueOK, SoundOK, [Next]_vars
  PROVE  SoundOK'
<1>0. /\ Accounts /\ InStep(tools) /\ AtItsPlace /\ AtItsPlace'
      /\ tools \in Seq(Tracked)
  BY PlacesStay DEF SoundOK, TypeOK
<1>1. ASSUME ~Emit, UNCHANGED emitted, DOMAIN tools \subseteq DOMAIN tools',
             DOMAIN tools' = DOMAIN tools \/ at' = "added",
             \A j \in DOMAIN tools : /\ tools'[j].kind = tools[j].kind
                                     /\ tools'[j].status = "yielded" <=> tools[j].status = "yielded"
      PROVE  InStep(tools)'
  <2>1. at' \in {"collect", "emit"} =>
           \/ pos' = 1
           \/ at \in {"collect", "emit"} /\ pos' = pos /\ DOMAIN tools' = DOMAIN tools
    BY <1>0, <1>1, CallerMoves
  <2>2. QED
    BY <1>0, <1>1, <2>1, NoYield
<1>2. CASE Emit
  BY <1>0, <1>2, EmitKeeps, EmitInStep DEF SoundOK
<1>3. CASE Discard
  <2>1. /\ tools' = <<>> /\ hasErrored' = FALSE /\ context' = <<>> /\ emitted' = <<>>
        /\ at' = "stream"
    BY <1>3 DEF Discard, caller
  <2>2. DOMAIN tools' = {} /\ DOMAIN context' = {} /\ DOMAIN emitted' = {}
    BY <2>1
  <2>3. With(tools', "executing") = {}
    BY <2>2 DEF With
  <2>4. Accounts'
    BY <2>1, <2>2, <2>3 DEF Accounts, Told, Caused, Modified
  <2>5. InStep(tools)'
    BY <2>1, <2>2 DEF InStep
  <2>6. QED
    BY <1>0, <2>4, <2>5 DEF SoundOK
<1>4. CASE ~Emit /\ UNCHANGED <<tools, hasErrored, context, emitted>>
  <2>1. Accounts'
    BY <1>0, <1>4 DEF Accounts, Told, Caused, Modified, With
  <2>2. InStep(tools)'
    BY <1>1, <1>4
  <2>3. QED
    BY <1>0, <2>1, <2>2 DEF SoundOK
<1>5. ASSUME NEW i \in 1..MaxTools, ToolEnds(i) \/ Progress(i), ~Emit PROVE SoundOK'
  <2>1. Accounts'
    BY <1>0, <1>5, OutcomeKeeps
  <2>2. /\ i \in Executing /\ DOMAIN tools' = DOMAIN tools
        /\ \A j \in DOMAIN tools \ {i} : tools'[j] = tools[j]
        /\ tools'[i].kind = tools[i].kind /\ UNCHANGED emitted
        /\ tools'[i].status \in {"executing", "completed"}
    BY <1>5, OutcomeChanges
  <2>3. \A j \in DOMAIN tools : /\ tools'[j].kind = tools[j].kind
                                /\ tools'[j].status = "yielded" <=> tools[j].status = "yielded"
    BY <2>2 DEF Executing, With
  <2>4. InStep(tools)'
    BY <1>1, <1>5, <2>2, <2>3
  <2>5. QED
    BY <1>0, <2>1, <2>4 DEF SoundOK
<1>6. ASSUME NEW k, Started(tools, k), ~Emit, UNCHANGED <<hasErrored, context, emitted>> PROVE SoundOK'
  <2>1. Accounts'
    BY <1>0, <1>6, StartKeeps DEF QueueOK, Accounts
  <2>2. /\ DOMAIN tools' = DOMAIN tools
        /\ \A j \in DOMAIN tools : /\ tools'[j].kind = tools[j].kind
                                   /\ tools'[j].status = "yielded" <=> tools[j].status = "yielded"
    BY <1>6 DEF Started, With
  <2>3. InStep(tools)'
    BY <1>1, <1>6, <2>2
  <2>4. QED
    BY <1>0, <2>1, <2>3 DEF SoundOK
<1>7. ASSUME NEW kind \in Kinds, ~Emit, UNCHANGED <<hasErrored, context, emitted>>, at' = "added",
             \/ tools' = Append(tools, NewCall(kind))
             \/ \E k : Started(Append(tools, NewCall(kind)), k)
      PROVE  SoundOK'
  <2> DEFINE ts == Append(tools, NewCall(kind))
  <2>1. /\ ts \in Seq(Tracked) /\ DOMAIN ts = DOMAIN tools \cup {Len(tools) + 1}
        /\ \A j \in DOMAIN tools : ts[j] = tools[j]
        /\ ts[Len(tools) + 1] = NewCall(kind) /\ Len(tools) + 1 \notin DOMAIN tools
        /\ DOMAIN tools = 1..Len(tools) /\ Len(tools) \in Nat
    BY Appended, DomainType
  <2>2. Told(ts) /\ Caused(ts) /\ Modified(ts)
    BY <1>0, AppendKeeps
  <2>3. tools' = ts \/ \E k : Started(ts, k)
    BY <1>7
  <2> HIDE DEF ts
  <2>4. Ordered(ts)
    <3>1. ts[Len(tools) + 1].kind.known => ts[Len(tools) + 1].status = "queued"
      BY <2>1 DEF NewCall
    <3>2. \A i \in DOMAIN tools : ~(Len(tools) + 1 < i)
      BY <2>1
    <3>3. QED
      BY <2>1, <3>1, <3>2 DEF QueueOK, Ordered
  <2>5. Accounts'
    <3>1. CASE tools' = ts
      BY <1>7, <2>2, <3>1 DEF Accounts, Told, Caused, Modified
    <3>2. ASSUME NEW k, Started(ts, k) PROVE Accounts'
      BY <1>0, <1>7, <2>1, <2>2, <2>4, <3>2, StartKeeps
    <3>3. QED
      BY <2>3, <3>1, <3>2
  <2>6. /\ DOMAIN tools' = DOMAIN ts
        /\ \A j \in DOMAIN ts : /\ tools'[j].kind = ts[j].kind
                                /\ tools'[j].status = "yielded" <=> ts[j].status = "yielded"
    BY <2>3 DEF Started, With
  <2>7. InStep(tools)'
    BY <1>1, <1>7, <2>1, <2>6
  <2>8. QED
    BY <1>0, <2>5, <2>7 DEF SoundOK
<1>8. QED
  BY <1>2, <1>3, <1>4, <1>5, <1>6, <1>7, Effects

\* The invariant of the answers always holds.
LEMMA SoundStaysOK == Spec => [](TypeOK /\ QueueOK /\ SoundOK)
<1>1. Init => SoundOK
  BY NothingYet DEF Init
<1>2. TypeOK /\ TypeOK' /\ QueueOK /\ SoundOK /\ [Next]_vars => SoundOK'
  BY StepSoundOK
<1>3. QED
  BY <1>1, <1>2, QueueStaysOK, PTL DEF Spec

\* When every call has been handed over, once, there are as many results as calls.
LEMMA OneResultEach ==
  ASSUME TypeOK, SoundOK, at = "done"
  PROVE  Len(emitted) = Len(tools)
<1>1. /\ DOMAIN tools = 1..Len(tools) /\ Len(tools) \in Nat
      /\ DOMAIN emitted = 1..Len(emitted) /\ Len(emitted) \in Nat
      /\ emitted \in Seq(1..MaxTools) /\ \A n \in DOMAIN emitted : emitted[n] \in DOMAIN tools
  BY EmittedType DEF SoundOK
<1>2. emitted \in [1..Len(emitted) -> 1..Len(tools)]
  <2>1. emitted = [n \in 1..Len(emitted) |-> emitted[n]]
    BY <1>1
  <2>2. QED
    BY <1>1, <2>1
<1>3. \A m, n \in 1..Len(emitted) : emitted[m] = emitted[n] => m = n
  BY <1>1 DEF SoundOK, Accounts, Told
<1>4. \A i \in 1..Len(tools) : \E n \in 1..Len(emitted) : emitted[n] = i
  BY <1>1 DEF SoundOK, AtItsPlace, Finished, Accounts, Told
<1>5. emitted \in Bijection(1..Len(emitted), 1..Len(tools))
  BY <1>2, <1>3, <1>4 DEF Bijection, Injection, Surjection, IsInjective
<1>6. ExistsBijection(1..Len(emitted), 1..Len(tools))
  BY <1>5 DEF ExistsBijection
<1>7. /\ IsFiniteSet(1..Len(emitted)) /\ Cardinality(1..Len(emitted)) = Len(emitted)
      /\ Cardinality(1..Len(tools)) = Len(tools)
  <2>1. ASSUME NEW n \in Nat PROVE IsFiniteSet(1..n) /\ Cardinality(1..n) = n
    <3>1. IsFiniteSet(1..n) /\ Cardinality(1..n) = IF 1 > n THEN 0 ELSE n - 1 + 1
      BY FS_Interval
    <3>2. (IF 1 > n THEN 0 ELSE n - 1 + 1) = n
      OBVIOUS
    <3>3. QED
      BY <3>1, <3>2
  <2>2. QED
    BY <1>1, <2>1
<1>8. QED
  BY <1>6, <1>7, FS_Bijection

\* What the executor hands over is sound (AnswersAreSound): no exclusive result
\* is overtaken but behind the answer to a missing tool, every call is answered
\* once, sibling errors have a failed Bash call behind them, and the context has
\* been through the modifiers of exactly the calls that succeeded, in order.
THEOREM SoundAnswers == Spec => []AnswersAreSound
<1>1. ASSUME TypeOK, SoundOK PROVE AnswersAreSound
  <2>1. ExclusiveResultsInOrder
    BY <1>1 DEF SoundOK, InStep, MissingBetween, ExclusiveResultsInOrder
  <2>2. AllAnsweredOnce
    <3> SUFFICES ASSUME at = "done"
                 PROVE  /\ Len(emitted) = Len(tools)
                        /\ \A i \in DOMAIN tools : /\ tools[i].answer # "none"
                                                   /\ \E n \in DOMAIN emitted : emitted[n] = i
      BY DEF AllAnsweredOnce
    <3>1. \A i \in DOMAIN tools : tools[i].answer # "none" /\ \E n \in DOMAIN emitted : emitted[n] = i
      BY <1>1 DEF SoundOK, AtItsPlace, Finished, Accounts, Told
    <3>2. QED
      BY <1>1, <3>1, OneResultEach
  <2>3. SiblingErrorsHaveACause
    BY <1>1 DEF SoundOK, Accounts, Caused, SiblingErrorsHaveACause
  <2>4. ModifiersInOrder
    <3>1. \A i \in DOMAIN tools : tools[i].kind.modifies /\ ~tools[i].kind.safe =>
            (tools[i].answer = "ok" <=> \E n \in DOMAIN context : context[n] = i)
      BY <1>1 DEF SoundOK, Accounts, Modified
    <3>2. QED
      BY <1>1, <3>1 DEF SoundOK, Accounts, Modified, ModifiersInOrder
  <2>5. QED
    BY <2>1, <2>2, <2>3, <2>4 DEF AnswersAreSound
<1>2. QED
  BY <1>1, SoundStaysOK, PTL
=============================================================================
