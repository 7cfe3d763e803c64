----------------------------- MODULE TurnsProofs -----------------------------
(* Proofs about Turns, for every set of commands, every number of turns and  *)
(* of interruptions.                                                       *)
EXTENDS Turns, FilteringProofs, FiniteSetTheorems, TLAPS

(* A nonempty set of natural numbers has a smallest element, which Min picks. *)
LEMMA MinIsIn ==
  ASSUME NEW S \in SUBSET Nat, S # {}
  PROVE  Min(S) \in S /\ \A x \in S : Min(S) <= x
<1> DEFINE less == {ss \in Nat \X Nat : ss[1] < ss[2]}
<1>1. IsWellFoundedOn(less, Nat)
  BY NatLessThanWellFounded, Zenon DEF OpToRel
<1>2. PICK x \in S : \A y \in S : ~ (<<y, x>> \in less)
  BY <1>1, WFMin
<1>3. \A i, j \in Nat : i < j => <<i, j>> \in less
  OBVIOUS
<1> HIDE DEF less
<1>4. ASSUME NEW y \in S PROVE x <= y
  <2>1. x \in Nat /\ y \in Nat /\ ~ (<<y, x>> \in less)
    BY <1>2
  <2>2. ~ (y < x)
    BY <1>3, <2>1
  <2>3. QED
    BY <2>1, <2>2
<1>5. QED
  BY <1>4 DEF Min

(* What of the state the entries of the queue and of the turns are. *)
LEMMA EntryIsEntry ==
  ASSUME TypeOK, NEW c \in Commands, NEW mode \in Modes, NEW prio \in 0..2
  PROVE  /\ Entry(c, mode, prio) \in EntryType
         /\ Entry(c, mode, prio).id = c /\ Entry(c, mode, prio).mode = mode
  BY DEF TypeOK, Entry, EntryType

\* A queue of one command.
LEMMA OneEntry ==
  ASSUME NEW e \in EntryType
  PROVE  <<e>> \in Seq(EntryType) /\ ToSet(<<e>>) = {e}
  BY DEF ToSet

\* An empty queue.
LEMMA NoEntry == <<>> \in Seq(EntryType) /\ ToSet(<<>>) = {}
  BY DEF ToSet

\* The commands of a queue.
LEMMA SetOfEntries ==
  ASSUME NEW s \in Seq(EntryType)
  PROVE  ToSet(s) \subseteq EntryType /\ Ids(ToSet(s)) \subseteq Commands
<1>1. ToSet(s) \subseteq EntryType
  BY ElementOfSeq, LenProperties DEF ToSet
<1>2. QED
  BY <1>1 DEF Ids, EntryType

\* The commands of two queues, one after the other.
LEMMA ConcatSet ==
  ASSUME NEW s \in Seq(EntryType), NEW t \in Seq(EntryType)
  PROVE  s \o t \in Seq(EntryType) /\ ToSet(s \o t) = ToSet(s) \cup ToSet(t)
<1>1. /\ s \o t \in Seq(EntryType) /\ Len(s \o t) = Len(s) + Len(t)
      /\ \A i \in 1..Len(s) + Len(t) : (s \o t)[i] = IF i <= Len(s) THEN s[i] ELSE t[i - Len(s)]
      /\ DOMAIN s = 1..Len(s) /\ DOMAIN t = 1..Len(t) /\ Len(s) \in Nat /\ Len(t) \in Nat
      /\ DOMAIN (s \o t) = 1..(Len(s) + Len(t))
  BY ConcatProperties, LenProperties
<1>2. ASSUME NEW i \in 1..(Len(s) + Len(t)) PROVE (s \o t)[i] \in ToSet(s) \cup ToSet(t)
  <2>1. CASE i <= Len(s)
    BY <1>1, <2>1 DEF ToSet
  <2>2. CASE i > Len(s)
    <3>1. i - Len(s) \in 1..Len(t)
      BY <1>1, <2>2
    <3>2. QED
      BY <1>1, <2>2, <3>1 DEF ToSet
  <2>3. QED
    BY <1>1, <2>1, <2>2
<1>3. ASSUME NEW i \in 1..Len(s) PROVE s[i] \in ToSet(s \o t)
  <2>1. i \in 1..(Len(s) + Len(t)) /\ (s \o t)[i] = s[i]
    BY <1>1
  <2>2. QED
    BY <1>1, <2>1 DEF ToSet
<1>4. ASSUME NEW i \in 1..Len(t) PROVE t[i] \in ToSet(s \o t)
  <2>1. i + Len(s) \in 1..(Len(s) + Len(t)) /\ (s \o t)[i + Len(s)] = t[i]
    BY <1>1
  <2>2. QED
    BY <1>1, <2>1 DEF ToSet
<1>5. QED
  BY <1>1, <1>2, <1>3, <1>4 DEF ToSet

\* The commands that stay when some are removed.
LEMMA WithoutSet ==
  ASSUME NEW s \in Seq(EntryType), NEW S
  PROVE  Without(s, S) \in Seq(EntryType) /\ ToSet(Without(s, S)) = ToSet(s) \ S
<1>1. /\ Dropping(s, S) \in Seq(EntryType)
      /\ \A x : (\E i \in DOMAIN Dropping(s, S) : Dropping(s, S)[i] = x)
                  <=> x \notin S /\ \E i \in DOMAIN s : s[i] = x
  BY DroppingElements
<1>2. QED
  BY <1>1 DEF Without, ToSet

(* peek finds an entry when there is one for the main thread. *)
LEMMA BestIsCandidate ==
  ASSUME NEW s \in Seq(EntryType), Best(s) # 0
  PROVE  Best(s) \in Candidates(s)
<1> DEFINE better(i, j) == \/ s[i].prio < s[j].prio
                           \/ s[i].prio = s[j].prio /\ i <= j
<1>1. /\ Candidates(s) # {}
      /\ Best(s) = CHOOSE i \in Candidates(s) : \A j \in Candidates(s) : better(i, j)
  BY DEF Best
<1>2. ASSUME NEW i \in Candidates(s) PROVE i \in Nat /\ s[i].prio \in Nat
  <2>1. i \in 1..Len(s)
    BY LenProperties DEF Candidates
  <2>2. s[i] \in EntryType /\ i \in Nat
    BY <2>1, ElementOfSeq, LenProperties
  <2>3. QED
    BY <2>2 DEF EntryType
<1> DEFINE prios == {s[i].prio : i \in Candidates(s)}
<1>3. Min(prios) \in prios /\ \A x \in prios : Min(prios) <= x
  <2>1. prios \in SUBSET Nat /\ prios # {}
    BY <1>1, <1>2
  <2> HIDE DEF prios
  <2>2. QED
    BY <2>1, MinIsIn
<1> DEFINE first == {i \in Candidates(s) : s[i].prio = Min(prios)}
<1>4. Min(first) \in first /\ \A x \in first : Min(first) <= x
  <2>1. first \in SUBSET Nat /\ first # {}
    BY <1>2, <1>3
  <2> HIDE DEF first
  <2>2. QED
    BY <2>1, MinIsIn
<1>5. PICK p, k \in Nat : /\ k \in Candidates(s) /\ s[k].prio = p
                          /\ \A j \in Candidates(s) : p <= s[j].prio
                          /\ \A j \in Candidates(s) : s[j].prio = p => k <= j
  <2>1. /\ Min(first) \in Candidates(s) /\ s[Min(first)].prio = Min(prios)
        /\ Min(first) \in Nat /\ Min(prios) \in Nat
    BY <1>2, <1>3, <1>4
  <2>2. \A j \in Candidates(s) : Min(prios) <= s[j].prio
    BY <1>3
  <2>3. \A j \in Candidates(s) : s[j].prio = Min(prios) => Min(first) <= j
    BY <1>4
  <2>4. QED
    BY <2>1, <2>2, <2>3
<1>6. \A j \in Candidates(s) : better(k, j)
  BY <1>2, <1>5
<1>7. QED
  BY <1>1, <1>5, <1>6

(* processQueueIfReady takes entries of the queue. *)
LEMMA TakenIsQueued ==
  ASSUME NEW s \in Seq(EntryType)
  PROVE  Taken(s) \in Seq(EntryType) /\ ToSet(Taken(s)) \subseteq ToSet(s)
<1>1. CASE Best(s) = 0
  BY <1>1, NoEntry DEF Taken
<1>2. CASE Best(s) # 0 /\ Alone(s[Best(s)])
  <2>1. Best(s) \in DOMAIN s
    BY <1>2, BestIsCandidate DEF Candidates
  <2>2. s[Best(s)] \in EntryType /\ s[Best(s)] \in ToSet(s)
    BY <2>1, ElementOfSeq, LenProperties DEF ToSet
  <2>3. Taken(s) = <<s[Best(s)]>>
    BY <1>2 DEF Taken
  <2>4. QED
    BY <2>2, <2>3, OneEntry
<1>3. CASE Best(s) # 0 /\ ~Alone(s[Best(s)])
  <2>1. Taken(s) = Without(s, {e \in ToSet(s) : ~Main(e) \/ e.mode # s[Best(s)].mode})
    BY <1>3 DEF Taken, Without
  <2>2. QED
    BY <2>1, WithoutSet
<1>4. QED
  BY <1>1, <1>2, <1>3

-----------------------------------------------------------------------------
(* The turns. *)

(* What a step leaves as it is of a turn it does not take further. *)
Like(t) ==
  /\ turns'[t].pc = turns[t].pc /\ turns'[t].gen = turns[t].gen
  /\ turns'[t].entries = turns[t].entries
  /\ turns[t].aborted => turns'[t].aborted
  /\ turns[t].robbed => turns'[t].robbed
  /\ turns[t].left => turns'[t].left

Undrained(t) == turns'[t].draining = turns[t].draining /\ turns'[t].snap = turns[t].snap

TurnsOK ==
  /\ turns \in [Slots -> TurnType]
  /\ \A t \in Slots : turns[t].gen <= generation /\ (turns[t].draining => turns[t].pc = "query")

\* The type invariant, conjunct by conjunct.
LEMMA Types ==
  ASSUME TypeOK
  PROVE  /\ status \in {"idle", "dispatching", "running"} /\ generation \in Nat
         /\ queue \in Seq(EntryType) /\ TurnsOK
         /\ controller \in Slots \cup {None} /\ holder \in Slots \cup {None}
         /\ arrived \subseteq Commands /\ gone \subseteq Commands /\ torn \subseteq Commands
         /\ times \in [Commands -> Nat] /\ seen \in [Commands -> Nat]
         /\ cancels \in 0..MaxCancels
  BY DEF TypeOK, GuardTypeOK, TurnsOK

\* The fields of a turn.
LEMMA TurnFields ==
  ASSUME TypeOK, NEW t \in Slots
  PROVE  /\ turns[t] \in TurnType /\ turns[t].entries \in Seq(EntryType)
         /\ turns[t].gen \in 0..generation /\ turns[t].snap \subseteq EntryType
         /\ turns[t].pc \in {"over", "input", "query"}
         /\ turns[t].draining => turns[t].pc = "query"
  BY Types DEF TurnsOK, TurnType

\* The fields of a turn that is over.
LEMMA OverFields ==
  ASSUME NEW b \in BOOLEAN, NEW new, new = [Over EXCEPT !.aborted = b]
  PROVE  /\ new \in TurnType
         /\ new.pc = "over" /\ new.gen = 0 /\ new.entries = <<>> /\ new.snap = {}
         /\ new.aborted = b
         /\ ~new.draining
<1>1. new \in TurnType
  BY NoEntry DEF Over, TurnType
<1>2. new.pc = "over" /\ new.gen = 0 /\ new.entries = <<>> /\ new.snap = {}
  BY DEF Over, TurnType
<1>3. new.aborted = b
  BY DEF Over, TurnType
<1>4. ~new.draining
  BY DEF Over, TurnType
<1>5. QED
  BY <1>1, <1>2, <1>3, <1>4

\* The fields of a turn that starts with commands.
LEMMA InputFields ==
  ASSUME NEW es \in Seq(EntryType), NEW new, new = [Over EXCEPT !.pc = "input", !.entries = es]
  PROVE  /\ new \in TurnType
         /\ new.pc = "input" /\ new.gen = 0 /\ new.entries = es /\ new.snap = {}
         /\ ~new.draining
         /\ ~new.aborted
         /\ ~new.robbed
         /\ ~new.left
<1>1. new \in TurnType
  BY DEF Over, TurnType
<1>2. new.pc = "input" /\ new.gen = 0 /\ new.entries = es /\ new.snap = {}
  BY DEF Over, TurnType
<1>3. ~new.draining
  BY DEF Over, TurnType
<1>4. ~new.aborted
  BY DEF Over, TurnType
<1>5. ~new.robbed
  BY DEF Over, TurnType
<1>6. ~new.left
  BY DEF Over, TurnType
<1>7. QED
  BY <1>1, <1>2, <1>3, <1>4, <1>5, <1>6

\* The fields of a turn that a teammate's message starts.
LEMMA TeammateFields ==
  ASSUME NEW g \in Nat, NEW new, new = [Over EXCEPT !.pc = "query", !.gen = g]
  PROVE  /\ new \in TurnType
         /\ new.pc = "query" /\ new.gen = g /\ new.entries = <<>> /\ new.snap = {}
         /\ ~new.draining
         /\ ~new.aborted
         /\ ~new.robbed
         /\ ~new.left
<1>1. new \in TurnType
  BY NoEntry DEF Over, TurnType
<1>2. new.pc = "query" /\ new.gen = g /\ new.entries = <<>> /\ new.snap = {}
  BY DEF Over, TurnType
<1>3. ~new.draining
  BY DEF Over, TurnType
<1>4. ~new.aborted
  BY DEF Over, TurnType
<1>5. ~new.robbed
  BY DEF Over, TurnType
<1>6. ~new.left
  BY DEF Over, TurnType
<1>7. QED
  BY <1>1, <1>2, <1>3, <1>4, <1>5, <1>6

\* A turn that starts its query keeps its other fields.
LEMMA QueryFields ==
  ASSUME NEW r \in TurnType, NEW g \in Nat, NEW new, new = [r EXCEPT !.pc = "query", !.gen = g]
  PROVE  /\ new \in TurnType
         /\ new.pc = "query" /\ new.gen = g /\ new.entries = r.entries /\ new.snap = r.snap
         /\ new.draining = r.draining
         /\ new.aborted = r.aborted
         /\ new.robbed = r.robbed
         /\ new.left = r.left
<1>1. new \in TurnType
  BY DEF TurnType
<1>2. new.pc = "query" /\ new.gen = g /\ new.entries = r.entries /\ new.snap = r.snap
  BY DEF TurnType
<1>3. new.draining = r.draining
  BY DEF TurnType
<1>4. new.aborted = r.aborted
  BY DEF TurnType
<1>5. new.robbed = r.robbed
  BY DEF TurnType
<1>6. new.left = r.left
  BY DEF TurnType
<1>7. QED
  BY <1>1, <1>2, <1>3, <1>4, <1>5, <1>6

(* One turn is set, and the other whose reservation it takes is robbed. *)
LEMMA ChangeFields ==
  ASSUME TypeOK, NEW t \in Slots, NEW r \in TurnType, Change(t, r),
         r.gen <= generation', r.draining => r.pc = "query",
         generation' \in Nat, generation <= generation'
  PROVE  /\ TurnsOK' /\ turns'[t] = r
         /\ \A u \in Slots \ {t} : /\ Like(u) /\ Undrained(u)
                                   /\ turns'[u].aborted = turns[u].aborted
                                   /\ Robs(t, u) => turns'[u].robbed
<1>1. turns \in [Slots -> TurnType]
  BY Types DEF TurnsOK
<1>2. turns'[t] = r /\ DOMAIN turns' = Slots
  BY DEF Change
<1>3. ASSUME NEW u \in Slots \ {t}
      PROVE  /\ turns'[u] \in TurnType /\ Like(u) /\ Undrained(u)
             /\ turns'[u].aborted = turns[u].aborted
             /\ Robs(t, u) => turns'[u].robbed
  <2>1. turns'[u] = IF Robs(t, u) THEN [turns[u] EXCEPT !.robbed = TRUE] ELSE turns[u]
    BY DEF Change
  <2>2. turns[u] \in TurnType
    BY <1>1
  <2>3. QED
    BY <2>1, <2>2 DEF TurnType, Like, Undrained
<1>4. turns' \in [Slots -> TurnType]
  BY <1>2, <1>3 DEF Change
<1>5. ASSUME NEW u \in Slots \ {t}
      PROVE  turns'[u].gen <= generation' /\ (turns'[u].draining => turns'[u].pc = "query")
  <2>1. turns[u].gen \in Nat /\ turns[u].gen <= generation /\ generation \in Nat
        /\ (turns[u].draining => turns[u].pc = "query")
    BY Types, TurnFields
  <2>2. QED
    BY <1>3, <2>1 DEF Like, Undrained
<1>6. QED
  BY <1>2, <1>3, <1>4, <1>5 DEF TurnsOK

\* Aborting a turn leaves the rest of all turns alone.
LEMMA AbortFields ==
  ASSUME TypeOK, controller \in Slots, Abort, generation' \in Nat, generation <= generation'
  PROVE  TurnsOK' /\ (\A t \in Slots : Like(t) /\ Undrained(t)) /\ turns'[controller].aborted
<1>1. turns \in [Slots -> TurnType]
  BY Types DEF TurnsOK
<1>2. turns' = [turns EXCEPT ![controller].aborted = TRUE]
  BY DEF Abort
<1>3. /\ turns' \in [Slots -> TurnType] /\ turns'[controller].aborted
      /\ \A t \in Slots : Like(t) /\ Undrained(t)
  BY <1>1, <1>2 DEF TurnType, Like, Undrained
<1>4. ASSUME NEW u \in Slots
      PROVE  turns'[u].gen <= generation' /\ (turns'[u].draining => turns'[u].pc = "query")
  <2>1. turns[u].gen \in Nat /\ turns[u].gen <= generation /\ generation \in Nat
        /\ (turns[u].draining => turns[u].pc = "query")
    BY Types, TurnFields
  <2>2. QED
    BY <1>3, <2>1 DEF Like, Undrained
<1>5. QED
  BY <1>3, <1>4 DEF TurnsOK

(* What onCancel leaves of the turns: those that had the guard are aborted, *)
(* or marked as left.                                                      *)
LEMMA CancelFields ==
  ASSUME TypeOK, NEW hit, generation' \in Nat, generation <= generation',
         turns' = [t \in Slots |->
           IF t = hit THEN [turns[t] EXCEPT !.aborted = TRUE]
           ELSE IF HasTheGuard(t) THEN [turns[t] EXCEPT !.left = TRUE] ELSE turns[t]]
  PROVE  /\ TurnsOK' /\ \A t \in Slots : Like(t) /\ Undrained(t)
         /\ \A t \in Slots : HasTheGuard(t) => turns'[t].aborted \/ turns'[t].left
<1>1. ASSUME NEW t \in Slots
      PROVE  /\ turns'[t] \in TurnType /\ Like(t) /\ Undrained(t)
             /\ HasTheGuard(t) => turns'[t].aborted \/ turns'[t].left
  <2>1. PICK r \in TurnType : r = turns[t]
    BY Types DEF TurnsOK
  <2>2. turns'[t] = IF t = hit THEN [r EXCEPT !.aborted = TRUE]
                    ELSE IF HasTheGuard(t) THEN [r EXCEPT !.left = TRUE] ELSE r
    BY <2>1
  <2>3. QED
    BY <2>1, <2>2 DEF TurnType, Like, Undrained
<1>2. turns' \in [Slots -> TurnType]
  BY <1>1
<1>3. ASSUME NEW u \in Slots
      PROVE  turns'[u].gen <= generation' /\ (turns'[u].draining => turns'[u].pc = "query")
  <2>1. turns[u].gen \in Nat /\ turns[u].gen <= generation /\ generation \in Nat
        /\ (turns[u].draining => turns[u].pc = "query")
    BY Types, TurnFields
  <2>2. QED
    BY <1>1, <2>1 DEF Like, Undrained
<1>4. QED
  BY <1>1, <1>2, <1>3 DEF TurnsOK

-----------------------------------------------------------------------------
(* The queue and the commands. *)
LEMMA EnqueueFields ==
  ASSUME TypeOK, NEW es \in Seq(EntryType), Enqueue(es)
  PROVE  /\ queue' \in Seq(EntryType) /\ ToSet(queue') = ToSet(queue) \cup ToSet(es)
         /\ times' \in [Commands -> Nat] /\ arrived' \subseteq Commands
         /\ arrived' = arrived \cup Ids(ToSet(es))
<1>1. queue' = queue \o es /\ queue \in Seq(EntryType)
  BY Types DEF Enqueue
<1>2. queue' \in Seq(EntryType) /\ ToSet(queue') = ToSet(queue) \cup ToSet(es)
  BY <1>1, ConcatSet
<1>3. arrived' = arrived \cup Ids(ToSet(es)) /\ arrived' \subseteq Commands
  BY Types, SetOfEntries DEF Enqueue
<1>4. times' \in [Commands -> Nat]
  BY Types DEF Enqueue
<1>5. QED
  BY <1>2, <1>3, <1>4

\* Seeing commands counts each of them once.
LEMMA SeeFields ==
  ASSUME TypeOK, NEW ids, See(ids)
  PROVE  /\ seen' \in [Commands -> Nat]
         /\ \A c \in Commands : seen'[c] = IF c \in ids THEN seen[c] + 1 ELSE seen[c]
  BY Types DEF See

\* What follows a turn is a queue.
LEMMA FollowUpType ==
  ASSUME TypeOK, NEW t \in Slots
  PROVE  FollowUp(t) \in Seq(EntryType)
<1> DEFINE first == Head(turns[t].entries)
           next == Follow[first.id]
<1>1. CASE turns[t].entries = <<>> \/ first.mode # "slash" \/ next = None
  BY <1>1, NoEntry DEF FollowUp
<1>2. CASE turns[t].entries # <<>> /\ first.mode = "slash" /\ next # None
  <2>1. first \in EntryType
    BY <1>2, TurnFields
  <2>2. next \in Commands
    BY <1>2, <2>1, CommandsAssumption DEF EntryType
  <2>3. Mode[next] \in Modes /\ 1 \in 0..2
    BY <2>2, CommandsAssumption
  <2>4. Entry(next, Mode[next], 1) \in EntryType
    BY <2>2, <2>3, EntryIsEntry
  <2>5. FollowUp(t) = <<Entry(next, Mode[next], 1)>>
    BY <1>2 DEF FollowUp
  <2>6. QED
    BY <2>4, <2>5, OneEntry
<1>3. QED
  BY <1>1, <1>2

(* The entries whose texts onQuery puts back. *)
Again(t) == [i \in DOMAIN turns[t].entries |-> Entry(turns[t].entries[i].id, "prompt", 1)]

\* What a refused turn puts back is a queue of its own commands.
LEMMA AgainType ==
  ASSUME TypeOK, NEW t \in Slots
  PROVE  Again(t) \in Seq(EntryType) /\ Ids(ToSet(Again(t))) = Ids(ToSet(turns[t].entries))
<1>1. PICK s \in Seq(EntryType) : s = turns[t].entries
  BY TurnFields
<1>2. DOMAIN s = 1..Len(s) /\ Len(s) \in Nat /\ \A i \in 1..Len(s) : s[i] \in EntryType
  BY ElementOfSeq, LenProperties
<1>3. /\ "prompt" \in Modes /\ 1 \in 0..2
      /\ \A i \in 1..Len(s) : s[i].id \in Commands
  BY <1>2 DEF Modes, EntryType
<1>4. /\ Again(t) = [i \in 1..Len(s) |-> Entry(s[i].id, "prompt", 1)]
      /\ \A i \in 1..Len(s) : Entry(s[i].id, "prompt", 1) \in EntryType
                              /\ Entry(s[i].id, "prompt", 1).id = s[i].id
  BY <1>1, <1>2, <1>3, EntryIsEntry DEF Again
<1>5. Again(t) \in [1..Len(s) -> EntryType]
  BY <1>4
<1>6. Again(t) \in Seq(EntryType)
  BY <1>2, <1>5, IsASeq
<1>7. /\ DOMAIN Again(t) = 1..Len(s)
      /\ \A i \in 1..Len(s) : Again(t)[i].id = s[i].id
  BY <1>4
<1>8. Ids(ToSet(Again(t))) = {Again(t)[i].id : i \in 1..Len(s)}
  BY <1>7 DEF Ids, ToSet
<1>9. Ids(ToSet(s)) = {s[i].id : i \in 1..Len(s)}
  BY <1>2 DEF Ids, ToSet
<1>10. QED
  BY <1>1, <1>6, <1>7, <1>8, <1>9

-----------------------------------------------------------------------------
(* The guard. *)

(* A turn that nobody interrupted, whose reservation nobody took and that   *)
(* no onCancel left without the guard.                                     *)
Free(t) == Alive(t) /\ ~turns[t].aborted /\ ~turns[t].robbed /\ ~turns[t].left

Runs(t) == turns[t].pc = "query" /\ turns[t].gen = generation
Owns(t) == \/ status = "dispatching" /\ holder = t /\ turns[t].pc = "input"
           \/ status = "running" /\ Runs(t)

(* Such a turn owns the guard, and nobody else's controller is set; two     *)
(* queries have two generations; the guard, when it is active, has an      *)
(* owner.                                                                  *)
FreeOwns == \A t \in Slots : Free(t) => Owns(t) /\ controller \in {t, None}
GensDiffer ==
  \A t, u \in Slots : turns[t].pc = "query" /\ turns[u].pc = "query"
                        /\ turns[t].gen = turns[u].gen => t = u
SomeoneHolds ==
  /\ status = "dispatching" => holder \in Slots /\ turns[holder].pc = "input"
  /\ status = "running" => \E t \in Slots : Runs(t)

GuardInv == FreeOwns /\ GensDiffer /\ SomeoneHolds

(* Nothing happens to the guard. *)
LEMMA QuietKeeps ==
  ASSUME TypeOK, GuardInv, UNCHANGED <<status, generation, controller, holder>>,
         \A t \in Slots : Like(t)
  PROVE  GuardInv'
<1>1. FreeOwns'
  BY DEF GuardInv, FreeOwns, Free, Alive, Owns, Runs, Like
<1>2. GensDiffer'
  BY DEF GuardInv, GensDiffer, Like
<1>3. SomeoneHolds'
  BY DEF GuardInv, SomeoneHolds, Runs, Like
<1>4. QED
  BY <1>1, <1>2, <1>3 DEF GuardInv

(* While the guard is idle no turn is free. *)
LEMMA IdleIsFree ==
  ASSUME TypeOK, GuardInv, ~Active
  PROVE  status = "idle" /\ \A t \in Slots : ~Free(t)
  BY Types DEF Active, GuardInv, FreeOwns, Owns

(* A turn starts while it is idle, at its input *)
LEMMA EnteringKeeps ==
  ASSUME TypeOK, GuardInv, ~Active, NEW t \in Slots, ~Alive(t),
         turns'[t].pc = "input", \A u \in Slots \ {t} : Like(u),
         status' = "dispatching", generation' = generation, controller' = t, holder' = t
  PROVE  GuardInv'
<1>1. \A u \in Slots : u # t => ~Free(u)'
  BY IdleIsFree DEF Free, Alive, Like
<1>2. FreeOwns'
  BY <1>1 DEF FreeOwns, Owns
<1>3. GensDiffer'
  BY DEF GuardInv, GensDiffer, Like
<1>4. SomeoneHolds'
  BY DEF SomeoneHolds
<1>5. QED
  BY <1>2, <1>3, <1>4 DEF GuardInv

(* or as a query, which a turn at its input starts as well. *)
LEMMA StartingKeeps ==
  ASSUME TypeOK, GuardInv, status # "running", NEW t \in Slots,
         turns'[t].pc = "query", turns'[t].gen = generation + 1,
         \A u \in Slots \ {t} : Like(u),
         status' = "running", generation' = generation + 1,
         Free(t)' => controller' \in {t, None},
         \A u \in Slots \ {t} : ~Free(u)'
  PROVE  GuardInv'
<1>1. generation \in Nat
  BY Types
<1>2. FreeOwns'
  BY DEF FreeOwns, Owns, Runs
<1>3. GensDiffer'
  <2>1. \A u \in Slots \ {t} : turns'[u].gen \in Nat /\ turns'[u].gen <= generation
    BY <1>1, TurnFields DEF Like
  <2>2. \A u \in Slots \ {t} : turns'[u].gen # generation + 1
    BY <1>1, <2>1
  <2>3. \A u, v \in Slots \ {t} : turns'[u].pc = "query" /\ turns'[v].pc = "query"
                                    /\ turns'[u].gen = turns'[v].gen => u = v
    BY DEF GuardInv, GensDiffer, Like
  <2>4. QED
    BY <2>2, <2>3 DEF GensDiffer
<1>4. SomeoneHolds'
  BY DEF SomeoneHolds, Runs
<1>5. QED
  BY <1>2, <1>3, <1>4 DEF GuardInv

(* What happens to the guard when a turn returns: it comes free of it, or  *)
(* of a reservation, or stays with the one that has it.                    *)
Leaves(t) ==
  \/ /\ status # "running" /\ status' = "idle"
     /\ \A u \in Slots \ {t} : Robs(t, u) => turns'[u].robbed
  \/ status = "running" /\ Runs(t) /\ status' = "idle"
  \/ status = "running" /\ ~Runs(t) /\ UNCHANGED <<status, generation>>
  \/ status # "running" /\ turns[t].pc = "query" /\ UNCHANGED <<status, generation, holder>>

(* A turn returns. *)
LEMMA ReturningKeeps ==
  ASSUME TypeOK, GuardInv, NEW t \in Slots, turns'[t].pc = "over",
         \A u \in Slots \ {t} : Like(u), controller' \in {controller, None},
         Leaves(t)
  PROVE  GuardInv'
<1>1. \A u \in Slots : Free(u)' => u # t /\ Free(u)
  BY DEF Free, Alive, Like
<1>2. FreeOwns'
  <2>1. SUFFICES ASSUME NEW u \in Slots, Free(u)' PROVE Owns(u)' /\ controller' \in {u, None}
    BY DEF FreeOwns
  <2>2. u # t /\ Free(u) /\ Owns(u) /\ controller' \in {u, None} /\ Like(u)
    BY <1>1, <2>1 DEF GuardInv, FreeOwns
  <2>3. CASE status # "running" /\ status' = "idle"
             /\ \A v \in Slots \ {t} : Robs(t, v) => turns'[v].robbed
    <3>1. Robs(t, u)
      BY <2>2, <2>3 DEF Owns, Robs
    <3>2. QED
      BY <2>1, <2>2, <2>3, <3>1 DEF Free
  <2>4. CASE status = "running" /\ Runs(t) /\ status' = "idle"
    <3>1. Runs(u)
      BY <2>2, <2>4 DEF Owns
    <3>2. QED
      BY <2>2, <2>4, <3>1 DEF GuardInv, GensDiffer, Runs
  <2>5. CASE status = "running" /\ ~Runs(t) /\ UNCHANGED <<status, generation>>
    BY <2>2, <2>5 DEF Owns, Runs, Like
  <2>6. CASE status # "running" /\ turns[t].pc = "query" /\ UNCHANGED <<status, generation, holder>>
    BY <2>2, <2>6 DEF Owns, Runs, Like
  <2>7. QED
    BY <2>3, <2>4, <2>5, <2>6 DEF Leaves
<1>3. GensDiffer'
  BY DEF GuardInv, GensDiffer, Like
<1>4. SomeoneHolds'
  <2>1. CASE status' = "idle"
    BY <2>1 DEF SomeoneHolds
  <2>2. CASE status = "running" /\ ~Runs(t) /\ UNCHANGED <<status, generation>>
    <3>1. PICK u \in Slots : Runs(u)
      BY <2>2 DEF GuardInv, SomeoneHolds
    <3>2. u # t /\ Like(u)
      BY <2>2, <3>1
    <3>3. QED
      BY <2>2, <3>1, <3>2 DEF SomeoneHolds, Runs, Like
  <2>3. CASE status # "running" /\ turns[t].pc = "query" /\ UNCHANGED <<status, generation, holder>>
    BY <2>3 DEF GuardInv, SomeoneHolds, Like
  <2>4. QED
    BY <2>1, <2>2, <2>3 DEF Leaves
<1>5. QED
  BY <1>2, <1>3, <1>4 DEF GuardInv

(* The user cancels: whoever has the guard is aborted, or left without it. *)
LEMMA CancellingKeeps ==
  ASSUME TypeOK, GuardInv, \A t \in Slots : Like(t),
         \A t \in Slots : HasTheGuard(t) => turns'[t].aborted \/ turns'[t].left,
         status' = "idle", controller' = None
  PROVE  GuardInv'
<1>1. \A t \in Slots : ~Free(t)'
  <2>1. SUFFICES ASSUME NEW t \in Slots, Free(t)' PROVE FALSE
    OBVIOUS
  <2>2. Free(t) /\ HasTheGuard(t)
    BY <2>1 DEF Free, Alive, Like, GuardInv, FreeOwns, Owns, Runs, HasTheGuard
  <2>3. QED
    BY <2>1, <2>2 DEF Free
<1>2. FreeOwns' /\ SomeoneHolds'
  BY <1>1 DEF FreeOwns, SomeoneHolds
<1>3. GensDiffer'
  BY DEF GuardInv, GensDiffer, Like
<1>4. QED
  BY <1>2, <1>3 DEF GuardInv

-----------------------------------------------------------------------------
(* Where the commands are. *)
Found(c) == c \in Queued \cup Held \cup gone \/ seen[c] > 0

\* A command is held by a turn at its input.
LEMMA HeldBy ==
  \A c : c \in Held <=> \E t \in Slots : turns[t].pc = "input" /\ c \in Ids(ToSet(turns[t].entries))
  BY DEF Held

(* A step loses no command that follows those from the places it changes. *)
LEMMA FoundStep ==
  ASSUME TypeOK, NothingIsLost, gone \subseteq gone',
         \A c \in Commands : seen[c] > 0 => seen'[c] > 0,
         \A c \in arrived' \ arrived : Found(c)',
         \A c \in Queued : Found(c)',
         \A u \in Slots : turns[u].pc = "input" =>
           Like(u) \/ \A c \in Ids(ToSet(turns[u].entries)) : Found(c)'
  PROVE  NothingIsLost'
<1>1. SUFFICES ASSUME NEW c \in arrived, c \in arrived' PROVE Found(c)'
  BY DEF NothingIsLost, Found
<1>2. c \in Commands /\ Found(c)
  BY <1>1, Types DEF NothingIsLost, Found
<1>3. CASE c \in gone \/ seen[c] > 0
  BY <1>2, <1>3 DEF Found
<1>4. CASE c \in Queued
  BY <1>4
<1>5. CASE c \in Held
  <2>1. PICK u \in Slots : turns[u].pc = "input" /\ c \in Ids(ToSet(turns[u].entries))
    BY <1>5, HeldBy
  <2>2. CASE Like(u)
    <3>1. turns'[u].pc = "input" /\ c \in Ids(ToSet(turns'[u].entries))
      BY <2>1, <2>2 DEF Like
    <3>2. c \in Held'
      BY <3>1 DEF Held
    <3>3. QED
      BY <3>2 DEF Found
  <2>3. QED
    BY <2>1, <2>2
<1>6. QED
  BY <1>2, <1>3, <1>4, <1>5 DEF Found

TurnInv == TypeOK /\ GuardInv /\ NothingIsLost

\* The invariant holds at the start.
LEMMA InitTurnInv == Init => TurnInv
<1> SUFFICES ASSUME Init PROVE TurnInv
  OBVIOUS
<1>1. Over \in TurnType /\ Over.pc = "over" /\ Over.gen = 0
  BY NoEntry DEF Over, TurnType
<1>2. ~Over.draining
  BY DEF Over
<1>3. status = "idle" /\ generation = 0 /\ \A t \in Slots : turns[t] = Over
  BY DEF Init, GuardInit
<1>4. TypeOK
  <2>1. arrived \subseteq Commands /\ gone \subseteq Commands /\ cancels \in 0..MaxCancels
    BY CommandsAssumption DEF Init
  <2>2. queue \in Seq(EntryType) /\ turns \in [Slots -> TurnType]
    BY <1>1, NoEntry DEF Init
  <2>3. QED
    BY <1>1, <1>2, <1>3, <2>1, <2>2 DEF Init, TypeOK, GuardTypeOK
<1>5. GuardInv
  BY <1>1, <1>3 DEF GuardInv, FreeOwns, Free, Alive, GensDiffer, SomeoneHolds
<1>6. NothingIsLost
  BY DEF Init, NothingIsLost
<1>7. QED
  BY <1>4, <1>5, <1>6 DEF TurnInv

-----------------------------------------------------------------------------
(* What comes in. *)

(* executeUserInput starts a turn with some entries. *)
LEMMA ExecuteKeeps ==
  ASSUME TypeOK, GuardInv, ~Active, FreeSlots # {}, NEW es \in Seq(EntryType),
         Execute(Min(FreeSlots), es)
  PROVE  /\ TurnsOK' /\ GuardInv' /\ GuardTypeOK'
         /\ controller' \in Slots \cup {None} /\ holder' \in Slots \cup {None}
         /\ \A u \in Slots : turns[u].pc = "input" => Like(u)
         /\ \E t \in Slots : turns'[t].pc = "input" /\ turns'[t].entries = es
<1>1. PICK t \in Slots : t = Min(FreeSlots) /\ ~Alive(t)
  <2>1. FreeSlots \in SUBSET Nat
    BY DEF FreeSlots, Slots
  <2>2. QED
    BY <2>1, MinIsIn DEF FreeSlots
<1>2. PICK new : new = [Over EXCEPT !.pc = "input", !.entries = es]
  OBVIOUS
<1>3. /\ turns' = [turns EXCEPT ![t] = new] /\ controller' = t /\ holder' = t
      /\ status' = "dispatching" /\ generation' = generation
  BY <1>1, <1>2 DEF Execute, Reserve
<1>4. /\ new \in TurnType /\ new.pc = "input" /\ new.gen = 0 /\ new.entries = es
      /\ ~new.draining
  BY <1>2, InputFields
<1>5. turns \in [Slots -> TurnType] /\ generation \in Nat
  BY Types DEF TurnsOK
<1>6. turns'[t] = new /\ \A u \in Slots \ {t} : turns'[u] = turns[u]
  BY <1>3, <1>5
<1>7. TurnsOK'
  <2>1. turns' \in [Slots -> TurnType]
    BY <1>3, <1>4, <1>5
  <2>2. QED
    BY <1>3, <1>4, <1>5, <1>6, <2>1, Types DEF TurnsOK
<1>8. \A u \in Slots \ {t} : Like(u)
  BY <1>6 DEF Like
<1>9. GuardInv'
  BY <1>1, <1>3, <1>4, <1>6, <1>8, EnteringKeeps
<1>10. QED
  BY <1>1, <1>3, <1>4, <1>5, <1>6, <1>7, <1>8, <1>9 DEF GuardTypeOK, Alive

\* A submitted command keeps the invariant.
LEMMA SubmitKeeps ==
  ASSUME TurnInv, NEW c \in Commands, Submit(c)
  PROVE  TurnInv'
<1> DEFINE e == Entry(c, Mode[c], Prio[c])
<1>1. e \in EntryType /\ e.id = c
  BY CommandsAssumption, EntryIsEntry DEF TurnInv
<1> HIDE DEF e
<1>2. <<e>> \in Seq(EntryType) /\ ToSet(<<e>>) = {e} /\ Ids({e}) = {c}
  BY <1>1, OneEntry DEF Ids
<1>3. UNCHANGED <<seen, gone, torn, cancels>> /\ TypeOK /\ GuardInv /\ NothingIsLost
  BY DEF Submit, TurnInv
<1>4. CASE /\ Enqueue(<<e>>)
           /\ InterruptOnSubmit \/ UNCHANGED turns
           /\ UNCHANGED <<guardVars, controller, holder>>
  <2>1. UNCHANGED <<status, generation, controller, holder>>
    BY <1>4 DEF guardVars
  <2>2. TurnsOK' /\ \A t \in Slots : Like(t)
    <3>1. CASE InterruptOnSubmit
      <4>1. Abort /\ controller \in Slots
        BY <1>3, <3>1, Types DEF InterruptOnSubmit
      <4>2. QED
        BY <1>3, <2>1, <4>1, Types, AbortFields
    <3>2. CASE UNCHANGED turns
      BY <1>3, <2>1, <3>2, Types DEF TurnsOK, Like
    <3>3. QED
      BY <1>4, <3>1, <3>2
  <2>3. /\ queue' \in Seq(EntryType) /\ ToSet(queue') = ToSet(queue) \cup {e}
        /\ times' \in [Commands -> Nat] /\ arrived' \subseteq Commands
        /\ arrived' = arrived \cup {c}
    BY <1>2, <1>3, <1>4, EnqueueFields
  <2>4. TypeOK'
    BY <1>3, <2>1, <2>2, <2>3, Types DEF TypeOK, GuardTypeOK, TurnsOK
  <2>5. GuardInv'
    BY <1>3, <2>1, <2>2, QuietKeeps
  <2>6. Queued' = Queued \cup {c}
    BY <1>1, <2>3 DEF Queued, Ids
  <2>7. NothingIsLost'
    BY <1>3, <2>2, <2>3, <2>6, FoundStep DEF Found
  <2>8. QED
    BY <2>4, <2>5, <2>7 DEF TurnInv
<1>5. CASE /\ ~Active /\ FreeSlots # {} /\ Execute(Min(FreeSlots), <<e>>)
           /\ arrived' = arrived \cup {c} /\ UNCHANGED <<queue, times>>
  <2>1. /\ TurnsOK' /\ GuardInv' /\ GuardTypeOK'
        /\ controller' \in Slots \cup {None} /\ holder' \in Slots \cup {None}
        /\ \A u \in Slots : turns[u].pc = "input" => Like(u)
        /\ \E t \in Slots : turns'[t].pc = "input" /\ turns'[t].entries = <<e>>
    BY <1>2, <1>3, <1>5, ExecuteKeeps
  <2>2. TypeOK'
    BY <1>3, <1>5, <2>1, Types DEF TypeOK, TurnsOK
  <2>3. c \in Held'
    <3>1. PICK t \in Slots : turns'[t].pc = "input" /\ turns'[t].entries = <<e>>
      BY <2>1
    <3>2. c \in Ids(ToSet(turns'[t].entries))
      BY <1>2, <3>1
    <3>3. QED
      BY <3>1, <3>2 DEF Held
  <2>4. Queued' = Queued
    BY <1>5 DEF Queued
  <2>5. NothingIsLost'
    BY <1>3, <1>5, <2>1, <2>3, <2>4, FoundStep DEF Found
  <2>6. QED
    BY <2>1, <2>2, <2>5 DEF TurnInv
<1>6. QED
  BY <1>4, <1>5 DEF Submit, e

\* A note keeps the invariant.
LEMMA NotifyKeeps ==
  ASSUME TurnInv, NEW c \in Commands, Notify(c)
  PROVE  TurnInv'
<1>1. PICK e \in EntryType : e = Entry(c, "note", Prio[c]) /\ e.id = c
  BY CommandsAssumption, EntryIsEntry DEF TurnInv, Modes
<1>2. <<e>> \in Seq(EntryType) /\ ToSet(<<e>>) = {e} /\ Ids({e}) = {c}
  BY <1>1, OneEntry DEF Ids
<1>3. /\ UNCHANGED <<status, generation, turns, controller, holder, seen, gone, torn, cancels>>
      /\ Enqueue(<<e>>) /\ TypeOK /\ GuardInv /\ NothingIsLost
  BY <1>1 DEF Notify, guardVars, TurnInv
<1>4. TurnsOK' /\ \A t \in Slots : Like(t)
  BY <1>3, Types DEF TurnsOK, Like
<1>5. /\ queue' \in Seq(EntryType) /\ ToSet(queue') = ToSet(queue) \cup {e}
      /\ times' \in [Commands -> Nat] /\ arrived' \subseteq Commands
      /\ arrived' = arrived \cup {c}
  BY <1>2, <1>3, EnqueueFields
<1>6. TypeOK'
  BY <1>3, <1>4, <1>5, Types DEF TypeOK, GuardTypeOK, TurnsOK
<1>7. GuardInv'
  BY <1>3, <1>4, QuietKeeps
<1>8. Queued' = Queued \cup {c}
  BY <1>1, <1>5 DEF Queued, Ids
<1>9. NothingIsLost'
  BY <1>3, <1>4, <1>5, <1>8, FoundStep DEF Found
<1>10. QED
  BY <1>6, <1>7, <1>9 DEF TurnInv

\* A teammate's message keeps the invariant.
LEMMA IncomingKeeps ==
  ASSUME TurnInv, NEW c \in Commands, Incoming(c)
  PROVE  TurnInv'
<1>1. /\ ~Active /\ FreeSlots # {} /\ arrived' = arrived \cup {c} /\ See({c})
      /\ UNCHANGED <<queue, holder, times, gone, torn, cancels>>
      /\ status # "running" /\ status' = "running" /\ generation' = generation + 1
      /\ TypeOK /\ GuardInv /\ NothingIsLost /\ generation \in Nat
  BY Types DEF Incoming, TryStart, CanStart, TurnInv
<1>2. PICK t \in Slots : t = Min(FreeSlots) /\ ~Alive(t)
  <2>1. FreeSlots \in SUBSET Nat
    BY DEF FreeSlots, Slots
  <2>2. QED
    BY <1>1, <2>1, MinIsIn DEF FreeSlots
<1>3. PICK new : new = [Over EXCEPT !.pc = "query", !.gen = generation + 1]
  OBVIOUS
<1>4. turns' = [turns EXCEPT ![t] = new] /\ controller' = t
  BY <1>2, <1>3 DEF Incoming
<1>5. PICK g \in Nat : g = generation + 1
  BY <1>1
<1>6. new \in TurnType /\ new.pc = "query" /\ new.gen = g /\ ~new.draining
  BY <1>3, <1>5, TeammateFields
<1>7. turns \in [Slots -> TurnType]
  BY <1>1, Types DEF TurnsOK
<1>8. turns'[t] = new /\ \A u \in Slots \ {t} : turns'[u] = turns[u]
  BY <1>4, <1>7
<1>9. TurnsOK'
  <2>1. turns' \in [Slots -> TurnType]
    BY <1>4, <1>6, <1>7
  <2>2. \A u \in Slots : turns[u].gen \in Nat /\ turns[u].gen <= generation
                         /\ (turns[u].draining => turns[u].pc = "query")
    BY <1>1, TurnFields
  <2>3. QED
    BY <1>1, <1>5, <1>6, <1>8, <2>1, <2>2 DEF TurnsOK
<1>10. \A u \in Slots \ {t} : Like(u) /\ ~Free(u)'
  <2>1. \A u \in Slots : ~Free(u)
    BY <1>1, IdleIsFree
  <2>2. QED
    BY <1>8, <2>1 DEF Like, Free, Alive
<1>11. GuardInv'
  BY <1>1, <1>4, <1>5, <1>6, <1>8, <1>10, StartingKeeps
<1>12. seen' \in [Commands -> Nat] /\ \A d \in Commands : seen'[d] = IF d \in {c} THEN seen[d] + 1 ELSE seen[d]
  BY <1>1, SeeFields
<1>13. TypeOK'
  BY <1>1, <1>4, <1>9, <1>12, Types DEF TypeOK, GuardTypeOK, TurnsOK
<1>14. NothingIsLost'
  <2>1. Queued' = Queued /\ \A d \in Commands : seen[d] \in Nat
    BY <1>1, Types DEF Queued
  <2>2. seen'[c] > 0 /\ \A d \in Commands : seen[d] > 0 => seen'[d] > 0
    BY <1>12, <2>1
  <2>3. \A u \in Slots : turns[u].pc = "input" => Like(u)
    BY <1>2, <1>10 DEF Alive
  <2>4. QED
    BY <1>1, <2>1, <2>2, <2>3, FoundStep DEF Found
<1>15. QED
  BY <1>11, <1>13, <1>14 DEF TurnInv

\* The queue processor keeps the invariant.
LEMMA ProcessQueueKeeps == TurnInv /\ ProcessQueue => TurnInv'
<1> SUFFICES ASSUME TurnInv, ProcessQueue PROVE TurnInv'
  OBVIOUS
<1>1. PICK es \in Seq(EntryType) : es = Taken(queue) /\ ToSet(es) \subseteq ToSet(queue)
  BY Types, TakenIsQueued DEF TurnInv
<1>2. /\ ~Active /\ FreeSlots # {} /\ Execute(Min(FreeSlots), es)
      /\ queue' = Without(queue, ToSet(es))
      /\ UNCHANGED <<arrived, times, seen, gone, torn, cancels>>
      /\ TypeOK /\ GuardInv /\ NothingIsLost
  BY <1>1 DEF ProcessQueue, commandVars, TurnInv
<1>3. /\ TurnsOK' /\ GuardInv' /\ GuardTypeOK'
      /\ controller' \in Slots \cup {None} /\ holder' \in Slots \cup {None}
      /\ \A u \in Slots : turns[u].pc = "input" => Like(u)
      /\ \E t \in Slots : turns'[t].pc = "input" /\ turns'[t].entries = es
  BY <1>2, ExecuteKeeps
<1>4. queue' \in Seq(EntryType) /\ ToSet(queue') = ToSet(queue) \ ToSet(es)
  BY <1>2, Types, WithoutSet
<1>5. TypeOK'
  BY <1>2, <1>3, <1>4, Types DEF TypeOK, TurnsOK
<1>6. \A c \in Queued : c \in Queued' \cup Held'
  <2>1. SUFFICES ASSUME NEW e \in ToSet(queue) PROVE e.id \in Queued' \cup Held'
    BY DEF Queued, Ids
  <2>2. CASE e \in ToSet(es)
    <3>1. PICK t \in Slots : turns'[t].pc = "input" /\ turns'[t].entries = es
      BY <1>3
    <3>2. e.id \in Ids(ToSet(turns'[t].entries))
      BY <2>2, <3>1 DEF Ids
    <3>3. QED
      BY <3>1, <3>2 DEF Held
  <2>3. CASE e \notin ToSet(es)
    BY <1>4, <2>3 DEF Queued, Ids
  <2>4. QED
    BY <2>2, <2>3
<1>7. NothingIsLost'
  BY <1>2, <1>3, <1>6, FoundStep DEF Found
<1>8. QED
  BY <1>3, <1>5, <1>7 DEF TurnInv

-----------------------------------------------------------------------------
(* A step that leaves the guard and the turns as they are, but for a turn   *)
(* that is aborted or that drains, and takes commands from the queue that  *)
(* are handled or given up.                                                *)
LEMMA QuietStep ==
  ASSUME TurnInv, UNCHANGED <<status, generation, controller, holder>>,
         TurnsOK', \A t \in Slots : Like(t),
         queue' \in Seq(EntryType), times' \in [Commands -> Nat], seen' \in [Commands -> Nat],
         arrived' \subseteq Commands, gone' \subseteq Commands, torn' \subseteq Commands,
         cancels' \in 0..MaxCancels,
         gone \subseteq gone', \A c \in Commands : seen[c] > 0 => seen'[c] > 0,
         \A c \in arrived' \ arrived : Found(c)', \A c \in Queued : Found(c)'
  PROVE  TurnInv'
<1>1. TypeOK'
  BY Types DEF TypeOK, GuardTypeOK, TurnsOK, TurnInv
<1>2. GuardInv'
  BY QuietKeeps DEF TurnInv
<1>3. NothingIsLost'
  BY FoundStep DEF TurnInv
<1>4. QED
  BY <1>1, <1>2, <1>3 DEF TurnInv

\* A query that has drained keeps its other fields.
LEMMA DrainedFields ==
  ASSUME NEW r \in TurnType, NEW new, new = [r EXCEPT !.draining = FALSE]
  PROVE  /\ new \in TurnType
         /\ new.pc = r.pc /\ new.gen = r.gen /\ new.entries = r.entries /\ new.snap = r.snap
         /\ ~new.draining
         /\ new.aborted = r.aborted
         /\ new.robbed = r.robbed
         /\ new.left = r.left
<1>1. new \in TurnType
  BY DEF TurnType
<1>2. new.pc = r.pc /\ new.gen = r.gen /\ new.entries = r.entries /\ new.snap = r.snap
  BY DEF TurnType
<1>3. ~new.draining
  BY DEF TurnType
<1>4. new.aborted = r.aborted
  BY DEF TurnType
<1>5. new.robbed = r.robbed
  BY DEF TurnType
<1>6. new.left = r.left
  BY DEF TurnType
<1>7. QED
  BY <1>1, <1>2, <1>3, <1>4, <1>5, <1>6

\* A query that reads the queue keeps the invariant.
LEMMA DrainStartKeeps ==
  ASSUME TurnInv, NEW t \in Slots, DrainStart(t)
  PROVE  TurnInv'
<1>1. /\ turns[t].pc = "query"
      /\ UNCHANGED <<status, generation, queue, controller, holder>>
      /\ UNCHANGED <<arrived, times, seen, gone, torn, cancels>> /\ TypeOK
  BY DEF DrainStart, guardVars, commandVars, TurnInv
<1>2. turns \in [Slots -> TurnType]
  BY <1>1, Types DEF TurnsOK
<1>3. PICK S \in SUBSET EntryType : turns' = [turns EXCEPT ![t].draining = TRUE, ![t].snap = S]
  <2>1. PICK limit \in {1, 2} :
          turns' = [turns EXCEPT ![t].draining = TRUE, ![t].snap = Drainable(queue, limit)]
    BY DEF DrainStart
  <2>2. Drainable(queue, limit) \in SUBSET EntryType
    BY <1>1, Types, SetOfEntries DEF Drainable
  <2>3. QED
    BY <2>1, <2>2
<1>4. PICK new : new = [turns[t] EXCEPT !.draining = TRUE, !.snap = S]
  OBVIOUS
<1>5. turns' = [turns EXCEPT ![t] = new]
  BY <1>2, <1>3, <1>4
<1>6. /\ new \in TurnType /\ new.pc = turns[t].pc /\ new.gen = turns[t].gen
      /\ new.entries = turns[t].entries
      /\ new.aborted = turns[t].aborted
      /\ new.robbed = turns[t].robbed
      /\ new.left = turns[t].left
  <2>1. PICK r \in TurnType : r = turns[t]
    BY <1>2
  <2>2. new = [r EXCEPT !.draining = TRUE, !.snap = S]
    BY <1>4, <2>1
  <2>3. /\ new \in TurnType /\ new.pc = r.pc /\ new.gen = r.gen /\ new.entries = r.entries
    BY <2>1, <2>2 DEF TurnType
  <2>4. new.aborted = r.aborted
    BY <2>1, <2>2 DEF TurnType
  <2>5. new.robbed = r.robbed
    BY <2>1, <2>2 DEF TurnType
  <2>6. new.left = r.left
    BY <2>1, <2>2 DEF TurnType
  <2>7. QED
    BY <2>1, <2>3, <2>4, <2>5, <2>6
<1>7. turns'[t] = new /\ turns' \in [Slots -> TurnType] /\ \A u \in Slots \ {t} : turns'[u] = turns[u]
  BY <1>2, <1>5, <1>6
<1>8. TurnsOK' /\ \A u \in Slots : Like(u)
  BY <1>1, <1>6, <1>7, Types DEF TurnsOK, Like
<1>9. Queued' = Queued /\ \A c \in Queued : Found(c)'
  BY <1>1 DEF Queued, Found
<1>10. QED
  BY <1>1, <1>8, <1>9, Types, QuietStep

\* A query that attaches what it read keeps the invariant.
LEMMA DrainEndKeeps ==
  ASSUME TurnInv, NEW t \in Slots, DrainEnd(t)
  PROVE  TurnInv'
<1> DEFINE consumed == Attachable(turns[t].snap)
<1>1. /\ turns[t].draining /\ See(Ids(consumed)) /\ queue' = Without(queue, consumed)
      /\ torn' = IF Interrupted(t) \/ Bereft(t) THEN torn \cup Ids(consumed) ELSE torn
      /\ turns' = [turns EXCEPT ![t].draining = FALSE]
      /\ UNCHANGED <<status, generation, controller, holder>>
      /\ UNCHANGED <<arrived, times, gone, cancels>> /\ TypeOK
  BY DEF DrainEnd, guardVars, TurnInv
<1>2. turns \in [Slots -> TurnType]
  BY <1>1, Types DEF TurnsOK
<1>3. PICK new : new = [turns[t] EXCEPT !.draining = FALSE]
  OBVIOUS
<1>4. turns' = [turns EXCEPT ![t] = new]
  BY <1>1, <1>2, <1>3
<1>5. /\ new \in TurnType /\ new.pc = turns[t].pc /\ new.gen = turns[t].gen
      /\ new.entries = turns[t].entries
      /\ ~new.draining
      /\ new.aborted = turns[t].aborted
      /\ new.robbed = turns[t].robbed
      /\ new.left = turns[t].left
  BY <1>1, <1>3, TurnFields, DrainedFields
<1>6. turns'[t] = new /\ turns' \in [Slots -> TurnType] /\ \A u \in Slots \ {t} : turns'[u] = turns[u]
  BY <1>2, <1>4, <1>5
<1>7. TurnsOK' /\ \A u \in Slots : Like(u)
  BY <1>1, <1>5, <1>6, Types DEF TurnsOK, Like
<1>8. /\ queue' \in Seq(EntryType) /\ ToSet(queue') = ToSet(queue) \ consumed
  BY <1>1, Types, WithoutSet
<1>9. /\ seen' \in [Commands -> Nat] /\ \A c \in Commands : seen[c] \in Nat
      /\ \A c \in Commands : seen'[c] = IF c \in Ids(consumed) THEN seen[c] + 1 ELSE seen[c]
  BY <1>1, SeeFields, Types
<1>10. consumed \subseteq EntryType
  BY <1>1, TurnFields DEF Attachable
<1> HIDE DEF consumed
<1>11. \A c \in Commands : seen[c] > 0 => seen'[c] > 0
  BY <1>9
<1>12. \A c \in Queued : Found(c)'
  <2>1. SUFFICES ASSUME NEW e \in ToSet(queue) PROVE Found(e.id)'
    BY DEF Queued, Ids
  <2>2. CASE e \in consumed
    <3>1. e.id \in Commands /\ e.id \in Ids(consumed)
      BY <1>10, <2>2 DEF EntryType, Ids
    <3>2. seen'[e.id] > 0
      BY <1>9, <3>1
    <3>3. QED
      BY <3>2 DEF Found
  <2>3. CASE e \notin consumed
    BY <1>8, <2>3 DEF Found, Queued, Ids
  <2>4. QED
    BY <2>2, <2>3
<1>13. torn' \subseteq Commands
  BY <1>1, <1>10, Types DEF Ids, EntryType
<1>14. QED
  BY <1>1, <1>7, <1>8, <1>9, <1>11, <1>12, <1>13, Types, QuietStep

-----------------------------------------------------------------------------
(* The steps of a turn. *)

(* A turn returns, and its step loses no command. *)
LEMMA ReturnStep ==
  ASSUME TurnInv, NEW t \in Slots, TurnsOK', turns'[t].pc = "over",
         \A u \in Slots \ {t} : Like(u), Leaves(t), GuardTypeOK',
         controller' \in {controller, None}, holder' \in Slots \cup {None},
         queue' \in Seq(EntryType), times' \in [Commands -> Nat], seen' \in [Commands -> Nat],
         arrived' \subseteq Commands, gone' \subseteq Commands, torn' = torn, cancels' = cancels,
         gone \subseteq gone', \A c \in Commands : seen[c] > 0 => seen'[c] > 0,
         \A c \in arrived' \ arrived : Found(c)', \A c \in Queued : Found(c)',
         turns[t].pc = "input" => \A c \in Ids(ToSet(turns[t].entries)) : Found(c)'
  PROVE  TurnInv'
<1>1. TypeOK /\ GuardInv /\ NothingIsLost
  BY DEF TurnInv
<1>2. TypeOK'
  BY <1>1, Types DEF TypeOK, TurnsOK
<1>3. GuardInv'
  BY <1>1, ReturningKeeps
<1>4. NothingIsLost'
  BY <1>1, FoundStep
<1>5. QED
  BY <1>2, <1>3, <1>4 DEF TurnInv

\* A turn that returns is over; one whose reservation it releases is marked as robbed.
LEMMA ReturnFields ==
  ASSUME TypeOK, NEW t \in Slots, Return(t), HolderReleased,
         generation' \in Nat, generation <= generation'
  PROVE  /\ TurnsOK' /\ turns'[t].pc = "over"
         /\ \A u \in Slots \ {t} : Like(u)
         /\ \A u \in Slots \ {t} : Robs(t, u) => turns'[u].robbed
         /\ holder' \in Slots \cup {None}
<1>1. turns[t].aborted \in BOOLEAN
  BY TurnFields DEF TurnType
<1>2. PICK b \in BOOLEAN : b = turns[t].aborted
  BY <1>1, Zenon
<1>3. PICK new : new = [Over EXCEPT !.aborted = b]
  OBVIOUS
<1>4. new \in TurnType /\ new.pc = "over" /\ new.gen = 0 /\ ~new.draining
  BY <1>3, OverFields
<1>5. new = [Over EXCEPT !.aborted = turns[t].aborted]
  BY <1>2, <1>3, Zenon
<1>6. Change(t, new)
  BY <1>5, Zenon DEF Return
<1>7. TurnsOK' /\ turns'[t] = new
  BY <1>4, <1>6, ChangeFields
<1>8. \A u \in Slots \ {t} : Like(u) /\ (Robs(t, u) => turns'[u].robbed)
  BY <1>4, <1>6, ChangeFields
<1>9. holder' \in Slots \cup {None}
  BY Types DEF HolderReleased
<1>10. QED
  BY <1>4, <1>7, <1>8, <1>9

\* A turn whose input throws keeps the invariant.
LEMMA InputFailsKeeps ==
  ASSUME TurnInv, NEW t \in Slots, InputFails(t)
  PROVE  TurnInv'
<1>1. /\ turns[t].pc = "input" /\ CancelReservation /\ Return(t) /\ HolderReleased
      /\ gone' = gone \cup Ids(ToSet(turns[t].entries))
      /\ UNCHANGED <<queue, controller, arrived, times, seen, torn, cancels>>
      /\ generation' = generation /\ TypeOK
  BY DEF InputFails, CancelReservation, TurnInv
<1>2. generation' \in Nat /\ generation <= generation'
  BY <1>1, Types
<1>3. /\ TurnsOK' /\ turns'[t].pc = "over" /\ \A u \in Slots \ {t} : Like(u)
      /\ \A u \in Slots \ {t} : Robs(t, u) => turns'[u].robbed
      /\ holder' \in Slots \cup {None}
  BY <1>1, <1>2, ReturnFields
<1>4. Leaves(t) /\ GuardTypeOK'
  BY <1>1, <1>2, <1>3, Types DEF Leaves, Runs, CancelReservation, GuardTypeOK
<1>5. Ids(ToSet(turns[t].entries)) \subseteq Commands
  BY <1>1, TurnFields, SetOfEntries
<1>6. gone' \subseteq Commands /\ gone \subseteq gone'
  BY <1>1, <1>5, Types
<1>7. /\ \A c \in Queued : Found(c)'
      /\ \A c \in Ids(ToSet(turns[t].entries)) : Found(c)'
  BY <1>1 DEF Found, Queued
<1>8. QED
  BY <1>1, <1>3, <1>4, <1>6, <1>7, Types, ReturnStep

(* A turn that returns with its entries handled, and what follows queued. *)
LEMMA HandledKeeps ==
  ASSUME TurnInv, NEW t \in Slots, Return(t), HolderReleased, Leaves(t), GuardTypeOK',
         generation <= generation', controller' \in {controller, None},
         See(Ids(ToSet(turns[t].entries))), Enqueue(FollowUp(t)), UNCHANGED <<gone, torn, cancels>>
  PROVE  TurnInv'
<1>1. TypeOK /\ generation' \in Nat
  BY DEF TurnInv, GuardTypeOK
<1>2. /\ TurnsOK' /\ turns'[t].pc = "over" /\ \A u \in Slots \ {t} : Like(u)
      /\ holder' \in Slots \cup {None}
  BY <1>1, ReturnFields
<1>3. PICK es \in Seq(EntryType) : es = FollowUp(t)
  BY <1>1, FollowUpType
<1>4. /\ queue' \in Seq(EntryType) /\ ToSet(queue') = ToSet(queue) \cup ToSet(es)
      /\ times' \in [Commands -> Nat] /\ arrived' \subseteq Commands
      /\ arrived' = arrived \cup Ids(ToSet(es))
  BY <1>1, <1>3, EnqueueFields
<1>5. PICK ids : ids = Ids(ToSet(turns[t].entries)) /\ ids \subseteq Commands
  BY <1>1, TurnFields, SetOfEntries
<1>6. /\ seen' \in [Commands -> Nat] /\ \A c \in Commands : seen[c] \in Nat
      /\ \A c \in Commands : seen'[c] = IF c \in ids THEN seen[c] + 1 ELSE seen[c]
  BY <1>1, <1>5, SeeFields, Types
<1>7. /\ \A c \in Commands : seen[c] > 0 => seen'[c] > 0
      /\ \A c \in ids : seen'[c] > 0
  BY <1>5, <1>6
<1>8. \A c \in Queued \cup Ids(ToSet(es)) : c \in Queued'
  BY <1>4 DEF Queued, Ids
<1>9. /\ \A c \in ids : Found(c)'
      /\ \A c \in Queued : Found(c)'
      /\ \A c \in arrived' \ arrived : Found(c)'
  BY <1>4, <1>7, <1>8 DEF Found
<1>10. gone' \subseteq Commands /\ gone \subseteq gone'
  BY <1>1, Types
<1>11. QED
  BY <1>1, <1>2, <1>4, <1>5, <1>6, <1>7, <1>9, <1>10, ReturnStep

\* A turn without a query keeps the invariant.
LEMMA InputIsLocalKeeps ==
  ASSUME TurnInv, NEW t \in Slots, InputIsLocal(t)
  PROVE  TurnInv'
<1>1. /\ turns[t].pc = "input" /\ CancelReservation /\ Return(t) /\ HolderReleased
      /\ controller' = None /\ See(Ids(ToSet(turns[t].entries))) /\ Enqueue(FollowUp(t))
      /\ UNCHANGED <<gone, torn, cancels>>
      /\ generation' = generation /\ TypeOK
  BY DEF InputIsLocal, CancelReservation, TurnInv
<1>2. generation' \in Nat /\ generation <= generation'
  BY <1>1, Types
<1>3. \A u \in Slots \ {t} : Robs(t, u) => turns'[u].robbed
  BY <1>1, <1>2, ReturnFields
<1>4. Leaves(t) /\ GuardTypeOK'
  BY <1>1, <1>2, <1>3, Types DEF Leaves, Runs, CancelReservation, GuardTypeOK
<1>5. QED
  BY <1>1, <1>2, <1>4, HandledKeeps

\* A turn whose messages are only shown keeps the invariant.
LEMMA InputIsShownKeeps ==
  ASSUME TurnInv, NEW t \in Slots, InputIsShown(t)
  PROVE  TurnInv'
<1>1. /\ status # "running" /\ Return(t) /\ HolderReleased
      /\ controller' = None /\ See(Ids(ToSet(turns[t].entries))) /\ Enqueue(FollowUp(t))
      /\ UNCHANGED <<gone, torn, cancels>>
      /\ generation' = generation + 1 /\ status' = "idle" /\ TypeOK
  BY DEF InputIsShown, CanStart, TurnInv
<1>2. generation' \in Nat /\ generation <= generation'
  BY <1>1, Types
<1>3. \A u \in Slots \ {t} : Robs(t, u) => turns'[u].robbed
  BY <1>1, <1>2, ReturnFields
<1>4. Leaves(t) /\ GuardTypeOK'
  BY <1>1, <1>2, <1>3 DEF Leaves, GuardTypeOK
<1>5. QED
  BY <1>1, <1>2, <1>4, HandledKeeps

\* A turn that starts its query keeps the invariant.
LEMMA StartQueryKeeps ==
  ASSUME TurnInv, NEW t \in Slots, StartQuery(t)
  PROVE  TurnInv'
<1>1. /\ turns[t].pc = "input" /\ HolderReleased /\ See(Ids(ToSet(turns[t].entries)))
      /\ Change(t, [turns[t] EXCEPT !.pc = "query", !.gen = generation + 1])
      /\ UNCHANGED <<queue, controller, arrived, times, gone, torn, cancels>>
      /\ status # "running" /\ status' = "running" /\ generation' = generation + 1
      /\ TypeOK /\ GuardInv /\ NothingIsLost /\ generation \in Nat
  BY Types DEF StartQuery, TryStart, CanStart, TurnInv
<1>2. PICK r \in TurnType : r = turns[t]
  BY <1>1, TurnFields
<1>3. PICK g \in Nat : g = generation + 1
  BY <1>1
<1>4. PICK new : new = [r EXCEPT !.pc = "query", !.gen = g]
  OBVIOUS
<1>5. new \in TurnType /\ new.pc = "query" /\ new.gen = g
  BY <1>4, QueryFields
<1>6. new.aborted = r.aborted
  BY <1>2, <1>4 DEF TurnType
<1>7. new.robbed = r.robbed /\ new.left = r.left
  BY <1>2, <1>4 DEF TurnType
<1>8. Change(t, new)
  BY <1>1, <1>2, <1>3, <1>4
<1>9. TurnsOK' /\ turns'[t] = new
  BY <1>1, <1>3, <1>5, <1>8, ChangeFields
<1>10. \A u \in Slots \ {t} : Like(u) /\ (Robs(t, u) => turns'[u].robbed)
  BY <1>1, <1>3, <1>5, <1>8, ChangeFields
<1>11. Free(t)' => controller' \in {t, None}
  <2>1. Free(t)' => Free(t)
    BY <1>1, <1>2, <1>6, <1>7, <1>9 DEF Free, Alive
  <2>2. QED
    BY <1>1, <2>1 DEF GuardInv, FreeOwns
<1>12. ASSUME NEW u \in Slots \ {t}, Free(u)' PROVE FALSE
  <2>1. Free(u) /\ Like(u)
    BY <1>10, <1>12 DEF Free, Alive, Like
  <2>2. Robs(t, u)
    BY <1>1, <2>1 DEF GuardInv, FreeOwns, Owns, Robs
  <2>3. QED
    BY <1>10, <1>12, <2>2 DEF Free
<1>13. GuardInv'
  BY <1>1, <1>3, <1>5, <1>9, <1>10, <1>11, <1>12, StartingKeeps
<1>14. PICK ids : ids = Ids(ToSet(turns[t].entries)) /\ ids \subseteq Commands
  BY <1>1, TurnFields, SetOfEntries
<1>15. /\ seen' \in [Commands -> Nat] /\ \A c \in Commands : seen[c] \in Nat
       /\ \A c \in Commands : seen'[c] = IF c \in ids THEN seen[c] + 1 ELSE seen[c]
  BY <1>1, <1>14, SeeFields, Types
<1>16. /\ \A c \in Commands : seen[c] > 0 => seen'[c] > 0
       /\ \A c \in ids : seen'[c] > 0
  BY <1>14, <1>15
<1>17. holder' \in Slots \cup {None}
  BY <1>1, Types DEF HolderReleased
<1>18. TypeOK'
  BY <1>1, <1>9, <1>15, <1>17, Types DEF TypeOK, GuardTypeOK, TurnsOK
<1>19. NothingIsLost'
  <2>1. /\ \A c \in ids : Found(c)'
        /\ \A c \in Queued : Found(c)'
    BY <1>1, <1>16 DEF Found, Queued
  <2>2. QED
    BY <1>1, <1>10, <1>14, <1>16, <2>1, FoundStep
<1>20. QED
  BY <1>13, <1>18, <1>19 DEF TurnInv

\* A turn that finds another query running keeps the invariant.
LEMMA InputIsRequeuedKeeps ==
  ASSUME TurnInv, NEW t \in Slots, InputIsRequeued(t)
  PROVE  TurnInv'
<1>1. /\ turns[t].pc = "input" /\ status = "running" /\ Return(t) /\ HolderReleased
      /\ Enqueue(Again(t) \o FollowUp(t))
      /\ UNCHANGED <<status, generation, controller, seen, gone, torn, cancels>> /\ TypeOK
  BY DEF InputIsRequeued, CanStart, guardVars, Again, TurnInv
<1>2. generation' \in Nat /\ generation <= generation'
  BY <1>1, Types
<1>3. /\ TurnsOK' /\ turns'[t].pc = "over" /\ \A u \in Slots \ {t} : Like(u)
      /\ holder' \in Slots \cup {None}
  BY <1>1, <1>2, ReturnFields
<1>4. Leaves(t) /\ GuardTypeOK'
  BY <1>1, Types DEF Leaves, Runs, GuardTypeOK
<1>5. PICK as, fs \in Seq(EntryType) : as = Again(t) /\ fs = FollowUp(t)
  BY <1>1, AgainType, FollowUpType
<1>6. as \o fs \in Seq(EntryType) /\ ToSet(as \o fs) = ToSet(as) \cup ToSet(fs)
  BY ConcatSet
<1>7. PICK es \in Seq(EntryType) : /\ es = Again(t) \o FollowUp(t)
                                   /\ ToSet(es) = ToSet(as) \cup ToSet(fs)
  BY <1>5, <1>6
<1>8. /\ queue' \in Seq(EntryType) /\ ToSet(queue') = ToSet(queue) \cup ToSet(es)
      /\ times' \in [Commands -> Nat] /\ arrived' \subseteq Commands
      /\ arrived' = arrived \cup Ids(ToSet(es))
  BY <1>1, <1>7, EnqueueFields
<1>9. \A c \in Queued \cup Ids(ToSet(es)) : c \in Queued'
  BY <1>8 DEF Queued, Ids
<1>10. Ids(ToSet(turns[t].entries)) \subseteq Ids(ToSet(es))
  <2>1. Ids(ToSet(as)) = Ids(ToSet(turns[t].entries))
    BY <1>1, <1>5, AgainType
  <2>2. QED
    BY <1>7, <2>1 DEF Ids
<1>11. /\ \A c \in Ids(ToSet(turns[t].entries)) : Found(c)'
       /\ \A c \in Queued : Found(c)'
       /\ \A c \in arrived' \ arrived : Found(c)'
  BY <1>8, <1>9, <1>10 DEF Found
<1>12. /\ \A c \in Commands : seen[c] > 0 => seen'[c] > 0
       /\ gone' \subseteq Commands /\ gone \subseteq gone' /\ seen' \in [Commands -> Nat]
       /\ controller' \in {controller, None} /\ torn' = torn /\ cancels' = cancels
  BY <1>1, Types
<1>13. QED
  BY <1>3, <1>4, <1>8, <1>11, <1>12, ReturnStep

\* A query that ends keeps the invariant.
LEMMA FinishQueryKeeps ==
  ASSUME TurnInv, NEW t \in Slots, FinishQuery(t)
  PROVE  TurnInv'
<1>1. /\ turns[t].pc = "query" /\ controller' \in {controller, None}
      /\ Enqueue(FollowUp(t)) /\ UNCHANGED <<seen, gone, torn, cancels>> /\ TypeOK
  BY DEF FinishQuery, TurnInv
<1>2. generation' = generation /\ generation' \in Nat /\ generation <= generation'
  BY <1>1, Types DEF FinishQuery, End, EndAndRelease
<1>3. Leaves(t) /\ GuardTypeOK' /\ TurnsOK' /\ turns'[t].pc = "over"
      /\ (\A u \in Slots \ {t} : Like(u)) /\ holder' \in Slots \cup {None}
  <2>1. CASE turns[t].entries = <<>>
    <3>1. /\ status' = IF turns[t].gen = generation /\ status = "running" THEN "idle" ELSE status
          /\ UNCHANGED <<generation, holder>>
          /\ turns' = [turns EXCEPT ![t] = [Over EXCEPT !.aborted = turns[t].aborted]]
      BY <2>1 DEF FinishQuery, End, IsCurrent
    <3>2. Leaves(t) /\ GuardTypeOK' /\ holder' \in Slots \cup {None}
      BY <1>1, <1>2, <3>1, Types DEF Leaves, Runs, GuardTypeOK
    <3>3. turns[t].aborted \in BOOLEAN
      BY <1>1, TurnFields DEF TurnType
    <3>4. PICK b \in BOOLEAN : b = turns[t].aborted
      BY <3>3, Zenon
    <3>5. PICK new : new = [Over EXCEPT !.aborted = b]
      OBVIOUS
    <3>6. new \in TurnType /\ new.pc = "over" /\ new.gen = 0 /\ ~new.draining
      BY <3>5, OverFields
    <3>7. turns' = [turns EXCEPT ![t] = new]
      BY <3>1, <3>4, <3>5, Zenon
    <3>8. turns \in [Slots -> TurnType]
      BY <1>1, Types DEF TurnsOK
    <3>9. turns'[t] = new /\ turns' \in [Slots -> TurnType] /\ \A u \in Slots \ {t} : turns'[u] = turns[u]
      BY <3>6, <3>7, <3>8
    <3>10. \A u \in Slots \ {t} : Like(u)
      BY <3>9 DEF Like
    <3>11. \A u \in Slots : turns[u].gen <= generation /\ (turns[u].draining => turns[u].pc = "query")
      BY <1>1, Types DEF TurnsOK
    <3>12. \A u \in Slots : turns'[u].gen <= generation' /\ (turns'[u].draining => turns'[u].pc = "query")
      BY <1>2, <3>6, <3>9, <3>11
    <3>13. TurnsOK'
      BY <3>9, <3>12 DEF TurnsOK
    <3>14. QED
      BY <3>2, <3>6, <3>9, <3>10, <3>13
  <2>2. CASE turns[t].entries # <<>>
    <3>1. /\ status' = IF (turns[t].gen = generation /\ status = "running") \/ status = "dispatching"
                       THEN "idle" ELSE status
          /\ Return(t) /\ HolderReleased
      BY <2>2 DEF FinishQuery, EndAndRelease, IsCurrent
    <3>2. /\ TurnsOK' /\ turns'[t].pc = "over" /\ \A u \in Slots \ {t} : Like(u)
          /\ \A u \in Slots \ {t} : Robs(t, u) => turns'[u].robbed
          /\ holder' \in Slots \cup {None}
      BY <1>1, <1>2, <3>1, ReturnFields
    <3>3. Leaves(t) /\ GuardTypeOK'
      BY <1>1, <1>2, <3>1, <3>2, Types DEF Leaves, Runs, GuardTypeOK
    <3>4. QED
      BY <3>2, <3>3
  <2>3. QED
    BY <2>1, <2>2
<1>4. PICK es \in Seq(EntryType) : es = FollowUp(t)
  BY <1>1, FollowUpType
<1>5. /\ queue' \in Seq(EntryType) /\ ToSet(queue') = ToSet(queue) \cup ToSet(es)
      /\ times' \in [Commands -> Nat] /\ arrived' \subseteq Commands
      /\ arrived' = arrived \cup Ids(ToSet(es))
  BY <1>1, <1>4, EnqueueFields
<1>6. \A c \in Queued \cup Ids(ToSet(es)) : c \in Queued'
  BY <1>5 DEF Queued, Ids
<1>7. /\ \A c \in Queued : Found(c)'
      /\ \A c \in arrived' \ arrived : Found(c)'
  BY <1>5, <1>6 DEF Found
<1>8. /\ \A c \in Commands : seen[c] > 0 => seen'[c] > 0
      /\ gone' \subseteq Commands /\ gone \subseteq gone' /\ seen' \in [Commands -> Nat]
      /\ torn' = torn /\ cancels' = cancels
  BY <1>1, Types
<1>9. QED
  BY <1>1, <1>3, <1>5, <1>7, <1>8, ReturnStep

-----------------------------------------------------------------------------
(* What the user does meanwhile. *)
LEMMA CancelKeeps == TurnInv /\ Cancel => TurnInv'
<1> SUFFICES ASSUME TurnInv, Cancel PROVE TurnInv'
  OBVIOUS
<1>1. /\ ForceEnd /\ controller' = None /\ HolderReleased
      /\ UNCHANGED <<queue, arrived, times, seen, gone, torn>> /\ TypeOK /\ GuardInv /\ NothingIsLost
  BY DEF Cancel, commandVars, TurnInv
<1>2. PICK hit : turns' = [t \in Slots |->
        IF t = hit THEN [turns[t] EXCEPT !.aborted = TRUE]
        ELSE IF HasTheGuard(t) THEN [turns[t] EXCEPT !.left = TRUE] ELSE turns[t]]
  BY Zenon DEF Cancel
<1>3. status' = "idle" /\ generation' \in Nat /\ generation <= generation'
  BY <1>1, Types DEF ForceEnd
<1>4. /\ TurnsOK' /\ \A t \in Slots : Like(t)
      /\ \A t \in Slots : HasTheGuard(t) => turns'[t].aborted \/ turns'[t].left
  BY <1>1, <1>2, <1>3, CancelFields
<1>5. GuardInv'
  BY <1>1, <1>3, <1>4, CancellingKeeps
<1>6. cancels' \in 0..MaxCancels
  BY <1>1, Types, CommandsAssumption DEF Cancel, Interrupt
<1>7. holder' \in Slots \cup {None}
  BY <1>1, Types DEF HolderReleased
<1>8. TypeOK'
  BY <1>1, <1>3, <1>4, <1>6, <1>7, Types DEF TypeOK, GuardTypeOK, TurnsOK
<1>9. \A c \in Queued : Found(c)'
  BY <1>1 DEF Queued, Found
<1>10. NothingIsLost'
  BY <1>1, <1>4, <1>9, FoundStep
<1>11. QED
  BY <1>5, <1>8, <1>10 DEF TurnInv

\* Taking the queue back into the editor keeps the invariant.
LEMMA PopEditableKeeps == TurnInv /\ PopEditable => TurnInv'
<1> SUFFICES ASSUME TurnInv, PopEditable PROVE TurnInv'
  OBVIOUS
<1>1. PICK es \in SUBSET EntryType : es = Editable(queue)
  BY Types, SetOfEntries DEF Editable, TurnInv
<1>2. /\ gone' = gone \cup Ids(es) /\ queue' = Without(queue, es)
      /\ UNCHANGED <<status, generation, turns, controller, holder>>
      /\ UNCHANGED <<arrived, times, seen, torn>> /\ TypeOK
  BY <1>1 DEF PopEditable, guardVars, TurnInv
<1>3. cancels' \in 0..MaxCancels
  BY <1>2, Types, CommandsAssumption DEF PopEditable, Interrupt
<1>4. TurnsOK' /\ \A t \in Slots : Like(t)
  BY <1>2, Types DEF TurnsOK, Like
<1>5. queue' \in Seq(EntryType) /\ ToSet(queue') = ToSet(queue) \ es
  BY <1>2, Types, WithoutSet
<1>6. gone' \subseteq Commands /\ gone \subseteq gone'
  BY <1>2, Types DEF Ids, EntryType
<1>7. \A c \in Queued : Found(c)'
  <2>1. \A e \in ToSet(queue) : e \in es \/ e \in ToSet(queue')
    BY <1>5
  <2>2. \A e \in ToSet(queue) : e.id \in gone' \/ e.id \in Queued'
    BY <1>2, <2>1 DEF Queued, Ids
  <2>3. QED
    BY <2>2 DEF Queued, Ids, Found
<1>8. QED
  BY <1>2, <1>3, <1>4, <1>5, <1>6, <1>7, Types, QuietStep

\* Killing the agents keeps the invariant.
LEMMA KillAgentsKeeps == TurnInv /\ KillAgents => TurnInv'
<1> SUFFICES ASSUME TurnInv, KillAgents PROVE TurnInv'
  OBVIOUS
<1>1. /\ gone' = gone \cup Queued
      /\ UNCHANGED <<status, generation, turns, controller, holder>>
      /\ UNCHANGED <<seen, torn>> /\ TypeOK
  BY DEF KillAgents, guardVars, TurnInv
<1>2. cancels' \in 0..MaxCancels
  BY <1>1, Types, CommandsAssumption DEF KillAgents, Interrupt
<1>3. TurnsOK' /\ \A t \in Slots : Like(t)
  BY <1>1, Types DEF TurnsOK, Like
<1>4. PICK note \in Seq(EntryType) :
        /\ queue' = note
        /\ times' = [c \in Commands |-> IF c \in Ids(ToSet(note)) THEN times[c] + 1 ELSE times[c]]
        /\ arrived' = arrived \cup Ids(ToSet(note))
  <2>1. PICK note \in {<<>>} \cup {<<Entry(c, "note", 2)>> : c \in Notes \ (arrived \cup ForSubagent)} :
          /\ queue' = note
          /\ times' = [c \in Commands |-> IF c \in Ids(ToSet(note)) THEN times[c] + 1 ELSE times[c]]
          /\ arrived' = arrived \cup Ids(ToSet(note))
    BY DEF KillAgents
  <2>2. ASSUME NEW c \in Notes PROVE <<Entry(c, "note", 2)>> \in Seq(EntryType)
    <3>1. c \in Commands /\ "note" \in Modes /\ 2 \in 0..2
      BY DEF Notes, Modes
    <3>2. Entry(c, "note", 2) \in EntryType
      BY <1>1, <3>1, EntryIsEntry
    <3>3. QED
      BY <3>2, OneEntry
  <2>3. note \in Seq(EntryType)
    BY <2>1, <2>2, NoEntry
  <2>4. QED
    BY <2>1, <2>3
<1>5. Ids(ToSet(note)) \subseteq Commands /\ Queued \subseteq Commands
  BY <1>1, Types, SetOfEntries DEF Queued
<1>6. /\ times' \in [Commands -> Nat] /\ arrived' \subseteq Commands
      /\ gone' \subseteq Commands /\ gone \subseteq gone'
  BY <1>1, <1>4, <1>5, Types
<1>7. /\ \A c \in Queued : Found(c)'
      /\ \A c \in arrived' \ arrived : Found(c)'
  BY <1>1, <1>4 DEF Found, Queued
<1>8. QED
  BY <1>1, <1>2, <1>3, <1>4, <1>6, <1>7, Types, QuietStep

(* Entries leave the queue that are handled now, or were before. *)
LEMMA TakenOutKeeps ==
  ASSUME TurnInv, UNCHANGED <<status, generation, controller, holder>>, TurnsOK',
         \A t \in Slots : Like(t), cancels' \in 0..MaxCancels,
         NEW es \in SUBSET EntryType, queue' = Without(queue, es),
         NEW ids, See(ids), \A e \in es : e.id \in ids \/ seen[e.id] > 0,
         UNCHANGED <<arrived, times, gone, torn>>
  PROVE  TurnInv'
<1>1. TypeOK
  BY DEF TurnInv
<1>2. queue' \in Seq(EntryType) /\ ToSet(queue') = ToSet(queue) \ es
  BY <1>1, Types, WithoutSet
<1>3. /\ seen' \in [Commands -> Nat] /\ \A c \in Commands : seen[c] \in Nat
      /\ \A c \in Commands : seen'[c] = IF c \in ids THEN seen[c] + 1 ELSE seen[c]
  BY <1>1, SeeFields, Types
<1>4. /\ \A c \in Commands : seen[c] > 0 => seen'[c] > 0
      /\ \A e \in es : seen'[e.id] > 0
  BY <1>3 DEF EntryType
<1>5. \A c \in Queued : Found(c)'
  <2>1. \A e \in ToSet(queue) : seen'[e.id] > 0 \/ e \in ToSet(queue')
    BY <1>2, <1>4
  <2>2. \A e \in ToSet(queue) : seen'[e.id] > 0 \/ e.id \in Queued'
    BY <2>1 DEF Queued, Ids
  <2>3. QED
    BY <2>2 DEF Queued, Ids, Found
<1>6. QED
  BY <1>1, <1>2, <1>3, <1>4, <1>5, Types, QuietStep

\* Sending the query to the background keeps the invariant.
LEMMA BackgroundKeeps == TurnInv /\ Background => TurnInv'
<1> SUFFICES ASSUME TurnInv, Background PROVE TurnInv'
  OBVIOUS
<1>1. /\ controller # None /\ Abort
      /\ UNCHANGED <<status, generation, controller, holder>>
      /\ UNCHANGED <<arrived, times, gone, torn>> /\ TypeOK
  BY DEF Background, guardVars, TurnInv
<1>2. cancels' \in 0..MaxCancels
  BY <1>1, Types, CommandsAssumption DEF Background, Interrupt
<1>3. TurnsOK' /\ \A t \in Slots : Like(t)
  BY <1>1, Types, AbortFields
<1>4. PICK es \in SUBSET EntryType : es = {e \in ToSet(queue) : e.mode = "note"}
  BY <1>1, Types, SetOfEntries
<1>5. PICK ids : ids = {c \in Ids(es) : seen[c] = 0}
  OBVIOUS
<1>6. queue' = Without(queue, es) /\ See(ids)
  BY <1>4, <1>5 DEF Background
<1>7. ASSUME NEW e \in es PROVE e.id \in ids \/ seen[e.id] > 0
  <2>1. e.id \in Ids(es) /\ e.id \in Commands
    BY DEF Ids, EntryType
  <2>2. seen[e.id] \in Nat
    BY <1>1, <2>1, Types
  <2>3. QED
    BY <1>5, <2>1, <2>2
<1>8. QED
  BY <1>1, <1>2, <1>3, <1>6, <1>7, TakenOutKeeps

\* A subagent that takes its commands keeps the invariant.
LEMMA SubagentDrainsKeeps == TurnInv /\ SubagentDrains => TurnInv'
<1> SUFFICES ASSUME TurnInv, SubagentDrains PROVE TurnInv'
  OBVIOUS
<1>1. PICK e \in ToSet(queue) : queue' = Without(queue, {e}) /\ See({e.id})
  BY DEF SubagentDrains
<1>2. /\ UNCHANGED <<status, generation, turns, controller, holder>>
      /\ UNCHANGED <<arrived, times, gone, torn, cancels>> /\ TypeOK
  BY DEF SubagentDrains, guardVars, TurnInv
<1>3. TurnsOK' /\ \A t \in Slots : Like(t)
  BY <1>2, Types DEF TurnsOK, Like
<1>4. {e} \in SUBSET EntryType
  BY <1>1, <1>2, Types, SetOfEntries
<1>5. \A f \in {e} : f.id \in {e.id} \/ seen[f.id] > 0
  OBVIOUS
<1>6. cancels' \in 0..MaxCancels
  BY <1>2, Types
<1>7. QED
  BY <1>1, <1>2, <1>3, <1>4, <1>5, <1>6, TakenOutKeeps

-----------------------------------------------------------------------------
(* The steps of Turns keep the invariant. *)
LEMMA StepTurnInv == TurnInv /\ [Next]_vars => TurnInv'
<1> SUFFICES ASSUME TurnInv, [Next]_vars PROVE TurnInv'
  OBVIOUS
<1>1. ASSUME NEW c \in Commands, Submit(c) \/ Notify(c) \/ Incoming(c) PROVE TurnInv'
  BY <1>1, SubmitKeeps, NotifyKeeps, IncomingKeeps
<1>2. ASSUME NEW t \in Slots, Turn(t) \/ DrainStart(t) PROVE TurnInv'
  <2>1. CASE ProcessInput(t)
    BY <2>1, InputFailsKeeps, InputIsLocalKeeps, StartQueryKeeps, InputIsShownKeeps,
       InputIsRequeuedKeeps DEF ProcessInput
  <2>2. CASE DrainStart(t) \/ DrainEnd(t) \/ FinishQuery(t)
    BY <2>2, DrainStartKeeps, DrainEndKeeps, FinishQueryKeeps
  <2>3. QED
    BY <1>2, <2>1, <2>2 DEF Turn
<1>3. CASE ProcessQueue \/ Cancel \/ PopEditable \/ KillAgents \/ Background \/ SubagentDrains
  BY <1>3, ProcessQueueKeeps, CancelKeeps, PopEditableKeeps, KillAgentsKeeps, BackgroundKeeps,
     SubagentDrainsKeeps
<1>4. CASE UNCHANGED vars
  <2>1. /\ UNCHANGED <<status, generation, controller, holder, turns, queue>>
        /\ UNCHANGED <<arrived, times, seen, gone, torn, cancels>> /\ TypeOK
    BY <1>4 DEF vars, guardVars, commandVars, TurnInv
  <2>2. TurnsOK' /\ \A t \in Slots : Like(t)
    BY <2>1, Types DEF TurnsOK, Like
  <2>3. \A c \in Queued : Found(c)'
    BY <2>1 DEF Queued, Found
  <2>4. QED
    BY <2>1, <2>2, <2>3, Types, QuietStep
<1>5. QED
  BY <1>1, <1>2, <1>3, <1>4 DEF Next

(* TurnInv holds throughout: the guard's ownership and the places of the    *)
(* commands, which the steps need to know of each other's doing.           *)
THEOREM TurnInvIsKept == Spec => []TurnInv
<1>1. Init => TurnInv
  BY InitTurnInv
<1>2. TurnInv /\ [Next]_vars => TurnInv'
  BY StepTurnInv
<1>3. QED
  BY <1>1, <1>2, PTL DEF Spec

(* Every variable has the values the code gives it. *)
THEOREM TurnsAreTyped == Spec => []TypeOK
<1>1. TurnInv => TypeOK
  BY DEF TurnInv
<1>2. QED
  BY <1>1, TurnInvIsKept, PTL

(* A guard that is active has a turn that will release it: a reservation a  *)
(* turn at its input, a running generation one query and no other.         *)
THEOREM TheGuardAlwaysHasATurn == Spec => []TheGuardHasATurn
<1>1. TurnInv => TheGuardHasATurn
  <2> SUFFICES ASSUME TurnInv PROVE TheGuardHasATurn
    OBVIOUS
  <2>1. status = "dispatching" => holder # None /\ turns[holder].pc = "input"
    BY CommandsAssumption DEF TurnInv, GuardInv, SomeoneHolds, Slots
  <2>2. ASSUME status = "running"
        PROVE  Cardinality({t \in Slots : turns[t].pc = "query" /\ turns[t].gen = generation}) = 1
    <3>1. PICK t \in Slots : Runs(t)
      BY <2>2 DEF TurnInv, GuardInv, SomeoneHolds
    <3>2. {u \in Slots : turns[u].pc = "query" /\ turns[u].gen = generation} = {t}
      BY <3>1 DEF Runs, TurnInv, GuardInv, GensDiffer
    <3>3. QED
      BY <3>2, FS_Singleton
  <2>3. QED
    BY <2>1, <2>2 DEF TheGuardHasATurn
<1>2. QED
  BY <1>1, TurnInvIsKept, PTL

(* Of two turns at work together, that is, not over and not aborted, one    *)
(* lost the guard: another turn took its reservation, or an onCancel that  *)
(* aborted something else ended the guard that it had.                     *)
THEOREM TurnsAreAlwaysExclusive == Spec => []TurnsAreExclusive
<1>1. TurnInv => TurnsAreExclusive
  <2> SUFFICES ASSUME TurnInv, NEW t \in AtWork, NEW u \in AtWork,
                      ~Bereft(t), ~Bereft(u)
               PROVE  t = u
    BY DEF TurnsAreExclusive
  <2>1. t \in Slots /\ u \in Slots /\ Free(t) /\ Free(u)
    BY DEF AtWork, Free, Bereft
  <2>2. Owns(t) /\ Owns(u)
    BY <2>1 DEF TurnInv, GuardInv, FreeOwns
  <2>3. QED
    BY <2>1, <2>2 DEF Owns, Runs, TurnInv, GuardInv, GensDiffer
<1>2. QED
  BY <1>1, TurnInvIsKept, PTL

(* No command is lost between the queue, the turns and the messages. *)
THEOREM NothingIsEverLost == Spec => []NothingIsLost
<1>1. TurnInv => NothingIsLost
  BY DEF TurnInv
<1>2. QED
  BY <1>1, TurnInvIsKept, PTL

-----------------------------------------------------------------------------
(* How often the commands are handled. *)

Owned(t) == Ids(ToSet(turns[t].entries))
Target(c) == \E d \in Commands : Follow[d] = c

(* A command that has not come in yet: one that another asks for comes in   *)
(* when it is put in the queue.                                            *)
Fresh(c) == IF Target(c) THEN times[c] = 0 ELSE c \notin arrived
Nowhere(c) ==
  /\ seen[c] = 0 /\ c \notin Queued
  /\ \A t \in Slots : c \notin Owned(t) /\ c \notin Ids(turns[t].snap)
Waits(c) == c \in Queued \/ \E t \in Slots : turns[t].pc = "input" /\ c \in Owned(t)

(* A slash command whose turn has still to ask for the next one. *)
Pending(c) ==
  \/ \E e \in ToSet(queue) : e.id = c /\ e.mode = "slash"
  \/ \E t \in Slots : \E e \in ToSet(turns[t].entries) : e.id = c /\ e.mode = "slash"

FreshIsNowhere == \A c \in Commands : Fresh(c) => Nowhere(c)
FollowsAreFresh ==
  \A c \in Commands : Follow[c] # None /\ (Fresh(c) \/ Pending(c)) => Fresh(Follow[c])

(* A command is in the queue or with one turn. *)
OnePlace ==
  /\ \A e, f \in ToSet(queue) : e.id = f.id => e = f
  /\ \A t \in Slots : Queued \cap Owned(t) = {}
  /\ \A t, u \in Slots : \A c \in Commands : c \in Owned(t) /\ c \in Owned(u) => t = u

(* What waits has not been handled. *)
UnseenWait == \A c \in Commands \ torn : seen[c] <= 1 /\ (Waits(c) => seen[c] = 0)

(* What a free query has read from the queue is handled by nobody else. *)
Snapped(t, e) ==
  /\ Main(e)
  /\ e.id \in Queued => e \in ToSet(queue)
  /\ \A u \in Slots : turns[u].pc = "input" => e.id \notin Owned(u)
  /\ e.id \notin torn => seen[e.id] = 0
SnapsAreQueued ==
  \A t \in Slots : Free(t) /\ turns[t].draining => \A e \in turns[t].snap : Snapped(t, e)

PlacesInv == FreshIsNowhere /\ FollowsAreFresh /\ OnePlace /\ UnseenWait /\ SnapsAreQueued

(* Y is what becomes known in a step: nobody asks for it any more. *)
Known(Y) == \A c \in Commands : Fresh(c)' <=> Fresh(c) /\ c \notin Y
AskedBefore(Y) ==
  \A x \in Y : Fresh(x) => \A c \in Commands : Follow[c] = x => ~Fresh(c) /\ ~Pending(c)'

\* A step keeps the commands that are still to follow fresh if it asks for no more.
LEMMA FollowsStep ==
  ASSUME FollowsAreFresh, NEW Y, Known(Y), AskedBefore(Y),
         \A c \in Commands : Pending(c)' => Pending(c) \/ (c \in Y /\ Fresh(c))
  PROVE  FollowsAreFresh'
<1> SUFFICES ASSUME NEW c \in Commands, Follow[c] # None, Fresh(c)' \/ Pending(c)'
             PROVE  Fresh(Follow[c])'
  BY DEF FollowsAreFresh
<1>1. PICK d \in Commands : d = Follow[c]
  BY CommandsAssumption
<1>2. Fresh(c) \/ Pending(c)
  BY DEF Known
<1>3. Fresh(d)
  BY <1>1, <1>2 DEF FollowsAreFresh
<1>4. d \notin Y
  BY <1>1, <1>3 DEF AskedBefore, Known
<1>5. QED
  BY <1>1, <1>3, <1>4 DEF Known

\* A step keeps what is fresh nowhere if it moves only what it asks for.
LEMMA NowhereStep ==
  ASSUME FreshIsNowhere, NEW Y, Known(Y), \A c \in Commands \ Y : Nowhere(c) => Nowhere(c)'
  PROVE  FreshIsNowhere'
  BY DEF FreshIsNowhere, Known

\* A step keeps what waits unseen if it shows only what leaves.
LEMMA UnseenStep ==
  ASSUME UnseenWait, torn \subseteq torn',
         \A c \in Commands \ torn' : Waits(c)' => Waits(c) \/ Nowhere(c),
         \A c \in Commands \ torn' :
           seen'[c] = seen[c] \/ (seen[c] = 0 /\ seen'[c] = 1 /\ ~Waits(c)')
  PROVE  UnseenWait'
<1> SUFFICES ASSUME NEW c \in Commands \ torn' PROVE seen'[c] <= 1 /\ (Waits(c)' => seen'[c] = 0)
  BY DEF UnseenWait
<1>1. c \in Commands \ torn /\ seen[c] <= 1 /\ (Waits(c) => seen[c] = 0)
  BY DEF UnseenWait
<1>2. Waits(c)' => seen[c] = 0
  BY <1>1 DEF Nowhere
<1>3. QED
  BY <1>1, <1>2

(* Entries are put in the queue, and turns give some up. *)
LEMMA OnePlaceEnqueued ==
  ASSUME OnePlace, NEW N \in SUBSET EntryType, ToSet(queue') \subseteq ToSet(queue) \cup N,
         \A e, f \in N : e.id = f.id => e = f, Ids(N) \cap Queued = {},
         \A t \in Slots : Owned(t)' \subseteq Owned(t) /\ Ids(N) \cap Owned(t)' = {}
  PROVE  OnePlace'
<1>1. ASSUME NEW e \in ToSet(queue'), NEW f \in ToSet(queue'), e.id = f.id PROVE e = f
  <2>1. (e \in ToSet(queue) \/ e \in N) /\ (f \in ToSet(queue) \/ f \in N)
    OBVIOUS
  <2>2. CASE e \in ToSet(queue) /\ f \in ToSet(queue)
    BY <1>1, <2>2 DEF OnePlace
  <2>3. CASE e \in N /\ f \in N
    BY <1>1, <2>3
  <2>4. CASE e \in N /\ f \in ToSet(queue)
    BY <1>1, <2>4 DEF Ids, Queued
  <2>5. CASE f \in N /\ e \in ToSet(queue)
    BY <1>1, <2>5 DEF Ids, Queued
  <2>6. QED
    BY <2>1, <2>2, <2>3, <2>4, <2>5
<1>2. Queued' \subseteq Queued \cup Ids(N)
  BY DEF Queued, Ids
<1>3. \A t \in Slots : Queued' \cap Owned(t)' = {}
  BY <1>2 DEF OnePlace
<1>4. \A t, u \in Slots : \A c \in Commands : c \in Owned(t)' /\ c \in Owned(u)' => t = u
  BY DEF OnePlace
<1>5. QED
  BY <1>1, <1>3, <1>4 DEF OnePlace

(* A turn starts with entries that are nowhere else. *)
LEMMA OnePlaceExecuted ==
  ASSUME OnePlace, ToSet(queue') \subseteq ToSet(queue), NEW t \in Slots,
         \A u \in Slots \ {t} : Owned(u)' = Owned(u) /\ Owned(t)' \cap Owned(u) = {},
         Owned(t)' \cap Queued' = {}
  PROVE  OnePlace'
<1>1. \A e, f \in ToSet(queue') : e.id = f.id => e = f
  BY DEF OnePlace
<1>2. Queued' \subseteq Queued
  BY DEF Queued, Ids
<1>3. \A u \in Slots : Queued' \cap Owned(u)' = {}
  BY <1>2 DEF OnePlace
<1>4. \A u, v \in Slots : \A c \in Commands : c \in Owned(u)' /\ c \in Owned(v)' => u = v
  BY DEF OnePlace
<1>5. QED
  BY <1>1, <1>3, <1>4 DEF OnePlace

(* A free query keeps what it read, and nobody else touches it. *)
LeavesSnap(t, N) ==
  /\ Free(t) /\ turns[t].draining /\ turns'[t].snap = turns[t].snap
  /\ \A e \in turns[t].snap : /\ e.id \notin Ids(N)
                              /\ e.id \notin torn' => seen'[e.id] = seen[e.id]
  /\ \A u \in Slots : turns'[u].pc = "input" => turns[u].pc = "input" /\ Owned(u)' \subseteq Owned(u)

\* A step keeps what drains have read in the queue if it takes nothing of it away.
LEMMA SnapStep ==
  ASSUME OnePlace, SnapsAreQueued, NEW N \in SUBSET EntryType,
         ToSet(queue') \subseteq ToSet(queue) \cup N, torn \subseteq torn',
         \A t \in Slots : Free(t)' /\ turns'[t].draining => LeavesSnap(t, N)
  PROVE  SnapsAreQueued'
<1> SUFFICES ASSUME NEW t \in Slots, Free(t)', turns'[t].draining, NEW e \in turns'[t].snap
             PROVE  Snapped(t, e)'
  BY DEF SnapsAreQueued
<1>1. LeavesSnap(t, N) /\ e \in turns[t].snap
  BY DEF LeavesSnap
<1>2. Snapped(t, e)
  BY <1>1 DEF SnapsAreQueued, LeavesSnap
<1>3. e.id \in Queued' => e \in ToSet(queue')
  <2>1. SUFFICES ASSUME NEW f \in ToSet(queue'), f.id = e.id PROVE e \in ToSet(queue')
    BY DEF Queued, Ids
  <2>2. f \in ToSet(queue)
    BY <1>1, <2>1 DEF LeavesSnap, Ids
  <2>3. e.id \in Queued
    BY <2>1, <2>2 DEF Queued, Ids
  <2>4. e \in ToSet(queue)
    BY <1>2, <2>3 DEF Snapped
  <2>5. e = f
    BY <2>1, <2>2, <2>4 DEF OnePlace
  <2>6. QED
    BY <2>5
<1>4. \A u \in Slots : turns'[u].pc = "input" => e.id \notin Owned(u)'
  BY <1>1, <1>2 DEF LeavesSnap, Snapped
<1>5. e.id \notin torn' => seen'[e.id] = 0
  BY <1>1, <1>2 DEF LeavesSnap, Snapped
<1>6. QED
  BY <1>2, <1>3, <1>4, <1>5 DEF Snapped

\* Commands that arrive are counted.
LEMMA EnqueuedKnown ==
  ASSUME TypeOK, NEW ids, arrived' = arrived \cup ids,
         times' = [c \in Commands |-> IF c \in ids THEN times[c] + 1 ELSE times[c]]
  PROVE  Known(ids)
<1> SUFFICES ASSUME NEW c \in Commands PROVE Fresh(c)' <=> Fresh(c) /\ c \notin ids
  BY DEF Known
<1>1. times[c] \in Nat /\ times'[c] = IF c \in ids THEN times[c] + 1 ELSE times[c]
  BY Types
<1>2. Target(c)' <=> Target(c)
  BY DEF Target
<1>3. CASE Target(c)
  BY <1>1, <1>2, <1>3 DEF Fresh
<1>4. CASE ~Target(c)
  BY <1>2, <1>4 DEF Fresh
<1>5. QED
  BY <1>3, <1>4

\* A step without arrivals counts nothing.
LEMMA UnchangedKnown ==
  ASSUME UNCHANGED <<times, arrived>>
  PROVE  Known({})
  BY DEF Known, Fresh, Target

(* Of two free turns there is one, and it has the guard; a free query that  *)
(* drains is running.                                                      *)
LEMMA FreeIsOne ==
  ASSUME TurnInv
  PROVE  /\ \A t, u \in Slots : Free(t) /\ Free(u) => t = u
         /\ \A t \in Slots : Free(t) /\ turns[t].draining => status = "running"
<1>1. \A t \in Slots : Free(t) => Owns(t)
  BY DEF TurnInv, GuardInv, FreeOwns
<1>2. \A t, u \in Slots : Free(t) /\ Free(u) => t = u
  BY <1>1 DEF Owns, Runs, TurnInv, GuardInv, GensDiffer
<1>3. \A t \in Slots : Free(t) /\ turns[t].draining => status = "running"
  BY <1>1, Types DEF TurnInv, TurnsOK, Owns
<1>4. QED
  BY <1>2, <1>3

(* Nothing becomes of the turns; entries leave the queue. *)
LEMMA TakenPlaces ==
  ASSUME FreshIsNowhere, FollowsAreFresh, OnePlace, UnseenWait,
         ToSet(queue') \subseteq ToSet(queue), UNCHANGED <<times, arrived>>, torn \subseteq torn',
         \A t \in Slots : Like(t),
         \A t \in Slots : Ids(turns'[t].snap) \subseteq Ids(turns[t].snap) \cup Queued,
         \A c \in Commands : Nowhere(c) => seen'[c] = 0,
         \A c \in Commands \ torn' :
           seen'[c] = seen[c] \/ (seen[c] = 0 /\ seen'[c] = 1 /\ ~Waits(c)')
  PROVE  FreshIsNowhere' /\ FollowsAreFresh' /\ OnePlace' /\ UnseenWait'
<1>1. Known({}) /\ AskedBefore({})
  BY UnchangedKnown DEF AskedBefore
<1>2. Queued' \subseteq Queued /\ \A t \in Slots : Owned(t)' = Owned(t)
  BY DEF Queued, Ids, Like, Owned
<1>3. FollowsAreFresh'
  <2>1. \A c \in Commands : Pending(c)' => Pending(c)
    BY DEF Pending, Like
  <2>2. QED
    BY <1>1, <2>1, FollowsStep
<1>4. FreshIsNowhere'
  <2>1. \A c \in Commands : Nowhere(c) => Nowhere(c)'
    BY <1>2 DEF Nowhere
  <2>2. QED
    BY <1>1, <2>1, NowhereStep
<1>5. OnePlace'
  <2>1. \A t \in Slots : Owned(t)' \subseteq Owned(t) /\ Ids({}) \cap Owned(t)' = {}
    BY <1>2 DEF Ids
  <2>2. Ids({}) \cap Queued = {}
    BY DEF Ids
  <2>3. QED
    BY <2>1, <2>2, OnePlaceEnqueued
<1>6. UnseenWait'
  <2>1. \A c \in Commands \ torn' : Waits(c)' => Waits(c)
    BY <1>2 DEF Waits, Like
  <2>2. QED
    BY <2>1, UnseenStep
<1>7. QED
  BY <1>3, <1>4, <1>5, <1>6

\* Taking commands from the queue keeps where everything is.
LEMMA TakenKeeps ==
  ASSUME PlacesInv, ToSet(queue') \subseteq ToSet(queue), UNCHANGED <<times, arrived>>,
         torn \subseteq torn', \A t \in Slots : Like(t),
         \A t \in Slots : turns'[t].snap = turns[t].snap,
         \A t \in Slots : turns'[t].draining => turns[t].draining,
         \A c \in Commands : Nowhere(c) => seen'[c] = 0,
         \A c \in Commands \ torn' :
           seen'[c] = seen[c] \/ (seen[c] = 0 /\ seen'[c] = 1 /\ ~Waits(c)'),
         \A t \in Slots : Free(t)' /\ turns'[t].draining =>
           \A e \in turns[t].snap : e.id \notin torn' => seen'[e.id] = seen[e.id]
  PROVE  PlacesInv'
<1>1. FreshIsNowhere' /\ FollowsAreFresh' /\ OnePlace' /\ UnseenWait'
  BY TakenPlaces DEF PlacesInv
<1>2. ASSUME NEW t \in Slots, Free(t)', turns'[t].draining PROVE LeavesSnap(t, {})
  <2>1. Free(t)
    BY <1>2 DEF Free, Alive, Like
  <2>2. \A e \in turns[t].snap : e.id \notin Ids({}) /\ (e.id \notin torn' => seen'[e.id] = seen[e.id])
    BY <1>2 DEF Ids
  <2>3. \A u \in Slots : turns'[u].pc = "input" => turns[u].pc = "input" /\ Owned(u)' \subseteq Owned(u)
    BY DEF Like, Owned
  <2>4. QED
    BY <1>2, <2>1, <2>2, <2>3 DEF LeavesSnap
<1>3. SnapsAreQueued'
  BY <1>2, SnapStep DEF PlacesInv
<1>4. QED
  BY <1>1, <1>3 DEF PlacesInv

(* A command comes in that nobody asks for, and is put in the queue. *)
LEMMA PutPlaces ==
  ASSUME TypeOK, PlacesInv, NEW N \in SUBSET EntryType, \A e, f \in N : e = f,
         \A e \in N : Fresh(e.id) /\ ~Target(e.id),
         ToSet(queue') \subseteq ToSet(queue) \cup N, arrived' = arrived \cup Ids(N),
         times' = [c \in Commands |-> IF c \in Ids(N) THEN times[c] + 1 ELSE times[c]],
         UNCHANGED <<seen, torn>>, \A t \in Slots : Like(t) /\ Undrained(t)
  PROVE  PlacesInv'
<1>1. Known(Ids(N))
  BY EnqueuedKnown
<1>2. Ids(N) \subseteq Commands /\ \A x \in Ids(N) : Fresh(x) /\ ~Target(x) /\ Nowhere(x)
  BY DEF Ids, EntryType, PlacesInv, FreshIsNowhere
<1>3. Queued' \subseteq Queued \cup Ids(N) /\ \A t \in Slots : Owned(t)' = Owned(t)
  BY DEF Queued, Ids, Like, Owned
<1>4. AskedBefore(Ids(N))
  BY <1>2 DEF AskedBefore, Target
<1>5. FollowsAreFresh'
  <2>1. ASSUME NEW c \in Commands, Pending(c)' PROVE Pending(c) \/ (c \in Ids(N) /\ Fresh(c))
    <3>1. CASE \E e \in ToSet(queue') : e.id = c /\ e.mode = "slash"
      <4>1. PICK e \in ToSet(queue') : e.id = c /\ e.mode = "slash"
        BY <3>1
      <4>2. CASE e \in ToSet(queue)
        BY <4>1, <4>2 DEF Pending
      <4>3. CASE e \in N
        BY <1>2, <4>1, <4>3 DEF Ids
      <4>4. QED
        BY <4>2, <4>3
    <3>2. CASE \E t \in Slots : \E e \in ToSet(turns'[t].entries) : e.id = c /\ e.mode = "slash"
      BY <3>2 DEF Pending, Like
    <3>3. QED
      BY <2>1, <3>1, <3>2 DEF Pending
  <2>2. QED
    BY <1>1, <1>4, <2>1, FollowsStep DEF PlacesInv
<1>6. FreshIsNowhere'
  <2>1. \A c \in Commands \ Ids(N) : Nowhere(c) => Nowhere(c)'
    BY <1>3 DEF Nowhere, Undrained
  <2>2. QED
    BY <1>1, <2>1, NowhereStep DEF PlacesInv
<1>7. OnePlace'
  <2>1. Ids(N) \cap Queued = {}
    BY <1>2 DEF Nowhere
  <2>2. \A t \in Slots : Owned(t)' \subseteq Owned(t) /\ Ids(N) \cap Owned(t)' = {}
    BY <1>2, <1>3 DEF Nowhere
  <2>3. QED
    BY <2>1, <2>2, OnePlaceEnqueued DEF PlacesInv
<1>8. UnseenWait'
  <2>1. \A c \in Commands : Waits(c)' => Waits(c) \/ Nowhere(c)
    BY <1>2, <1>3 DEF Waits, Like
  <2>2. QED
    BY <2>1, UnseenStep DEF PlacesInv
<1>9. ASSUME NEW t \in Slots, Free(t)', turns'[t].draining PROVE LeavesSnap(t, N)
  <2>1. Free(t) /\ turns[t].draining /\ turns'[t].snap = turns[t].snap
    BY <1>9 DEF Free, Alive, Like, Undrained
  <2>2. \A e \in turns[t].snap : e.id \notin Ids(N) /\ (e.id \notin torn' => seen'[e.id] = seen[e.id])
    BY <1>2 DEF Nowhere, Ids
  <2>3. \A u \in Slots : turns'[u].pc = "input" => turns[u].pc = "input" /\ Owned(u)' \subseteq Owned(u)
    BY DEF Like, Owned
  <2>4. QED
    BY <2>1, <2>2, <2>3 DEF LeavesSnap
<1>10. SnapsAreQueued'
  BY <1>9, SnapStep DEF PlacesInv
<1>11. QED
  BY <1>5, <1>6, <1>7, <1>8, <1>10 DEF PlacesInv

\* Putting a new command into the queue keeps where everything is.
LEMMA SubmitPutsIt ==
  ASSUME TurnInv, PlacesInv, NEW c \in Commands \ arrived, ~Target(c),
         NEW mode \in Modes, NEW prio \in 0..2, Enqueue(<<Entry(c, mode, prio)>>),
         UNCHANGED <<seen, torn>>, \A t \in Slots : Like(t) /\ Undrained(t)
  PROVE  PlacesInv'
<1>1. PICK e \in EntryType : e = Entry(c, mode, prio) /\ e.id = c
  BY EntryIsEntry DEF TurnInv
<1>2. <<e>> \in Seq(EntryType) /\ ToSet(<<e>>) = {e} /\ Ids({e}) = {c}
  BY <1>1, OneEntry DEF Ids
<1>3. TypeOK /\ Enqueue(<<e>>)
  BY <1>1 DEF TurnInv
<1>4. ToSet(queue') = ToSet(queue) \cup {e}
  BY <1>2, <1>3, EnqueueFields
<1>5. /\ arrived' = arrived \cup Ids({e})
      /\ times' = [d \in Commands |-> IF d \in Ids({e}) THEN times[d] + 1 ELSE times[d]]
  BY <1>2, <1>3 DEF Enqueue
<1>6. {e} \in SUBSET EntryType /\ \A f \in {e} : Fresh(f.id) /\ ~Target(f.id)
  BY <1>1 DEF Fresh
<1>7. QED
  BY <1>3, <1>4, <1>5, <1>6, PutPlaces

(* A turn starts with an entry that nobody asked for, or with some of the   *)
(* queue.                                                                  *)
LEMMA ExecutePlaces ==
  ASSUME TurnInv, PlacesInv, ~Active, FreeSlots # {}, NEW es \in Seq(EntryType),
         Execute(Min(FreeSlots), es), NEW Y, Known(Y), \A x \in Y : ~Target(x),
         ToSet(queue') \subseteq ToSet(queue), UNCHANGED <<seen, torn>>,
         \A e \in ToSet(es) : (Fresh(e.id) /\ e.id \in Y) \/ e \in ToSet(queue),
         Ids(ToSet(es)) \cap Queued' = {}
  PROVE  PlacesInv'
<1>1. PICK t \in Slots : t = Min(FreeSlots)
  <2>1. FreeSlots \in SUBSET Nat
    BY DEF FreeSlots, Slots
  <2>2. QED
    BY <2>1, MinIsIn DEF FreeSlots
<1>2. PICK new : new = [Over EXCEPT !.pc = "input", !.entries = es]
  OBVIOUS
<1>3. new.pc = "input" /\ new.entries = es /\ new.snap = {} /\ ~new.draining
  BY <1>2, InputFields
<1>4. turns \in [Slots -> TurnType] /\ turns' = [turns EXCEPT ![t] = new]
  BY <1>1, <1>2, Types DEF TurnsOK, Execute, TurnInv
<1>5. turns'[t] = new /\ \A u \in Slots \ {t} : turns'[u] = turns[u]
  BY <1>4
<1>6. /\ Owned(t)' = Ids(ToSet(es)) /\ turns'[t].snap = {} /\ turns'[t].pc = "input"
      /\ \A u \in Slots \ {t} : Owned(u)' = Owned(u)
  BY <1>3, <1>5 DEF Owned
<1>7. ToSet(es) \subseteq EntryType
  BY SetOfEntries
<1>8. Queued' \subseteq Queued
  BY DEF Queued, Ids
<1>9. \A c \in Ids(ToSet(es)) : c \in Commands /\ ((c \in Y /\ Fresh(c) /\ Nowhere(c)) \/ c \in Queued)
  BY <1>7 DEF Ids, EntryType, Queued, PlacesInv, FreshIsNowhere
<1>10. FollowsAreFresh'
  <2>1. ASSUME NEW c \in Commands, Pending(c)' PROVE Pending(c) \/ (c \in Y /\ Fresh(c))
    <3>1. CASE \E e \in ToSet(queue') : e.id = c /\ e.mode = "slash"
      BY <3>1 DEF Pending
    <3>2. CASE \E u \in Slots : \E e \in ToSet(turns'[u].entries) : e.id = c /\ e.mode = "slash"
      <4>1. PICK u \in Slots : \E e \in ToSet(turns'[u].entries) : e.id = c /\ e.mode = "slash"
        BY <3>2
      <4>2. CASE u = t
        <5>1. PICK e \in ToSet(es) : e.id = c /\ e.mode = "slash"
          BY <1>3, <1>5, <4>1, <4>2
        <5>2. QED
          BY <5>1 DEF Pending
      <4>3. CASE u # t
        BY <1>5, <4>1, <4>3 DEF Pending
      <4>4. QED
        BY <4>2, <4>3
    <3>3. QED
      BY <2>1, <3>1, <3>2 DEF Pending
  <2>2. AskedBefore(Y)
    BY DEF AskedBefore, Target
  <2>3. QED
    BY <2>1, <2>2, FollowsStep DEF PlacesInv
<1>11. FreshIsNowhere'
  <2>1. ASSUME NEW c \in Commands \ Y, Nowhere(c) PROVE Nowhere(c)'
    <3>1. \A u \in Slots : c \notin Owned(u)' /\ c \notin Ids(turns'[u].snap)
      BY <1>5, <1>6, <1>9, <2>1 DEF Nowhere, Ids
    <3>2. QED
      BY <1>8, <2>1, <3>1 DEF Nowhere
  <2>2. QED
    BY <2>1, NowhereStep DEF PlacesInv
<1>12. OnePlace'
  <2>1. \A u \in Slots \ {t} : Owned(u)' = Owned(u) /\ Owned(t)' \cap Owned(u) = {}
    BY <1>6, <1>9 DEF Nowhere, PlacesInv, OnePlace
  <2>2. Owned(t)' \cap Queued' = {}
    BY <1>6
  <2>3. QED
    BY <2>1, <2>2, OnePlaceExecuted DEF PlacesInv
<1>13. UnseenWait'
  <2>1. \A c \in Commands : Waits(c)' => Waits(c) \/ Nowhere(c)
    BY <1>5, <1>6, <1>8, <1>9 DEF Waits
  <2>2. QED
    BY <2>1, UnseenStep DEF PlacesInv
<1>14. SnapsAreQueued'
  <2>1. \A u \in Slots : ~Free(u)
    BY IdleIsFree DEF TurnInv
  <2>2. \A u \in Slots : ~(Free(u)' /\ turns'[u].draining)
    BY <1>3, <1>5, <2>1 DEF Free, Alive
  <2>3. QED
    BY <2>2 DEF SnapsAreQueued
<1>15. QED
  BY <1>10, <1>11, <1>12, <1>13, <1>14 DEF PlacesInv

(* F is what the slash command of t asks for. *)
AsksFor(t, F) ==
  /\ \A f, g \in F : f = g
  /\ \A f \in F : \E c \in Commands : Pending(c) /\ c \in Owned(t) /\ f.id = Follow[c]

\* What follows a turn was asked for by its own commands.
LEMMA FollowUpAsks ==
  ASSUME TypeOK, NEW t \in Slots
  PROVE  ToSet(FollowUp(t)) \subseteq EntryType /\ AsksFor(t, ToSet(FollowUp(t)))
<1> DEFINE first == Head(turns[t].entries)
           next == Follow[first.id]
<1>1. CASE turns[t].entries = <<>> \/ first.mode # "slash" \/ next = None
  <2>1. ToSet(FollowUp(t)) = {}
    BY <1>1, NoEntry DEF FollowUp
  <2>2. QED
    BY <2>1 DEF AsksFor
<1>2. CASE turns[t].entries # <<>> /\ first.mode = "slash" /\ next # None
  <2>1. PICK s \in Seq(EntryType) : s = turns[t].entries
    BY TurnFields
  <2>2. s # <<>> /\ Head(s) = s[1] /\ 1 \in 1..Len(s) /\ DOMAIN s = 1..Len(s)
    BY <1>2, <2>1, EmptySeq, HeadTailProperties, LenProperties
  <2>3. s[1] \in EntryType /\ s[1] \in ToSet(s) /\ s[1] = first
    BY <2>1, <2>2, ElementOfSeq DEF ToSet
  <2>4. first.id \in Commands /\ first.id \in Owned(t) /\ Pending(first.id)
    BY <1>2, <2>1, <2>3 DEF EntryType, Owned, Ids, Pending
  <2>5. next \in Commands
    BY <1>2, <2>4, CommandsAssumption
  <2>6. PICK f \in EntryType : f = Entry(next, Mode[next], 1) /\ f.id = next
    BY <2>5, CommandsAssumption, EntryIsEntry
  <2>7. ToSet(FollowUp(t)) = {f}
    BY <1>2, <2>6, OneEntry DEF FollowUp
  <2>8. QED
    BY <2>4, <2>6, <2>7 DEF AsksFor
<1>3. QED
  BY <1>1, <1>2

\* A turn that returns and leaves commands in the queue keeps where everything is.
LEMMA ReturnPlaces ==
  ASSUME TurnInv, PlacesInv, NEW t \in Slots,
         turns'[t].pc = "over", turns'[t].entries = <<>>, turns'[t].snap = {}, ~turns'[t].draining,
         \A u \in Slots \ {t} : Like(u) /\ Undrained(u),
         NEW F \in SUBSET EntryType, AsksFor(t, F),
         NEW N \in SUBSET EntryType, Known(Ids(N)), ToSet(queue') \subseteq ToSet(queue) \cup N,
         \A e \in N : \/ e \in F
                      \/ turns[t].pc = "input" /\ e.id \in Owned(t) /\ e.mode = "prompt",
         \A e, f \in N \ F : e.id = f.id => e = f,
         torn' = torn,
         \A c \in Commands : \/ seen'[c] = seen[c]
                             \/ /\ turns[t].pc = "input" /\ c \in Owned(t)
                                /\ seen'[c] = seen[c] + 1 /\ N \subseteq F
  PROVE  PlacesInv'
<1>1. /\ Owned(t)' = {} /\ Ids(turns'[t].snap) = {} /\ ToSet(turns'[t].entries) = {}
      /\ \A u \in Slots \ {t} : Owned(u)' = Owned(u) /\ turns'[u].snap = turns[u].snap
  BY NoEntry DEF Owned, Ids, Like, Undrained
<1>2. \A f \in F : f.id \in Commands /\ Fresh(f.id) /\ Nowhere(f.id)
  <2>1. SUFFICES ASSUME NEW f \in F PROVE f.id \in Commands /\ Fresh(f.id) /\ Nowhere(f.id)
    OBVIOUS
  <2>2. PICK c \in Commands : Pending(c) /\ c \in Owned(t) /\ f.id = Follow[c]
    BY DEF AsksFor
  <2>3. f.id \in Commands /\ f.id # None
    BY CommandsAssumption DEF EntryType
  <2>4. QED
    BY <2>2, <2>3 DEF PlacesInv, FollowsAreFresh, FreshIsNowhere
<1>3. \A c \in Owned(t) : c \in Commands /\ c \notin Queued /\ ~Fresh(c)
  <2>1. Owned(t) \subseteq Commands
    BY TurnFields, SetOfEntries DEF Owned, TurnInv
  <2>2. QED
    BY <2>1 DEF PlacesInv, OnePlace, FreshIsNowhere, Nowhere
<1>4. \A u \in Slots \ {t} : Owned(u) \cap Owned(t) = {}
  BY <1>3 DEF PlacesInv, OnePlace
<1>5. \A c \in Ids(N) : c \in Commands /\ ((Fresh(c) /\ Nowhere(c)) \/ (turns[t].pc = "input" /\ c \in Owned(t)))
  BY <1>2 DEF Ids, EntryType
<1>6. Queued' \subseteq Queued \cup Ids(N)
  BY DEF Queued, Ids
<1>7. AskedBefore(Ids(N))
  <2> SUFFICES ASSUME NEW e \in N, Fresh(e.id), NEW c \in Commands, Follow[c] = e.id
               PROVE  ~Fresh(c) /\ ~Pending(c)'
    BY DEF AskedBefore, Ids
  <2>1. e \in F /\ e.id # None
    BY <1>3, CommandsAssumption DEF EntryType
  <2>2. PICK d \in Commands : d \in Owned(t) /\ e.id = Follow[d]
    BY <2>1 DEF AsksFor
  <2>3. c = d
    BY <2>1, <2>2, FollowAssumption
  <2>4. c \in Owned(t) /\ c \notin Queued /\ ~Fresh(c)
    BY <1>3, <2>2, <2>3
  <2>5. ASSUME NEW g \in ToSet(queue'), g.id = c, g.mode = "slash" PROVE FALSE
    <3>1. g \notin ToSet(queue)
      BY <2>4, <2>5 DEF Queued, Ids
    <3>2. g \in F
      BY <2>5, <3>1
    <3>3. g = e
      BY <2>1, <3>2 DEF AsksFor
    <3>4. QED
      BY <2>4, <2>5, <3>3
  <2>6. ASSUME NEW u \in Slots, NEW g \in ToSet(turns'[u].entries), g.id = c PROVE FALSE
    <3>1. c \in Owned(u)'
      BY <2>6 DEF Owned, Ids
    <3>2. QED
      BY <1>1, <1>4, <2>4, <3>1
  <2>7. QED
    BY <2>4, <2>5, <2>6 DEF Pending
<1>8. FollowsAreFresh'
  <2>1. ASSUME NEW c \in Commands, Pending(c)' PROVE Pending(c) \/ (c \in Ids(N) /\ Fresh(c))
    <3>1. CASE \E e \in ToSet(queue') : e.id = c /\ e.mode = "slash"
      <4>1. PICK e \in ToSet(queue') : e.id = c /\ e.mode = "slash"
        BY <3>1
      <4>2. CASE e \in ToSet(queue)
        BY <4>1, <4>2 DEF Pending
      <4>3. CASE e \in N
        BY <1>2, <4>1, <4>3 DEF Ids
      <4>4. QED
        BY <4>2, <4>3
    <3>2. CASE \E u \in Slots : \E e \in ToSet(turns'[u].entries) : e.id = c /\ e.mode = "slash"
      <4>1. PICK u \in Slots : \E e \in ToSet(turns'[u].entries) : e.id = c /\ e.mode = "slash"
        BY <3>2
      <4>2. u # t /\ Like(u)
        BY <1>1, <4>1
      <4>3. QED
        BY <4>1, <4>2 DEF Pending, Like
    <3>3. QED
      BY <2>1, <3>1, <3>2 DEF Pending
  <2>2. QED
    BY <1>7, <2>1, FollowsStep DEF PlacesInv
<1>9. FreshIsNowhere'
  <2>1. ASSUME NEW c \in Commands \ Ids(N), Nowhere(c) PROVE Nowhere(c)'
    <3>1. seen'[c] = 0 /\ c \notin Queued'
      BY <1>6, <2>1 DEF Nowhere
    <3>2. \A u \in Slots : c \notin Owned(u)' /\ c \notin Ids(turns'[u].snap)
      BY <1>1, <2>1 DEF Nowhere
    <3>3. QED
      BY <3>1, <3>2 DEF Nowhere
  <2>2. QED
    BY <2>1, NowhereStep DEF PlacesInv
<1>10. OnePlace'
  <2>1. ASSUME NEW e \in N, NEW f \in N, e.id = f.id PROVE e = f
    <3>1. CASE e \in F /\ f \in F
      BY <3>1 DEF AsksFor
    <3>2. CASE e \notin F /\ f \notin F
      BY <2>1, <3>2
    <3>3. CASE e \in F /\ f \notin F
      BY <1>2, <1>3, <2>1, <3>3
    <3>4. CASE e \notin F /\ f \in F
      BY <1>2, <1>3, <2>1, <3>4
    <3>5. QED
      BY <3>1, <3>2, <3>3, <3>4
  <2>2. Ids(N) \cap Queued = {}
    BY <1>3, <1>5 DEF Nowhere
  <2>3. \A u \in Slots : Owned(u)' \subseteq Owned(u) /\ Ids(N) \cap Owned(u)' = {}
    BY <1>1, <1>4, <1>5 DEF Nowhere
  <2>4. QED
    BY <2>1, <2>2, <2>3, OnePlaceEnqueued DEF PlacesInv
<1>11. UnseenWait'
  <2>1. ASSUME NEW c \in Commands, Waits(c)' PROVE Waits(c) \/ Nowhere(c)
    <3>1. CASE c \in Queued'
      BY <1>5, <1>6, <3>1 DEF Waits
    <3>2. CASE \E u \in Slots : turns'[u].pc = "input" /\ c \in Owned(u)'
      <4>1. PICK u \in Slots : turns'[u].pc = "input" /\ c \in Owned(u)'
        BY <3>2
      <4>2. QED
        BY <1>1, <4>1 DEF Waits, Like
    <3>3. QED
      BY <2>1, <3>1, <3>2 DEF Waits
  <2>2. ASSUME NEW c \in Commands \ torn', seen'[c] # seen[c]
        PROVE  seen[c] = 0 /\ seen'[c] = 1 /\ ~Waits(c)'
    <3>1. turns[t].pc = "input" /\ c \in Owned(t) /\ seen'[c] = seen[c] + 1 /\ N \subseteq F
      BY <2>2
    <3>2. seen[c] = 0 /\ seen'[c] = 1
      BY <2>2, <3>1 DEF PlacesInv, UnseenWait, Waits
    <3>3. c \notin Queued'
      BY <1>2, <1>3, <1>6, <3>1 DEF Ids
    <3>4. \A u \in Slots : c \notin Owned(u)'
      BY <1>1, <1>4, <3>1
    <3>5. QED
      BY <3>2, <3>3, <3>4 DEF Waits
  <2>3. QED
    BY <2>1, <2>2, UnseenStep DEF PlacesInv
<1>12. ASSUME NEW u \in Slots, Free(u)', turns'[u].draining PROVE LeavesSnap(u, N)
  <2>1. u # t /\ Like(u) /\ Undrained(u)
    BY <1>12
  <2>2. Free(u) /\ turns[u].draining /\ turns'[u].snap = turns[u].snap
    BY <1>12, <2>1 DEF Free, Alive, Like, Undrained
  <2>3. ASSUME NEW e \in turns[u].snap
        PROVE  e.id \notin Ids(N) /\ (e.id \notin torn' => seen'[e.id] = seen[e.id])
    <3>1. turns[t].pc = "input" => e.id \notin Owned(t)
      BY <2>2 DEF PlacesInv, SnapsAreQueued, Snapped
    <3>2. e.id \in Ids(turns[u].snap) /\ e.id \in Commands
      BY TurnFields DEF Ids, EntryType, TurnInv
    <3>3. e.id \notin Ids(N)
      BY <1>5, <3>1, <3>2 DEF Nowhere
    <3>4. seen'[e.id] = seen[e.id]
      BY <3>1, <3>2
    <3>5. QED
      BY <3>3, <3>4
  <2>4. \A v \in Slots : turns'[v].pc = "input" => turns[v].pc = "input" /\ Owned(v)' \subseteq Owned(v)
    BY <1>1 DEF Like
  <2>5. QED
    BY <2>2, <2>3, <2>4 DEF LeavesSnap
<1>13. SnapsAreQueued'
  BY <1>12, SnapStep DEF PlacesInv
<1>14. QED
  BY <1>8, <1>9, <1>10, <1>11, <1>13 DEF PlacesInv

\* A command that arrives is known from then on.
LEMMA ArrivesKnown ==
  ASSUME NEW c \in Commands, ~Target(c), arrived' = arrived \cup {c}, times' = times
  PROVE  Known({c})
<1> SUFFICES ASSUME NEW d \in Commands PROVE Fresh(d)' <=> Fresh(d) /\ d \notin {c}
  BY DEF Known
<1>1. Target(d)' <=> Target(d)
  BY DEF Target
<1>2. CASE Target(d)
  BY <1>1, <1>2 DEF Fresh
<1>3. CASE ~Target(d)
  BY <1>1, <1>3 DEF Fresh
<1>4. QED
  BY <1>2, <1>3

\* A submitted command keeps where every command is.
LEMMA SubmitPlaces ==
  ASSUME TurnInv, PlacesInv, NEW c \in Commands, Submit(c)
  PROVE  PlacesInv'
<1>1. c \notin arrived /\ ~Target(c) /\ UNCHANGED <<seen, torn>> /\ TypeOK
  BY DEF Submit, UserCommands, Target, TurnInv
<1>2. Mode[c] \in Modes /\ Prio[c] \in 0..2
  BY CommandsAssumption
<1>3. CASE /\ Enqueue(<<Entry(c, Mode[c], Prio[c])>>)
           /\ InterruptOnSubmit \/ UNCHANGED turns
           /\ UNCHANGED <<guardVars, controller, holder>>
  <2>1. \A t \in Slots : Like(t) /\ Undrained(t)
    <3>1. CASE InterruptOnSubmit
      <4>1. Abort /\ controller \in Slots
        BY <1>1, <3>1, Types DEF InterruptOnSubmit
      <4>2. generation' \in Nat /\ generation <= generation'
        BY <1>1, <1>3, Types DEF guardVars
      <4>3. QED
        BY <1>1, <4>1, <4>2, AbortFields
    <3>2. CASE UNCHANGED turns
      BY <3>2 DEF Like, Undrained
    <3>3. QED
      BY <1>3, <3>1, <3>2
  <2>2. QED
    BY <1>1, <1>2, <1>3, <2>1, SubmitPutsIt
<1>4. CASE /\ ~Active /\ FreeSlots # {}
           /\ Execute(Min(FreeSlots), <<Entry(c, Mode[c], Prio[c])>>)
           /\ arrived' = arrived \cup {c} /\ UNCHANGED <<queue, times>>
  <2>1. PICK e \in EntryType : e = Entry(c, Mode[c], Prio[c]) /\ e.id = c
    BY <1>1, <1>2, EntryIsEntry
  <2>2. PICK es \in Seq(EntryType) : es = <<e>> /\ ToSet(es) = {e}
    BY OneEntry
  <2>3. Ids(ToSet(es)) = {c} /\ \A f \in ToSet(es) : f.id = c
    BY <2>1, <2>2 DEF Ids
  <2>4. Execute(Min(FreeSlots), es)
    BY <1>4, <2>1, <2>2
  <2>5. Known({c})
    BY <1>1, <1>4, ArrivesKnown
  <2>6. Fresh(c) /\ Nowhere(c)
    BY <1>1 DEF Fresh, PlacesInv, FreshIsNowhere
  <2>7. \A f \in ToSet(es) : (Fresh(f.id) /\ f.id \in {c}) \/ f \in ToSet(queue)
    BY <2>3, <2>6
  <2>8. ToSet(queue') \subseteq ToSet(queue) /\ Ids(ToSet(es)) \cap Queued' = {}
    BY <1>4, <2>3, <2>6 DEF Nowhere, Queued
  <2>9. \A x \in {c} : ~Target(x)
    BY <1>1
  <2>10. QED
    BY <1>1, <1>4, <2>4, <2>5, <2>7, <2>8, <2>9, ExecutePlaces
<1>5. QED
  BY <1>3, <1>4 DEF Submit

\* A note keeps where every command is.
LEMMA NotifyPlaces ==
  ASSUME TurnInv, PlacesInv, NEW c \in Commands, Notify(c)
  PROVE  PlacesInv'
<1>1. c \notin arrived /\ ~Target(c) /\ "note" \in Modes /\ Prio[c] \in 0..2
  BY FollowAssumption, CommandsAssumption DEF Notify, Notes, Target, Modes
<1>2. Enqueue(<<Entry(c, "note", Prio[c])>>) /\ UNCHANGED <<seen, torn, turns>>
  BY DEF Notify
<1>3. \A t \in Slots : Like(t) /\ Undrained(t)
  BY <1>2 DEF Like, Undrained
<1>4. QED
  BY <1>1, <1>2, <1>3, SubmitPutsIt

\* Killing the agents keeps where every command is.
LEMMA KillAgentsPlaces == TurnInv /\ PlacesInv /\ KillAgents => PlacesInv'
<1> SUFFICES ASSUME TurnInv, PlacesInv, KillAgents PROVE PlacesInv'
  OBVIOUS
<1>1. UNCHANGED <<seen, torn, turns>> /\ TypeOK
  BY DEF KillAgents, TurnInv
<1>2. PICK note \in {<<>>} \cup {<<Entry(c, "note", 2)>> : c \in Notes \ (arrived \cup ForSubagent)} :
        /\ queue' = note
        /\ times' = [c \in Commands |-> IF c \in Ids(ToSet(note)) THEN times[c] + 1 ELSE times[c]]
        /\ arrived' = arrived \cup Ids(ToSet(note))
  BY DEF KillAgents
<1>3. PICK N \in SUBSET EntryType : /\ N = ToSet(note) /\ \A e, f \in N : e = f
                                    /\ \A e \in N : Fresh(e.id) /\ ~Target(e.id)
  <2>1. CASE note = <<>>
    BY <2>1, NoEntry
  <2>2. CASE note # <<>>
    <3>1. PICK c \in Notes \ arrived : note = <<Entry(c, "note", 2)>>
      BY <1>2, <2>2
    <3>2. c \in Commands /\ "note" \in Modes /\ 2 \in 0..2 /\ ~Target(c)
      BY FollowAssumption DEF Notes, Modes, Target
    <3>3. PICK e \in EntryType : e = Entry(c, "note", 2) /\ e.id = c
      BY <1>1, <3>2, EntryIsEntry
    <3>4. ToSet(note) = {e}
      BY <3>1, <3>3, OneEntry
    <3>5. QED
      BY <3>2, <3>3, <3>4 DEF Fresh
  <2>3. QED
    BY <2>1, <2>2
<1>4. \A t \in Slots : Like(t) /\ Undrained(t)
  BY <1>1 DEF Like, Undrained
<1>5. QED
  BY <1>1, <1>2, <1>3, <1>4, PutPlaces

\* The queue processor keeps where every command is.
LEMMA ProcessQueuePlaces == TurnInv /\ PlacesInv /\ ProcessQueue => PlacesInv'
<1> SUFFICES ASSUME TurnInv, PlacesInv, ProcessQueue PROVE PlacesInv'
  OBVIOUS
<1>1. PICK es \in Seq(EntryType) : es = Taken(queue) /\ ToSet(es) \subseteq ToSet(queue)
  BY Types, TakenIsQueued DEF TurnInv
<1>2. /\ ~Active /\ FreeSlots # {} /\ Execute(Min(FreeSlots), es)
      /\ queue' = Without(queue, ToSet(es))
      /\ UNCHANGED <<arrived, times>> /\ UNCHANGED <<seen, torn>> /\ TypeOK
  BY <1>1 DEF ProcessQueue, commandVars, TurnInv
<1>3. ToSet(queue') = ToSet(queue) \ ToSet(es)
  BY <1>2, Types, WithoutSet
<1>4. Ids(ToSet(es)) \cap Queued' = {}
  BY <1>1, <1>3 DEF Ids, Queued, PlacesInv, OnePlace
<1>5. Known({})
  BY <1>2, UnchangedKnown
<1>6. ToSet(queue') \subseteq ToSet(queue) /\ (\A x \in {} : ~Target(x))
      /\ \A e \in ToSet(es) : (Fresh(e.id) /\ e.id \in {}) \/ e \in ToSet(queue)
  BY <1>1, <1>3
<1>7. QED
  BY <1>2, <1>4, <1>5, <1>6, ExecutePlaces

\* A teammate's message keeps where every command is.
LEMMA IncomingPlaces ==
  ASSUME TurnInv, PlacesInv, NEW c \in Commands, Incoming(c)
  PROVE  PlacesInv'
<1>1. /\ c \notin arrived /\ ~Target(c) /\ ~Active /\ arrived' = arrived \cup {c}
      /\ See({c}) /\ UNCHANGED <<queue, times, torn>> /\ TypeOK
  BY FollowAssumption DEF Incoming, Target, TurnInv
<1>2. PICK t \in Slots : turns' = [turns EXCEPT ![t] = [Over EXCEPT !.pc = "query", !.gen = generation + 1]]
  <2>1. FreeSlots \in SUBSET Nat /\ FreeSlots # {}
    BY DEF FreeSlots, Slots, Incoming
  <2>2. QED
    BY <2>1, MinIsIn DEF FreeSlots, Incoming
<1>3. PICK g \in Nat : g = generation + 1
  BY <1>1, Types
<1>4. PICK new : new = [Over EXCEPT !.pc = "query", !.gen = g]
  OBVIOUS
<1>5. /\ new.pc = "query" /\ new.entries = <<>> /\ new.snap = {}
      /\ ~new.draining
  BY <1>4, TeammateFields
<1>6. turns'[t] = new /\ \A u \in Slots \ {t} : turns'[u] = turns[u]
  <2>1. turns \in [Slots -> TurnType]
    BY <1>1, Types DEF TurnsOK
  <2>2. QED
    BY <1>2, <1>3, <1>4, <2>1
<1>7. /\ Owned(t)' = {} /\ ToSet(turns'[t].entries) = {} /\ Ids(turns'[t].snap) = {}
      /\ \A u \in Slots \ {t} : Owned(u)' = Owned(u)
  BY <1>5, <1>6, NoEntry DEF Owned, Ids
<1>8. Known({c}) /\ Nowhere(c)
  BY <1>1, ArrivesKnown DEF Fresh, PlacesInv, FreshIsNowhere
<1>9. \A d \in Commands : seen'[d] = IF d \in {c} THEN seen[d] + 1 ELSE seen[d]
  BY <1>1, SeeFields
<1>10. Queued' = Queued
  BY <1>1 DEF Queued
<1>11. FollowsAreFresh'
  <2>1. AskedBefore({c})
    BY <1>1 DEF AskedBefore, Target
  <2>2. \A d \in Commands : Pending(d)' => Pending(d)
    BY <1>1, <1>6, <1>7 DEF Pending
  <2>3. QED
    BY <1>8, <2>1, <2>2, FollowsStep DEF PlacesInv
<1>12. FreshIsNowhere'
  <2>1. \A d \in Commands \ {c} : Nowhere(d) => Nowhere(d)'
    BY <1>6, <1>7, <1>9, <1>10 DEF Nowhere
  <2>2. QED
    BY <1>8, <2>1, NowhereStep DEF PlacesInv
<1>13. OnePlace'
  <2>1. Ids({}) \cap Queued = {} /\ \A u \in Slots : Owned(u)' \subseteq Owned(u) /\ Ids({}) \cap Owned(u)' = {}
    BY <1>7 DEF Ids
  <2>2. QED
    BY <1>1, <2>1, OnePlaceEnqueued DEF PlacesInv
<1>14. UnseenWait'
  <2>1. \A d \in Commands : Waits(d)' => Waits(d)
    BY <1>5, <1>6, <1>7, <1>10 DEF Waits
  <2>2. ~Waits(c)'
    BY <1>8, <2>1 DEF Waits, Nowhere
  <2>3. seen[c] = 0 /\ seen'[c] = 1
    BY <1>8, <1>9 DEF Nowhere
  <2>4. \A d \in Commands \ torn' : seen'[d] = seen[d] \/ (seen[d] = 0 /\ seen'[d] = 1 /\ ~Waits(d)')
    BY <1>9, <2>2, <2>3
  <2>5. QED
    BY <1>1, <2>1, <2>4, UnseenStep DEF PlacesInv
<1>15. SnapsAreQueued'
  <2>1. \A u \in Slots : ~Free(u)
    BY <1>1, IdleIsFree DEF TurnInv
  <2>2. \A u \in Slots : ~(Free(u)' /\ turns'[u].draining)
    BY <1>5, <1>6, <2>1 DEF Free, Alive
  <2>3. QED
    BY <2>2 DEF SnapsAreQueued
<1>16. QED
  BY <1>11, <1>12, <1>13, <1>14, <1>15 DEF PlacesInv

(* A turn that returned has nothing left. *)
Empty(t) ==
  /\ turns'[t].pc = "over" /\ turns'[t].entries = <<>> /\ turns'[t].snap = {}
  /\ ~turns'[t].draining

\* A turn that returns has nothing left, and the others keep what they have.
LEMMA ReturnClears ==
  ASSUME TypeOK, NEW t \in Slots, Return(t), generation' \in Nat, generation <= generation'
  PROVE  Empty(t) /\ \A u \in Slots \ {t} : Like(u) /\ Undrained(u)
<1>1. turns[t].aborted \in BOOLEAN
  BY TurnFields DEF TurnType
<1>2. PICK b \in BOOLEAN : b = turns[t].aborted
  BY <1>1, Zenon
<1>3. PICK new : new = [Over EXCEPT !.aborted = b]
  OBVIOUS
<1>4. /\ new \in TurnType /\ new.pc = "over" /\ new.gen = 0 /\ new.entries = <<>> /\ new.snap = {}
      /\ ~new.draining
  BY <1>3, OverFields
<1>5. new = [Over EXCEPT !.aborted = turns[t].aborted]
  BY <1>2, <1>3, Zenon
<1>6. Change(t, new)
  BY <1>5, Zenon DEF Return
<1>7. turns'[t] = new
  BY <1>4, <1>6, ChangeFields
<1>8. \A u \in Slots \ {t} : Like(u) /\ Undrained(u)
  BY <1>4, <1>6, ChangeFields
<1>9. QED
  BY <1>4, <1>7, <1>8 DEF Empty

\* A turn whose input throws keeps where every command is.
LEMMA InputFailsPlaces ==
  ASSUME TurnInv, PlacesInv, NEW t \in Slots, InputFails(t)
  PROVE  PlacesInv'
<1>1. /\ Return(t) /\ UNCHANGED <<queue, arrived, times, seen, torn>> /\ TypeOK
      /\ generation' = generation
  BY DEF InputFails, CancelReservation, TurnInv
<1>2. Empty(t) /\ \A u \in Slots \ {t} : Like(u) /\ Undrained(u)
  BY <1>1, Types, ReturnClears
<1>3. Known(Ids({})) /\ AsksFor(t, {})
  <2>1. Ids({}) = {}
    BY DEF Ids
  <2>2. QED
    BY <1>1, <2>1, UnchangedKnown DEF AsksFor
<1>4. QED
  BY <1>1, <1>2, <1>3, ReturnPlaces DEF Empty

(* A turn returns with what it asks for queued, and its entries are handled *)
(* if they were at its input.                                              *)
LEMMA AskedPlaces ==
  ASSUME TurnInv, PlacesInv, NEW t \in Slots, Empty(t),
         \A u \in Slots \ {t} : Like(u) /\ Undrained(u), Enqueue(FollowUp(t)), torn' = torn,
         \/ seen' = seen
         \/ turns[t].pc = "input" /\ See(Ids(ToSet(turns[t].entries)))
  PROVE  PlacesInv'
<1>1. TypeOK
  BY DEF TurnInv
<1>2. PICK es \in Seq(EntryType) : es = FollowUp(t)
  BY <1>1, FollowUpType
<1>3. PICK F \in SUBSET EntryType : F = ToSet(es) /\ AsksFor(t, F)
  BY <1>1, <1>2, FollowUpAsks
<1>4. ToSet(queue') = ToSet(queue) \cup F
  BY <1>1, <1>2, <1>3, EnqueueFields
<1>5. Known(Ids(F))
  BY <1>1, <1>2, <1>3, EnqueuedKnown DEF Enqueue
<1>6. \A c \in Commands : \/ seen'[c] = seen[c]
                          \/ /\ turns[t].pc = "input" /\ c \in Owned(t)
                             /\ seen'[c] = seen[c] + 1 /\ F \subseteq F
  <2>1. CASE seen' = seen
    BY <2>1
  <2>2. CASE turns[t].pc = "input" /\ See(Ids(ToSet(turns[t].entries)))
    BY <1>1, <2>2, SeeFields DEF Owned
  <2>3. QED
    BY <2>1, <2>2
<1>7. QED
  BY <1>3, <1>4, <1>5, <1>6, ReturnPlaces DEF Empty

\* A turn without a query keeps where every command is.
LEMMA InputIsLocalPlaces ==
  ASSUME TurnInv, PlacesInv, NEW t \in Slots, InputIsLocal(t)
  PROVE  PlacesInv'
<1>1. /\ Return(t) /\ turns[t].pc = "input" /\ See(Ids(ToSet(turns[t].entries)))
      /\ Enqueue(FollowUp(t)) /\ torn' = torn /\ TypeOK /\ generation' = generation
  BY DEF InputIsLocal, CancelReservation, TurnInv
<1>2. Empty(t) /\ \A u \in Slots \ {t} : Like(u) /\ Undrained(u)
  BY <1>1, Types, ReturnClears
<1>3. QED
  BY <1>1, <1>2, AskedPlaces

\* A turn whose messages are only shown keeps where every command is.
LEMMA InputIsShownPlaces ==
  ASSUME TurnInv, PlacesInv, NEW t \in Slots, InputIsShown(t)
  PROVE  PlacesInv'
<1>1. /\ Return(t) /\ turns[t].pc = "input" /\ See(Ids(ToSet(turns[t].entries)))
      /\ Enqueue(FollowUp(t)) /\ torn' = torn /\ TypeOK
      /\ generation' \in Nat /\ generation <= generation'
  BY Types DEF InputIsShown, TurnInv
<1>2. Empty(t) /\ \A u \in Slots \ {t} : Like(u) /\ Undrained(u)
  BY <1>1, ReturnClears
<1>3. QED
  BY <1>1, <1>2, AskedPlaces

\* A query that ends keeps where every command is.
LEMMA FinishQueryPlaces ==
  ASSUME TurnInv, PlacesInv, NEW t \in Slots, FinishQuery(t)
  PROVE  PlacesInv'
<1>1. Enqueue(FollowUp(t)) /\ torn' = torn /\ seen' = seen /\ TypeOK
  BY DEF FinishQuery, TurnInv
<1>2. generation' \in Nat /\ generation <= generation'
  BY <1>1, Types DEF FinishQuery, End, EndAndRelease
<1>3. Empty(t) /\ \A u \in Slots \ {t} : Like(u) /\ Undrained(u)
  <2>1. CASE turns[t].entries = <<>>
    <3>1. turns' = [turns EXCEPT ![t] = [Over EXCEPT !.aborted = turns[t].aborted]]
      BY <2>1 DEF FinishQuery
    <3>2. turns[t].aborted \in BOOLEAN
      BY <1>1, TurnFields DEF TurnType
    <3>3. PICK b \in BOOLEAN : b = turns[t].aborted
      BY <3>2, Zenon
    <3>4. PICK new : new = [Over EXCEPT !.aborted = b]
      OBVIOUS
    <3>5. /\ new.pc = "over" /\ new.entries = <<>> /\ new.snap = {}
          /\ ~new.draining
      BY <3>4, OverFields
    <3>6. turns' = [turns EXCEPT ![t] = new]
      BY <3>1, <3>3, <3>4, Zenon
    <3>7. turns \in [Slots -> TurnType]
      BY <1>1, Types DEF TurnsOK
    <3>8. turns'[t] = new /\ \A u \in Slots \ {t} : turns'[u] = turns[u]
      BY <3>6, <3>7
    <3>9. QED
      BY <3>5, <3>8 DEF Empty, Like, Undrained
  <2>2. CASE turns[t].entries # <<>>
    <3>1. Return(t)
      BY <2>2 DEF FinishQuery
    <3>2. QED
      BY <1>1, <1>2, <3>1, ReturnClears
  <2>3. QED
    BY <2>1, <2>2
<1>4. QED
  BY <1>1, <1>3, AskedPlaces

\* What a refused turn puts back are its commands, once each, as prompts.
LEMMA AgainPrompts ==
  ASSUME TypeOK, NEW t \in Slots, NEW N, N = ToSet(Again(t))
  PROVE  /\ \A e \in N : e.id \in Owned(t) /\ e.mode = "prompt"
         /\ \A e, f \in N : e.id = f.id => e = f
<1>1. PICK s \in Seq(EntryType) : s = turns[t].entries
  BY TurnFields
<1>2. DOMAIN s = 1..Len(s) /\ \A i \in 1..Len(s) : s[i] \in EntryType
  BY ElementOfSeq, LenProperties
<1>3. /\ "prompt" \in Modes /\ 1 \in 0..2
      /\ \A i \in 1..Len(s) : s[i].id \in Commands
  BY <1>2 DEF Modes, EntryType
<1>4. N = {Entry(s[i].id, "prompt", 1) : i \in 1..Len(s)}
  BY <1>1, <1>2 DEF Again, ToSet
<1>5. \A i \in 1..Len(s) : /\ Entry(s[i].id, "prompt", 1).id = s[i].id
                           /\ Entry(s[i].id, "prompt", 1).mode = "prompt"
  BY <1>3, EntryIsEntry
<1>6. \A i \in 1..Len(s) : s[i].id \in Owned(t)
  BY <1>1, <1>2 DEF Owned, Ids, ToSet
<1>7. QED
  BY <1>4, <1>5, <1>6

\* A turn that finds another query running keeps where every command is.
LEMMA InputIsRequeuedPlaces ==
  ASSUME TurnInv, PlacesInv, NEW t \in Slots, InputIsRequeued(t)
  PROVE  PlacesInv'
<1>1. /\ turns[t].pc = "input" /\ Return(t) /\ Enqueue(Again(t) \o FollowUp(t))
      /\ UNCHANGED <<generation, seen, torn>> /\ TypeOK
  BY DEF InputIsRequeued, guardVars, Again, TurnInv
<1>2. Empty(t) /\ \A u \in Slots \ {t} : Like(u) /\ Undrained(u)
  BY <1>1, Types, ReturnClears
<1>3. PICK as, fs \in Seq(EntryType) : as = Again(t) /\ fs = FollowUp(t)
  BY <1>1, AgainType, FollowUpType
<1>4. PICK A, F \in SUBSET EntryType : A = ToSet(as) /\ F = ToSet(fs) /\ AsksFor(t, F)
  BY <1>1, <1>3, FollowUpAsks, SetOfEntries
<1>5. PICK es \in Seq(EntryType) : es = Again(t) \o FollowUp(t) /\ ToSet(es) = A \cup F
  BY <1>3, <1>4, ConcatSet
<1>6. ToSet(queue') = ToSet(queue) \cup (A \cup F)
  BY <1>1, <1>5, EnqueueFields
<1>7. Known(Ids(A \cup F))
  BY <1>1, <1>5, EnqueuedKnown DEF Enqueue
<1>8. /\ \A e \in A : e.id \in Owned(t) /\ e.mode = "prompt"
      /\ \A e, f \in A : e.id = f.id => e = f
  BY <1>1, <1>3, <1>4, AgainPrompts
<1>9. PICK N \in SUBSET EntryType : N = A \cup F
  OBVIOUS
<1>10. /\ Known(Ids(N)) /\ ToSet(queue') \subseteq ToSet(queue) \cup N
       /\ \A e \in N : \/ e \in F
                       \/ turns[t].pc = "input" /\ e.id \in Owned(t) /\ e.mode = "prompt"
       /\ \A e, f \in N \ F : e.id = f.id => e = f
       /\ \A c \in Commands : \/ seen'[c] = seen[c]
                              \/ /\ turns[t].pc = "input" /\ c \in Owned(t)
                                 /\ seen'[c] = seen[c] + 1 /\ N \subseteq F
  BY <1>1, <1>6, <1>7, <1>8, <1>9
<1>11. QED
  BY <1>1, <1>2, <1>4, <1>10, ReturnPlaces DEF Empty

\* A turn that starts its query keeps where every command is.
LEMMA StartQueryPlaces ==
  ASSUME TurnInv, PlacesInv, NEW t \in Slots, StartQuery(t)
  PROVE  PlacesInv'
<1>1. /\ turns[t].pc = "input" /\ See(Ids(ToSet(turns[t].entries)))
      /\ Change(t, [turns[t] EXCEPT !.pc = "query", !.gen = generation + 1])
      /\ UNCHANGED <<queue, arrived, times, torn>>
      /\ status # "running" /\ generation' = generation + 1
      /\ TypeOK /\ generation \in Nat
  BY Types DEF StartQuery, TryStart, CanStart, TurnInv
<1>2. PICK r \in TurnType : r = turns[t]
  BY <1>1, TurnFields
<1>3. PICK g \in Nat : g = generation + 1
  BY <1>1
<1>4. PICK new : new = [r EXCEPT !.pc = "query", !.gen = g]
  OBVIOUS
<1>5. new \in TurnType /\ new.pc = "query" /\ new.gen = g /\ new.entries = r.entries /\ new.snap = r.snap
  <2>1. new \in TurnType /\ new.pc = "query" /\ new.gen = g
    BY <1>4, QueryFields
  <2>2. new.entries = r.entries /\ new.snap = r.snap
    BY <1>2, <1>4 DEF TurnType
  <2>3. QED
    BY <2>1, <2>2
<1>6. new.draining = r.draining
  BY <1>2, <1>4 DEF TurnType
<1>7. Change(t, new)
  BY <1>1, <1>2, <1>3, <1>4
<1>8. turns'[t] = new
  BY <1>1, <1>3, <1>5, <1>7, ChangeFields
<1>9. \A u \in Slots \ {t} : Like(u) /\ Undrained(u)
  BY <1>1, <1>3, <1>5, <1>7, ChangeFields
<1>10. /\ \A u \in Slots : turns'[u].entries = turns[u].entries /\ turns'[u].snap = turns[u].snap
       /\ \A u \in Slots : Owned(u)' = Owned(u)
  BY <1>2, <1>5, <1>8, <1>9 DEF Like, Undrained, Owned
<1>11. /\ Known({}) /\ AskedBefore({}) /\ Queued' = Queued
       /\ \A c \in Commands : seen'[c] = IF c \in Owned(t) THEN seen[c] + 1 ELSE seen[c]
  BY <1>1, UnchangedKnown, SeeFields DEF AskedBefore, Queued, Owned
<1>12. FollowsAreFresh'
  <2>1. \A c \in Commands : Pending(c)' => Pending(c)
    BY <1>1, <1>10 DEF Pending
  <2>2. QED
    BY <1>11, <2>1, FollowsStep DEF PlacesInv
<1>13. FreshIsNowhere'
  <2>1. \A c \in Commands : Nowhere(c) => Nowhere(c)'
    BY <1>10, <1>11 DEF Nowhere
  <2>2. QED
    BY <1>11, <2>1, NowhereStep DEF PlacesInv
<1>14. OnePlace'
  <2>1. Ids({}) \cap Queued = {} /\ \A u \in Slots : Owned(u)' \subseteq Owned(u) /\ Ids({}) \cap Owned(u)' = {}
    BY <1>10 DEF Ids
  <2>2. QED
    BY <1>1, <2>1, OnePlaceEnqueued DEF PlacesInv
<1>15. UnseenWait'
  <2>1. \A c \in Commands : Waits(c)' => Waits(c)
    BY <1>1, <1>9, <1>10, <1>11 DEF Waits, Like
  <2>2. ASSUME NEW c \in Commands \ torn', seen'[c] # seen[c]
        PROVE  seen[c] = 0 /\ seen'[c] = 1 /\ ~Waits(c)'
    <3>1. c \in Owned(t) /\ seen'[c] = seen[c] + 1
      BY <1>11, <2>2
    <3>2. seen[c] = 0
      BY <1>1, <2>2, <3>1 DEF PlacesInv, UnseenWait, Waits
    <3>3. c \notin Queued' /\ \A u \in Slots \ {t} : c \notin Owned(u)'
      BY <1>10, <1>11, <3>1 DEF PlacesInv, OnePlace
    <3>4. QED
      BY <1>5, <1>8, <3>1, <3>2, <3>3 DEF Waits
  <2>3. QED
    BY <1>1, <2>1, <2>2, UnseenStep DEF PlacesInv
<1>16. SnapsAreQueued'
  <2>1. \A u \in Slots : ~(Free(u) /\ turns[u].draining)
    BY <1>1, FreeIsOne
  <2>2. ~turns'[t].draining
    BY <1>1, <1>2, <1>6, <1>8, TurnFields
  <2>3. \A u \in Slots \ {t} : ~(Free(u)' /\ turns'[u].draining)
    BY <1>9, <2>1 DEF Free, Alive, Like, Undrained
  <2>4. QED
    BY <2>2, <2>3 DEF SnapsAreQueued
<1>17. QED
  BY <1>12, <1>13, <1>14, <1>15, <1>16 DEF PlacesInv

\* A query that reads the queue keeps where every command is.
LEMMA DrainStartPlaces ==
  ASSUME TurnInv, PlacesInv, NEW t \in Slots, DrainStart(t)
  PROVE  PlacesInv'
<1>1. UNCHANGED <<queue, arrived, times, seen, torn>> /\ TypeOK
  BY DEF DrainStart, commandVars, TurnInv
<1>2. turns \in [Slots -> TurnType]
  BY <1>1, Types DEF TurnsOK
<1>3. PICK limit \in {1, 2} :
        turns' = [turns EXCEPT ![t].draining = TRUE, ![t].snap = Drainable(queue, limit)]
  BY DEF DrainStart
<1>4. PICK S : S = Drainable(queue, limit) /\ S \subseteq ToSet(queue) /\ \A e \in S : Main(e)
  <2>1. \A e \in Drainable(queue, limit) : e \in ToSet(queue) /\ Main(e)
    BY Zenon DEF Drainable
  <2>2. QED
    BY <2>1
<1>5. turns'[t].snap = S /\ Like(t) /\ \A u \in Slots \ {t} : Like(u) /\ Undrained(u)
  <2>1. PICK r \in TurnType : r = turns[t]
    BY <1>2
  <2>2. PICK new : new = [r EXCEPT !.draining = TRUE, !.snap = S]
    OBVIOUS
  <2>3. turns' = [turns EXCEPT ![t] = new]
    BY <1>2, <1>3, <1>4, <2>1, <2>2
  <2>4. turns'[t] = new /\ \A u \in Slots \ {t} : turns'[u] = turns[u]
    BY <1>2, <2>3
  <2>5. new.pc = r.pc /\ new.gen = r.gen /\ new.entries = r.entries /\ new.snap = S
    BY <2>1, <2>2 DEF TurnType
  <2>6. new.aborted = r.aborted
    BY <2>1, <2>2 DEF TurnType
  <2>7. new.robbed = r.robbed
    BY <2>1, <2>2 DEF TurnType
  <2>8. new.left = r.left
    BY <2>1, <2>2 DEF TurnType
  <2>9. Like(t)
    BY <2>1, <2>4, <2>5, <2>6, <2>7, <2>8 DEF Like
  <2>10. QED
    BY <2>4, <2>5, <2>9 DEF Like, Undrained
<1>6. FreshIsNowhere' /\ FollowsAreFresh' /\ OnePlace' /\ UnseenWait'
  <2>1. \A u \in Slots : Ids(turns'[u].snap) \subseteq Ids(turns[u].snap) \cup Queued
    BY <1>4, <1>5 DEF Ids, Queued, Undrained
  <2>2. \A u \in Slots : Like(u)
    BY <1>5
  <2>3. \A c \in Commands : Nowhere(c) => seen'[c] = 0
    BY <1>1 DEF Nowhere
  <2>4. QED
    BY <1>1, <2>1, <2>2, <2>3, TakenPlaces DEF PlacesInv
<1>7. SnapsAreQueued'
  <2> SUFFICES ASSUME NEW u \in Slots, Free(u)', turns'[u].draining, NEW e \in turns'[u].snap
               PROVE  Snapped(u, e)'
    BY DEF SnapsAreQueued
  <2>1. \A v \in Slots : turns'[v].pc = turns[v].pc /\ Owned(v)' = Owned(v)
    BY <1>5 DEF Like, Owned
  <2>2. Queued' = Queued
    BY <1>1 DEF Queued
  <2>3. CASE u = t
    <3>1. e \in ToSet(queue) /\ Main(e) /\ e.id \in Queued /\ e.id \in Commands
      BY <1>1, <1>4, <1>5, <2>3, Types, SetOfEntries DEF Ids, Queued, EntryType
    <3>2. \A v \in Slots : e.id \notin Owned(v)
      BY <3>1 DEF PlacesInv, OnePlace
    <3>3. e.id \notin torn => seen[e.id] = 0
      BY <3>1 DEF PlacesInv, UnseenWait, Waits
    <3>4. QED
      BY <1>1, <2>1, <3>1, <3>2, <3>3 DEF Snapped
  <2>4. CASE u # t
    <3>1. Free(u) /\ turns[u].draining /\ e \in turns[u].snap
      BY <1>5, <2>4 DEF Free, Alive, Like, Undrained
    <3>2. Snapped(u, e)
      BY <3>1 DEF PlacesInv, SnapsAreQueued
    <3>3. QED
      BY <1>1, <2>1, <2>2, <3>2 DEF Snapped
  <2>5. QED
    BY <2>3, <2>4
<1>8. QED
  BY <1>6, <1>7 DEF PlacesInv

\* A query that attaches what it read keeps where every command is.
LEMMA DrainEndPlaces ==
  ASSUME TurnInv, PlacesInv, NEW t \in Slots, DrainEnd(t)
  PROVE  PlacesInv'
<1>1. PICK S : S = Attachable(turns[t].snap) /\ S \subseteq turns[t].snap
  BY DEF Attachable
<1>2. /\ turns[t].draining /\ See(Ids(S)) /\ queue' = Without(queue, S)
      /\ torn' = IF Interrupted(t) \/ Bereft(t) THEN torn \cup Ids(S) ELSE torn
      /\ turns' = [turns EXCEPT ![t].draining = FALSE]
      /\ UNCHANGED <<arrived, times>> /\ TypeOK
  BY <1>1 DEF DrainEnd, TurnInv
<1>3. turns \in [Slots -> TurnType]
  BY <1>2, Types DEF TurnsOK
<1>4. /\ \A u \in Slots : Like(u) /\ turns'[u].snap = turns[u].snap
      /\ ~turns'[t].draining
      /\ \A u \in Slots \ {t} : Undrained(u)
  BY <1>2, <1>3 DEF TurnType, Like, Undrained
<1>5. \A u \in Slots : turns'[u].draining => turns[u].draining
  BY <1>4 DEF Undrained
<1>6. ToSet(queue') = ToSet(queue) \ S
  BY <1>2, Types, WithoutSet
<1>7. \A c \in Commands : seen'[c] = IF c \in Ids(S) THEN seen[c] + 1 ELSE seen[c]
  BY <1>2, SeeFields
<1>8. Ids(S) \subseteq Ids(turns[t].snap)
  BY <1>1 DEF Ids
<1>9. ASSUME NEW c \in Ids(S), c \notin torn' PROVE Free(t)
  <2>1. ~Interrupted(t) /\ ~Bereft(t)
    BY <1>2, <1>9
  <2>2. turns[t].pc = "query"
    BY <1>2, TurnFields
  <2>3. QED
    BY <2>1, <2>2 DEF Free, Alive, Interrupted, Bereft
<1>10. \A c \in Commands : Nowhere(c) => seen'[c] = 0
  BY <1>7, <1>8 DEF Nowhere
<1>11. ASSUME NEW c \in Commands \ torn', seen'[c] # seen[c]
       PROVE  seen[c] = 0 /\ seen'[c] = 1 /\ ~Waits(c)'
  <2>1. c \in Ids(S) /\ seen'[c] = seen[c] + 1
    BY <1>7, <1>11
  <2>2. PICK e \in S : e.id = c
    BY <2>1 DEF Ids
  <2>3. Snapped(t, e)
    BY <1>1, <1>2, <1>9, <1>11, <2>1 DEF PlacesInv, SnapsAreQueued
  <2>4. c \notin torn
    BY <1>2, <1>11
  <2>5. seen[c] = 0 /\ seen'[c] = 1
    BY <2>1, <2>2, <2>3, <2>4 DEF Snapped
  <2>6. c \notin Queued'
    <3>1. SUFFICES ASSUME NEW f \in ToSet(queue'), f.id = c PROVE FALSE
      BY DEF Queued, Ids
    <3>2. f \in ToSet(queue) /\ f \notin S
      BY <1>6
    <3>3. c \in Queued
      BY <3>1, <3>2 DEF Queued, Ids
    <3>4. e \in ToSet(queue)
      BY <2>2, <2>3, <3>3 DEF Snapped
    <3>5. f = e
      BY <2>2, <3>1, <3>2, <3>4 DEF PlacesInv, OnePlace
    <3>6. QED
      BY <3>2, <3>5
  <2>7. \A u \in Slots : turns'[u].pc = "input" => c \notin Owned(u)'
    BY <1>4, <2>2, <2>3 DEF Snapped, Like, Owned
  <2>8. QED
    BY <2>5, <2>6, <2>7 DEF Waits
<1>12. ASSUME NEW u \in Slots, Free(u)', turns'[u].draining, NEW e \in turns[u].snap, e.id \notin torn'
       PROVE  seen'[e.id] = seen[e.id]
  <2>1. u # t
    BY <1>4, <1>12
  <2>2. Free(u)
    BY <1>4, <1>12 DEF Free, Alive, Like
  <2>3. e.id \notin Ids(S)
    BY <1>9, <1>12, <2>1, <2>2, FreeIsOne
  <2>4. e.id \in Commands
    BY <1>2, TurnFields DEF EntryType
  <2>5. QED
    BY <1>7, <2>3, <2>4
<1>13. torn \subseteq torn' /\ ToSet(queue') \subseteq ToSet(queue)
  BY <1>2, <1>6
<1>14. \A u \in Slots : Free(u)' /\ turns'[u].draining =>
         \A e \in turns[u].snap : e.id \notin torn' => seen'[e.id] = seen[e.id]
  BY <1>12
<1>15. \A c \in Commands \ torn' : seen'[c] = seen[c] \/ (seen[c] = 0 /\ seen'[c] = 1 /\ ~Waits(c)')
  BY <1>11
<1>16. QED
  BY <1>2, <1>4, <1>5, <1>10, <1>13, <1>14, <1>15, TakenKeeps

(* Entries leave the queue unseen, or nothing does. *)
LEMMA QuietPlaces ==
  ASSUME PlacesInv, ToSet(queue') \subseteq ToSet(queue), UNCHANGED <<arrived, times, seen, torn>>,
         \A t \in Slots : Like(t) /\ Undrained(t)
  PROVE  PlacesInv'
<1>1. /\ \A t \in Slots : Like(t)
      /\ \A t \in Slots : turns'[t].snap = turns[t].snap
      /\ \A t \in Slots : turns'[t].draining => turns[t].draining
  BY DEF Undrained
<1>2. \A c \in Commands : Nowhere(c) => seen'[c] = 0
  BY DEF Nowhere
<1>3. QED
  BY <1>1, <1>2, TakenKeeps

\* Esc keeps where every command is.
LEMMA CancelPlaces == TurnInv /\ PlacesInv /\ Cancel => PlacesInv'
<1> SUFFICES ASSUME TurnInv, PlacesInv, Cancel PROVE PlacesInv'
  OBVIOUS
<1>1. ForceEnd /\ UNCHANGED <<queue, arrived, times, seen, torn>> /\ TypeOK
  BY DEF Cancel, commandVars, TurnInv
<1>2. PICK hit : turns' = [t \in Slots |->
        IF t = hit THEN [turns[t] EXCEPT !.aborted = TRUE]
        ELSE IF HasTheGuard(t) THEN [turns[t] EXCEPT !.left = TRUE] ELSE turns[t]]
  BY Zenon DEF Cancel
<1>3. generation' \in Nat /\ generation <= generation'
  BY <1>1, Types DEF ForceEnd
<1>4. \A t \in Slots : Like(t) /\ Undrained(t)
  BY <1>1, <1>2, <1>3, CancelFields
<1>5. QED
  BY <1>1, <1>4, QuietPlaces

\* Taking the queue back into the editor keeps where every command is.
LEMMA PopEditablePlaces == TurnInv /\ PlacesInv /\ PopEditable => PlacesInv'
<1> SUFFICES ASSUME TurnInv, PlacesInv, PopEditable PROVE PlacesInv'
  OBVIOUS
<1>1. UNCHANGED <<turns, arrived, times, seen, torn>> /\ queue' = Without(queue, Editable(queue)) /\ TypeOK
  BY DEF PopEditable, TurnInv
<1>2. ToSet(queue') \subseteq ToSet(queue)
  BY <1>1, Types, WithoutSet
<1>3. \A t \in Slots : Like(t) /\ Undrained(t)
  BY <1>1 DEF Like, Undrained
<1>4. QED
  BY <1>1, <1>2, <1>3, QuietPlaces

\* Sending the query to the background keeps where every command is.
LEMMA BackgroundPlaces == TurnInv /\ PlacesInv /\ Background => PlacesInv'
<1> SUFFICES ASSUME TurnInv, PlacesInv, Background PROVE PlacesInv'
  OBVIOUS
<1>1. /\ controller # None /\ Abort /\ UNCHANGED <<generation, controller, arrived, times, torn>> /\ TypeOK
  BY DEF Background, guardVars, TurnInv
<1>2. controller \in Slots
  BY <1>1, Types
<1>3. (\A t \in Slots : Like(t) /\ Undrained(t)) /\ turns'[controller].aborted
  BY <1>1, <1>2, Types, AbortFields
<1>4. PICK es : es = {e \in ToSet(queue) : e.mode = "note"}
  OBVIOUS
<1>5. PICK ids : ids = {c \in Ids(es) : seen[c] = 0}
  OBVIOUS
<1>6. queue' = Without(queue, es) /\ See(ids)
  BY <1>4, <1>5 DEF Background
<1>7. ToSet(queue') = ToSet(queue) \ es
  BY <1>1, <1>6, Types, WithoutSet
<1>8. \A c \in Commands : seen'[c] = IF c \in ids THEN seen[c] + 1 ELSE seen[c]
  BY <1>1, <1>6, SeeFields
<1>9. \A c \in Commands : Nowhere(c) => seen'[c] = 0
  BY <1>4, <1>5, <1>8 DEF Nowhere, Queued, Ids
<1>10. ASSUME NEW c \in Commands, c \in ids
       PROVE  seen[c] = 0 /\ seen'[c] = 1 /\ ~Waits(c)'
  <2>1. PICK e \in es : e.id = c
    BY <1>5, <1>10 DEF Ids
  <2>2. seen[c] = 0 /\ seen'[c] = 1
    BY <1>5, <1>8, <1>10
  <2>3. c \in Queued /\ e \in ToSet(queue)
    BY <1>4, <2>1 DEF Queued, Ids
  <2>4. c \notin Queued'
    BY <1>7, <2>1, <2>3 DEF Queued, Ids, PlacesInv, OnePlace
  <2>5. \A u \in Slots : c \notin Owned(u)'
    BY <1>3, <2>3 DEF Like, Owned, PlacesInv, OnePlace
  <2>6. QED
    BY <2>2, <2>4, <2>5 DEF Waits
<1>11. ASSUME NEW u \in Slots, Free(u)' PROVE FALSE
  <2>1. Free(u)
    BY <1>3, <1>11 DEF Free, Alive, Like
  <2>2. controller = u
    BY <1>1, <2>1 DEF TurnInv, GuardInv, FreeOwns
  <2>3. QED
    BY <1>3, <1>11, <2>2 DEF Free
<1>12. /\ \A t \in Slots : Like(t)
       /\ \A t \in Slots : turns'[t].snap = turns[t].snap
       /\ \A t \in Slots : turns'[t].draining => turns[t].draining
  BY <1>3 DEF Undrained
<1>13. \A c \in Commands \ torn' : seen'[c] = seen[c] \/ (seen[c] = 0 /\ seen'[c] = 1 /\ ~Waits(c)')
  BY <1>8, <1>10
<1>14. \A t \in Slots : Free(t)' /\ turns'[t].draining =>
         \A e \in turns[t].snap : e.id \notin torn' => seen'[e.id] = seen[e.id]
  BY <1>11
<1>15. QED
  BY <1>1, <1>7, <1>9, <1>12, <1>13, <1>14, TakenKeeps

\* A subagent that takes its commands keeps where every command is.
LEMMA SubagentDrainsPlaces == TurnInv /\ PlacesInv /\ SubagentDrains => PlacesInv'
<1> SUFFICES ASSUME TurnInv, PlacesInv, SubagentDrains PROVE PlacesInv'
  OBVIOUS
<1>1. PICK e \in ToSet(queue) : e.sub /\ queue' = Without(queue, {e}) /\ See({e.id})
  BY DEF SubagentDrains
<1>2. UNCHANGED <<turns, arrived, times, torn>> /\ TypeOK
  BY DEF SubagentDrains, TurnInv
<1>3. ToSet(queue') = ToSet(queue) \ {e}
  BY <1>1, <1>2, Types, WithoutSet
<1>4. \A c \in Commands : seen'[c] = IF c \in {e.id} THEN seen[c] + 1 ELSE seen[c]
  BY <1>1, <1>2, SeeFields
<1>5. e.id \in Queued /\ e.id \in Commands
  BY <1>1, <1>2, Types, SetOfEntries DEF Queued, Ids, EntryType
<1>6. \A c \in Commands : Nowhere(c) => seen'[c] = 0
  BY <1>4, <1>5 DEF Nowhere
<1>7. ~Waits(e.id)'
  <2>1. e.id \notin Queued'
    BY <1>3 DEF Queued, Ids, PlacesInv, OnePlace
  <2>2. \A u \in Slots : e.id \notin Owned(u)'
    BY <1>2, <1>5 DEF Owned, PlacesInv, OnePlace
  <2>3. QED
    BY <2>1, <2>2 DEF Waits
<1>8. e.id \notin torn => seen[e.id] = 0
  BY <1>5 DEF PlacesInv, UnseenWait, Waits
<1>9. \A c \in Commands \ torn' : seen'[c] = seen[c] \/ (seen[c] = 0 /\ seen'[c] = 1 /\ ~Waits(c)')
  BY <1>2, <1>4, <1>7, <1>8
<1>10. ASSUME NEW u \in Slots, Free(u)', turns'[u].draining, NEW f \in turns[u].snap
       PROVE  seen'[f.id] = seen[f.id]
  <2>1. Free(u) /\ turns[u].draining
    BY <1>2, <1>10 DEF Free, Alive
  <2>2. Snapped(u, f)
    BY <2>1 DEF PlacesInv, SnapsAreQueued
  <2>3. f.id # e.id
    BY <1>1, <1>5, <2>2 DEF Snapped, Main, PlacesInv, OnePlace
  <2>4. f.id \in Commands
    BY <1>2, TurnFields DEF EntryType
  <2>5. QED
    BY <1>4, <2>3, <2>4
<1>11. /\ \A t \in Slots : Like(t)
       /\ \A t \in Slots : turns'[t].snap = turns[t].snap
       /\ \A t \in Slots : turns'[t].draining => turns[t].draining
  BY <1>2 DEF Like
<1>12. \A t \in Slots : Free(t)' /\ turns'[t].draining =>
         \A f \in turns[t].snap : f.id \notin torn' => seen'[f.id] = seen[f.id]
  BY <1>10
<1>13. torn \subseteq torn' /\ ToSet(queue') \subseteq ToSet(queue)
  BY <1>2, <1>3
<1>14. QED
  BY <1>2, <1>6, <1>9, <1>11, <1>12, <1>13, TakenKeeps

\* Everything is in its place at the start.
LEMMA InitPlaces == Init => PlacesInv
<1> SUFFICES ASSUME Init PROVE PlacesInv
  OBVIOUS
<1>1. /\ queue = <<>> /\ ToSet(queue) = {} /\ Queued = {}
      /\ \A t \in Slots : turns[t] = Over
  BY NoEntry DEF Init, Queued, Ids
<1>2. Over.entries = <<>> /\ Over.snap = {} /\ Over.pc = "over"
  BY DEF Over
<1>3. \A t \in Slots : Owned(t) = {} /\ Ids(turns[t].snap) = {} /\ ToSet(turns[t].entries) = {}
  BY <1>1, <1>2, NoEntry DEF Owned, Ids
<1>4. \A c \in Commands : seen[c] = 0 /\ times[c] = 0
  BY DEF Init
<1>5. \A c \in Commands : Nowhere(c) /\ ~Waits(c) /\ ~Pending(c)
  BY <1>1, <1>3, <1>4 DEF Nowhere, Waits, Pending
<1>6. FreshIsNowhere /\ UnseenWait
  BY <1>4, <1>5 DEF FreshIsNowhere, UnseenWait
<1>7. FollowsAreFresh
  <2> SUFFICES ASSUME NEW c \in Commands, Follow[c] # None PROVE Fresh(Follow[c])
    BY DEF FollowsAreFresh
  <2>1. Follow[c] \in Commands /\ Target(Follow[c])
    BY CommandsAssumption DEF Target
  <2>2. QED
    BY <1>4, <2>1 DEF Fresh
<1>8. SnapsAreQueued
  BY <1>1, <1>2 DEF SnapsAreQueued
<1>9. OnePlace
  BY <1>1, <1>3 DEF OnePlace
<1>10. QED
  BY <1>6, <1>7, <1>8, <1>9 DEF PlacesInv

\* Every step keeps where everything is.
LEMMA StepPlaces == TurnInv /\ PlacesInv /\ [Next]_vars => PlacesInv'
<1> SUFFICES ASSUME TurnInv, PlacesInv, [Next]_vars PROVE PlacesInv'
  OBVIOUS
<1>1. ASSUME NEW c \in Commands, Submit(c) \/ Notify(c) \/ Incoming(c) PROVE PlacesInv'
  BY <1>1, SubmitPlaces, NotifyPlaces, IncomingPlaces
<1>2. ASSUME NEW t \in Slots, Turn(t) \/ DrainStart(t) PROVE PlacesInv'
  <2>1. CASE ProcessInput(t)
    BY <2>1, InputFailsPlaces, InputIsLocalPlaces, StartQueryPlaces, InputIsShownPlaces,
       InputIsRequeuedPlaces DEF ProcessInput
  <2>2. CASE DrainStart(t) \/ DrainEnd(t) \/ FinishQuery(t)
    BY <2>2, DrainStartPlaces, DrainEndPlaces, FinishQueryPlaces
  <2>3. QED
    BY <1>2, <2>1, <2>2 DEF Turn
<1>3. CASE ProcessQueue \/ Cancel \/ PopEditable \/ KillAgents \/ Background \/ SubagentDrains
  BY <1>3, ProcessQueuePlaces, CancelPlaces, PopEditablePlaces, KillAgentsPlaces, BackgroundPlaces,
     SubagentDrainsPlaces
<1>4. CASE UNCHANGED vars
  <2>1. UNCHANGED <<turns, queue, arrived, times, seen, torn>>
    BY <1>4 DEF vars, commandVars
  <2>2. \A t \in Slots : Like(t) /\ Undrained(t)
    BY <2>1 DEF Like, Undrained
  <2>3. QED
    BY <2>1, <2>2, QuietPlaces
<1>5. QED
  BY <1>1, <1>2, <1>3, <1>4 DEF Next

(* Every command that arrives is queued, with a turn, handled or gone       *)
(* (popped, cleared or failed), and handled at most once, but for those     *)
(* that a query attached that was interrupted or had lost the guard.       *)
THEOREM MessagesAreAlwaysConserved == Spec => []MessagesAreConserved
<1>1. Init => TurnInv /\ PlacesInv
  BY InitTurnInv, InitPlaces
<1>2. TurnInv /\ PlacesInv /\ [Next]_vars => (TurnInv /\ PlacesInv)'
  BY StepTurnInv, StepPlaces
<1>3. TurnInv /\ PlacesInv => MessagesAreConserved
  BY DEF TurnInv, PlacesInv, UnseenWait, MessagesAreConserved, HandledOnce
<1>4. QED
  BY <1>1, <1>2, <1>3, PTL DEF Spec
=============================================================================
