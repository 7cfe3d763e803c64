-------------------------- MODULE LockedFilesProofs --------------------------
(***************************************************************************)
(* Proofs about the two components whose actors meet only in a file: the   *)
(* inbox of a teammate, which is locked while it is rewritten, and the     *)
(* lock of the scheduler, which is the file itself.  For every number of   *)
(* messages, readers, processes and sessions and every bound on crashes.   *)
(***************************************************************************)
EXTENDS Mailbox, SchedulerLock, FilteringProofs

(* The inbox of a teammate. *)
PCs == {"idle", "create", "lock", "read", "open", "write", "release", "done", "crashed"}
Local == [pc : PCs, msgs : Seq(Entry), index : Nat, new : Seq(Entry)]
MailTypes == TypeOK /\ loc \in [Actors -> Local]

-----------------------------------------------------------------------------
(* Whoever is between taking the lock and giving it back has it: a lock is  *)
(* broken only when its holder has died.                                   *)
Section(p) == loc[p].pc \in {"read", "open", "write", "release"}
LockIsHeld == \A p \in Actors : Section(p) => lock = p

(* The messages of the inbox, or those that are being written back to it.   *)
Writers == {p \in Actors : At(p, "write")}
Inbox == IF Writers = {} THEN Content ELSE loc[CHOOSE p \in Writers : TRUE].msgs

Rewritten(p) ==
  IF p \in Messages THEN Append(Content, [id |-> p, read |-> FALSE]) ELSE Marked(p)

(* Whoever opens the inbox has read what is in it, and while it is written  *)
(* nothing else is in it.                                                  *)
OpensFor(p) ==
  /\ At(p, "open") => loc[p].msgs = Rewritten(p)
  /\ At(p, "write") => Content = <<>> /\ (p \in Messages => p \in Ids(loc[p].msgs))

(* A message is in the inbox once, and only if its call has opened it. *)
Once == \A i, j \in DOMAIN Inbox : Inbox[i].id = Inbox[j].id => i = j
ComesFor(m) == loc[m].pc \in {"idle", "create", "lock", "read", "open"} => m \notin Ids(Inbox)

Undamaged ==
  /\ sent \subseteq Ids(Inbox)
  /\ \A p \in Actors : OpensFor(p)
  /\ Once /\ \A m \in Messages : ComesFor(m)

MailInv == MailTypes /\ LockIsHeld /\ (damage = {} => Undamaged)

(* A teammate on the way to mark a message holds the one at its index. *)
Marking(r) == loc[r].pc \in {"lock", "read", "open", "write", "release"}
Holds(r) ==
  /\ loc[r].index \in DOMAIN Inbox /\ DOMAIN loc[r].new = {1}
  /\ loc[r].new[1].id = Inbox[loc[r].index].id
HoldsFor(r) ==
  /\ Marking(r) => Kind(r) = "teammate" /\ Holds(r)
  /\ At(r, "idle") => loc[r].new = <<>>
  /\ ~ Marking(r) => loc[r].pc \in {"idle", "crashed"}
  /\ Kind(r) = "off" => At(r, "idle")
InboxIsHanded ==
  \A i \in DOMAIN Inbox : Inbox[i].read => handed[Inbox[i].id] > 0 \/ Handing(Inbox[i].id)
Handed == InboxIsHanded /\ \A r \in Readers : HoldsFor(r)
HandInv == Teammate /\ damage = {} => Handed

(* What stands before the message that is handed over is of another sender, *)
(* or was handed over, unless it asks to shut down.                        *)
Alone == \A r, q \in Readers : {Kind(r), Kind(q)} = {"teammate"} => r = q
FirstFor(r) ==
  Marking(r) => \A i \in DOMAIN Inbox :
    LET m == Inbox[i].id
        n == Inbox[loc[r].index].id
    IN i < loc[r].index /\ From[m] = From[n] /\ n \notin setup.shutdown => handed[m] > 0
OrderInv == Alone /\ Teammate /\ damage = {} => \A r \in Readers : FirstFor(r)

-----------------------------------------------------------------------------
(* What the actions do to where an actor stands. *)

Others(p) == \A q \in Actors \ {p} : loc'[q] = loc[q]

\* p goes on to `where` with what it holds.
GoesOn(p, where) ==
  /\ loc' \in [Actors -> Local] /\ Others(p)
  /\ loc'[p].pc = where /\ loc'[p].msgs = loc[p].msgs
  /\ loc'[p].index = loc[p].index /\ loc'[p].new = loc[p].new

LEMMA GoGoesOn ==
  ASSUME loc \in [Actors -> Local], NEW p \in Actors, NEW where \in PCs, Go(p, where)
  PROVE  GoesOn(p, where)
  BY DEF Go, GoesOn, Others, Local

\* p is where a call ends, with nothing in its hands.
Ends(p) ==
  /\ loc' \in [Actors -> Local] /\ Others(p)
  /\ loc'[p].pc \in {"done", "idle"} /\ (p \in Readers => loc'[p].pc = "idle")
  /\ (p \in Messages => loc'[p].pc = "done")
  /\ loc'[p].msgs = <<>> /\ loc'[p].index = 0 /\ loc'[p].new = <<>>

LEMMA ReturnEnds ==
  ASSUME loc \in [Actors -> Local], NEW p \in Actors, Return(p)
  PROVE  Ends(p)
<1>1. PICK where \in {"done", "idle"} : /\ where = IF p \in Messages THEN "done" ELSE "idle"
                                        /\ loc' = [loc EXCEPT ![p] = [Start EXCEPT !.pc = where]]
  BY DEF Return
<1>2. PICK l : l = [Start EXCEPT !.pc = where]
  OBVIOUS
<1>3. l \in Local /\ l.pc = where /\ l.msgs = <<>> /\ l.index = 0 /\ l.new = <<>>
  BY <1>2, EmptySeq DEF Start, Local, PCs
<1>4. loc'[p] = l /\ loc' \in [Actors -> Local] /\ \A q \in Actors \ {p} : loc'[q] = loc[q]
  BY <1>1, <1>2, <1>3
<1>5. p \in Readers => p \notin Messages
  BY MailboxAssumption
<1>6. QED
  BY <1>1, <1>3, <1>4, <1>5 DEF Ends, Others

\* What is handed over more often stays handed over.
LEMMA HandKeeps ==
  ASSUME handed \in [Messages -> 0..2], NEW ids, Hand(ids)
  PROVE  /\ handed' \in [Messages -> 0..2]
         /\ \A m \in Messages : /\ handed[m] > 0 \/ m \in ids => handed'[m] > 0
                                /\ m \notin ids => handed'[m] = handed[m]
<1>1. ASSUME NEW m \in Messages
      PROVE  /\ handed'[m] \in 0..2
             /\ handed[m] > 0 \/ m \in ids => handed'[m] > 0
             /\ m \notin ids => handed'[m] = handed[m]
  <2>1. /\ handed[m] \in 0..2
        /\ handed'[m] = IF m \in ids /\ handed[m] < 2 THEN handed[m] + 1 ELSE handed[m]
    BY DEF Hand
  <2>2. QED
    BY <2>1
<1>2. handed' = [m \in Messages |-> handed'[m]]
  BY DEF Hand
<1>3. QED
  BY <1>1, <1>2

-----------------------------------------------------------------------------
(* What is written is a list of messages. *)

LEMMA ContentType ==
  ASSUME TypeOK
  PROVE  /\ Content \in Seq(Entry) /\ DOMAIN Content = 1..Len(Content) /\ Len(Content) \in Nat
         /\ \A i \in DOMAIN Content : Content[i] \in Entry
<1>1. Content \in Seq(Entry)
  BY EmptySeq DEF TypeOK, Content
<1>2. QED
  BY <1>1, LenProperties, ElementOfSeq

\* A reader writes back what it read, with some of it marked.
LEMMA MarkedType ==
  ASSUME TypeOK, NEW r
  PROVE  /\ Marked(r) \in Seq(Entry) /\ DOMAIN Marked(r) = DOMAIN Content
         /\ \A i \in DOMAIN Content :
              /\ Marked(r)[i].id = Content[i].id
              /\ Marked(r)[i].read <=> Content[i].read \/ Marks(r, i)
<1>1. PICK n \in Nat : DOMAIN Content = 1..n /\ \A i \in 1..n : Content[i] \in Entry
  BY ContentType
<1>2. \A i \in 1..n : Marks(r, i) \in BOOLEAN
  BY DEF Marks, Regular
<1>3. PICK s : s = Marked(r)
  OBVIOUS
<1>4. s = [i \in 1..n |-> [Content[i] EXCEPT !.read = @ \/ Marks(r, i)]]
  BY <1>1, <1>3 DEF Marked
<1>5. ASSUME NEW i \in 1..n
      PROVE  /\ s[i] \in Entry /\ s[i].id = Content[i].id
             /\ s[i].read <=> Content[i].read \/ Marks(r, i)
  <2>1. PICK e \in Entry, b \in BOOLEAN : e = Content[i] /\ b = Marks(r, i)
    BY <1>1, <1>2
  <2>2. s[i] = [e EXCEPT !.read = @ \/ b]
    BY <1>4, <2>1
  <2>3. PICK c \in BOOLEAN : c <=> (e.read \/ b)
    OBVIOUS
  <2>4. s[i] = [e EXCEPT !.read = c]
    BY <2>2, <2>3 DEF Entry
  <2>5. s[i] \in Entry /\ s[i].id = e.id /\ s[i].read = c
    BY <2>4 DEF Entry
  <2>6. QED
    BY <2>1, <2>3, <2>5
<1>6. s \in [1..n -> Entry]
  BY <1>4, <1>5
<1>7. s \in Seq(Entry) /\ DOMAIN s = 1..n
  BY <1>6, SeqDef
<1>8. QED
  BY <1>1, <1>3, <1>5, <1>7

\* A writer appends its message.
LEMMA AppendedType ==
  ASSUME TypeOK, NEW m \in Messages, NEW s, s = Append(Content, [id |-> m, read |-> FALSE])
  PROVE  /\ s \in Seq(Entry) /\ Len(s) = Len(Content) + 1 /\ DOMAIN s = 1..Len(s)
         /\ \A i \in 1..Len(Content) : s[i] = Content[i]
         /\ s[Len(Content) + 1] = [id |-> m, read |-> FALSE]
<1>1. Content \in Seq(Entry) /\ [id |-> m, read |-> FALSE] \in Entry
  BY ContentType DEF Entry
<1>2. QED
  BY <1>1, AppendProperties, LenProperties

LEMMA RewrittenType ==
  ASSUME TypeOK, NEW p \in Actors
  PROVE  Rewritten(p) \in Seq(Entry) /\ (p \in Messages \/ Content # <<>> => Rewritten(p) # <<>>)
<1>1. CASE p \in Messages
  <2>1. PICK s : s = Append(Content, [id |-> p, read |-> FALSE])
    OBVIOUS
  <2>2. s \in Seq(Entry) /\ Len(s) = Len(Content) + 1 /\ Len(Content) \in Nat
    BY <1>1, <2>1, AppendedType, ContentType
  <2>3. s # <<>>
    BY <2>2, EmptySeq
  <2>4. QED
    BY <1>1, <2>1, <2>2, <2>3 DEF Rewritten
<1>2. CASE p \notin Messages
  <2>1. PICK s : s = Marked(p)
    OBVIOUS
  <2>2. s \in Seq(Entry) /\ DOMAIN s = DOMAIN Content
    BY <2>1, MarkedType
  <2>3. Content # <<>> => s # <<>>
    BY <2>2, ContentType, EmptySeq, LenProperties
  <2>4. QED
    BY <1>2, <2>1, <2>2, <2>3 DEF Rewritten
<1>3. QED
  BY <1>1, <1>2

-----------------------------------------------------------------------------
(* The least index. *)

LEMMA MinIsLeast ==
  ASSUME NEW S \in SUBSET Nat, S # {}
  PROVE  Min(S) \in S /\ \A j \in S : Min(S) <= j
<1> DEFINE less == {ss \in Nat \X Nat : ss[1] < ss[2]}
<1>1. IsWellFoundedOn(less, Nat)
  BY NatLessThanWellFounded, Zenon DEF OpToRel
<1>2. \A i, j \in Nat : i < j => <<i, j>> \in less
  OBVIOUS
<1> HIDE DEF less
<1>3. PICK x \in S : \A y \in S : ~ (<<y, x>> \in less)
  BY <1>1, WFMin
<1>4. ASSUME NEW y \in S PROVE x <= y
  <2>1. x \in Nat /\ y \in Nat /\ ~ (y < x)
    BY <1>2, <1>3
  <2>2. QED
    BY <2>1
<1>5. QED
  BY <1>4 DEF Min

\* The message chosen is unread, and what stands before it is read, or of
\* another sender, unless it asks to shut down.
LEMMA ChosenIs ==
  ASSUME TypeOK, NEW i \in Chosen(Content)
  PROVE  /\ i \in DOMAIN Content /\ i \in Nat
         /\ \A j \in DOMAIN Content :
              /\ j < i /\ From[Content[j].id] = From[Content[i].id]
              /\ Content[i].id \notin setup.shutdown
              => Content[j].read
<1> DEFINE unread == {j \in DOMAIN Content : Unread(Content[j])}
           shutdown == {j \in unread : Content[j].id \in setup.shutdown}
           lead == {j \in unread : From[Content[j].id] = Lead}
<1>1. i \in First(IF shutdown # {} THEN shutdown ELSE IF lead # {} THEN lead ELSE unread)
  BY DEF Chosen
<1>2. unread \subseteq DOMAIN Content /\ shutdown \subseteq unread /\ lead \subseteq unread
  OBVIOUS
<1>3. DOMAIN Content \subseteq Nat
  BY ContentType
<1>4. PICK S : S \in {shutdown, lead, unread} /\ S # {} /\ i = Min(S)
               /\ (shutdown = {} => S # shutdown)
                /\ (S = unread => lead = {} \/ lead = unread \/ shutdown = unread)
               /\ (S # shutdown => S = IF lead # {} THEN lead ELSE unread)
  BY <1>1 DEF First
<1>5. i \in S /\ \A j \in S : i <= j
  BY <1>2, <1>3, <1>4, MinIsLeast
<1>6. i \in unread /\ i \in DOMAIN Content /\ i \in Nat
  BY <1>2, <1>3, <1>4, <1>5
<1>7. ASSUME NEW j \in DOMAIN Content, j < i, From[Content[j].id] = From[Content[i].id],
             Content[i].id \notin setup.shutdown, ~Content[j].read
      PROVE  FALSE
  <2>1. j \in unread
    BY <1>7 DEF Unread
  <2>2. S # shutdown
    BY <1>5, <1>7
  <2>3. CASE lead # {}
    <3>1. S = lead
      BY <1>4, <2>2, <2>3
    <3>2. j \in lead
      BY <1>5, <1>7, <2>1, <3>1
    <3>3. QED
      BY <1>3, <1>5, <1>7, <3>1, <3>2
  <2>4. CASE lead = {}
    <3>1. S = unread
      BY <1>4, <2>2, <2>4
    <3>2. QED
      BY <1>3, <1>5, <1>7, <2>1, <3>1
  <2>5. QED
    BY <2>3, <2>4
<1>8. QED
  BY <1>6, <1>7

-----------------------------------------------------------------------------
(* What the actions do. *)

LEMMA RereadDoes ==
  ASSUME MailTypes, NEW p \in Actors, Reread(p)
  PROVE  /\ At(p, "read") /\ UNCHANGED <<setup, file, lock, handed, sent, crashes, damage>>
         /\ loc' \in [Actors -> Local] /\ Others(p)
         /\ loc'[p].pc \in {"open", "release"} /\ loc'[p].msgs = Rewritten(p)
         /\ loc'[p].pc = "open" => Rewritten(p) # <<>>
         /\ loc'[p].index = loc[p].index /\ loc'[p].new = loc[p].new
<1>1. PICK next, same :
        /\ next = Rewritten(p)
        /\ same = (p \in Readers /\ (Content = <<>> \/ (Kind(p) = "teammate" /\ next = Content)))
        /\ loc' = [loc EXCEPT ![p].pc = IF same THEN "release" ELSE "open", ![p].msgs = next]
  BY DEF Reread, Rewritten
<1>2. next \in Seq(Entry) /\ (~same => next # <<>>)
  BY <1>1, RewrittenType DEF MailTypes, Actors
<1>3. PICK where \in {"open", "release"} : where = IF same THEN "release" ELSE "open"
  OBVIOUS
<1>4. loc' = [loc EXCEPT ![p].pc = where, ![p].msgs = next] /\ loc[p] \in Local
  BY <1>1, <1>3 DEF MailTypes
<1>5. /\ loc' \in [Actors -> Local] /\ Others(p)
      /\ loc'[p].pc = where /\ loc'[p].msgs = next
      /\ loc'[p].index = loc[p].index /\ loc'[p].new = loc[p].new
  BY <1>2, <1>4 DEF MailTypes, Others, Local, PCs
<1>6. QED
  BY <1>1, <1>2, <1>3, <1>5 DEF Reread

LEMMA LookDoes ==
  ASSUME MailTypes, NEW r \in Readers, Look(r)
  PROVE  /\ At(r, "idle") /\ Kind(r) # "off" /\ UNCHANGED <<setup, file, lock, sent, crashes, damage>>
         /\ loc' \in [Actors -> Local] /\ Others(r) /\ loc'[r].pc = "lock"
         /\ handed' \in [Messages -> 0..2]
         /\ Kind(r) = "teammate" =>
              /\ handed' = handed
              /\ \E i \in Chosen(Content) : loc'[r].index = i /\ loc'[r].new = <<Content[i]>>
<1>1. handed' \in [Messages -> 0..2] /\ (Kind(r) = "teammate" => handed' = handed)
  BY HandKeeps DEF Look, MailTypes, TypeOK
<1>2. CASE Kind(r) = "teammate"
  <2>1. PICK i \in Chosen(Content) :
          loc' = [loc EXCEPT ![r] = [Start EXCEPT !.pc = "lock", !.index = i, !.new = <<Content[i]>>]]
    BY <1>2 DEF Look
  <2>2. i \in Nat /\ i \in DOMAIN Content
    BY ChosenIs DEF MailTypes
  <2>3. PICK e \in Entry : e = Content[i]
    BY <2>2, ContentType DEF MailTypes
  <2>4. PICK l, one : one = <<e>> /\ l = [Start EXCEPT !.pc = "lock", !.index = i, !.new = one]
    OBVIOUS
  <2>5. l \in Local /\ l.pc = "lock" /\ l.index = i /\ l.new = <<e>>
    <3>1. one \in Seq(Entry)
      BY <2>4
    <3>2. QED
      BY <2>2, <2>4, <3>1, EmptySeq DEF Start, Local, PCs
  <2>6. loc' = [loc EXCEPT ![r] = l]
    BY <2>1, <2>3, <2>4
  <2>7. loc' \in [Actors -> Local] /\ loc'[r] = l /\ Others(r)
    BY <2>5, <2>6 DEF MailTypes, Others, Actors
  <2>8. QED
    BY <1>1, <2>3, <2>5, <2>7 DEF Look
<1>3. CASE Kind(r) # "teammate"
  <2>1. PICK S, new :
          /\ new = Dropping(Content, S)
          /\ loc' = [loc EXCEPT ![r] = [Start EXCEPT !.pc = "lock", !.new = new]]
    BY <1>3 DEF Look
  <2>2. new \in Seq(Entry)
    BY <2>1, DroppingElements, ContentType DEF MailTypes
  <2>3. PICK l : l = [Start EXCEPT !.pc = "lock", !.new = new]
    OBVIOUS
  <2>4. l \in Local /\ l.pc = "lock"
    BY <2>2, <2>3, EmptySeq DEF Start, Local, PCs
  <2>5. loc' \in [Actors -> Local] /\ loc'[r] = l /\ Others(r)
    BY <2>1, <2>3, <2>4 DEF MailTypes, Others, Actors
  <2>6. QED
    BY <1>1, <1>3, <2>4, <2>5 DEF Look
<1>4. QED
  BY <1>2, <1>3

-----------------------------------------------------------------------------
(* Types, and the lock. *)

Full(q) == loc[q].pc \in {"open", "write"} => loc[q].msgs # <<>>
FileType == file \in {Absent, Empty, Corrupt} \/ file \in Seq(Entry)

\* A step of p whose values are of their types.
LEMMA TypesFollow ==
  ASSUME MailTypes, NEW p \in Actors, Others(p), loc' \in [Actors -> Local], Full(p)',
         setup' = setup, FileType', lock' \in Actors \cup {None},
         handed' \in [Messages -> 0..2], sent' \subseteq Messages,
         crashes' \in 0..MaxCrashes, damage' \subseteq {"crash", "creation"}
  PROVE  MailTypes'
<1>1. \A q \in Actors : Full(q)
  BY DEF MailTypes, TypeOK, Full
<1>2. \A q \in Actors : Full(q)'
  BY <1>1 DEF Others, Full
<1>3. \A q \in Actors : /\ loc'[q].pc \in PCs /\ loc'[q].msgs \in Seq(Entry)
                        /\ loc'[q].index \in Nat /\ loc'[q].new \in Seq(Entry)
  BY DEF Local
<1>4. QED
  BY <1>2, <1>3 DEF MailTypes, TypeOK, Full, FileType, PCs

LEMMA TypesNext == MailTypes /\ [Next]_vars => MailTypes'
<1> SUFFICES ASSUME MailTypes, [Next]_vars PROVE MailTypes'
  OBVIOUS
<1>0. /\ loc \in [Actors -> Local] /\ setup \in Setups /\ FileType /\ lock \in Actors \cup {None}
      /\ handed \in [Messages -> 0..2] /\ sent \subseteq Messages
      /\ crashes \in 0..MaxCrashes /\ damage \subseteq {"crash", "creation"} /\ MaxCrashes \in Nat
      /\ \A q \in Actors : Full(q)
      /\ Messages \subseteq Actors /\ Readers \subseteq Actors
  BY MailboxAssumption DEF MailTypes, TypeOK, Full, FileType, Actors
<1>1. ASSUME NEW m \in Messages, Create(m) PROVE MailTypes'
  <2>1. PICK where \in {"create", "lock"} : Go(m, where)
    BY <1>1 DEF Create
  <2>2. GoesOn(m, where)
    BY <1>0, <2>1, GoGoesOn DEF PCs
  <2>3. FileType'
    BY <1>0, <1>1 DEF Create, FileType
  <2>4. QED
    BY <1>0, <1>1, <2>2, <2>3, TypesFollow DEF Create, GoesOn, Full
<1>2. ASSUME NEW m \in Messages, FillCreated(m) PROVE MailTypes'
  <2>1. GoesOn(m, "lock")
    BY <1>0, <1>2, GoGoesOn DEF PCs, FillCreated
  <2>2. FileType'
    BY <1>0, <1>2, EmptySeq DEF FillCreated, FileType
  <2>3. damage' \subseteq {"crash", "creation"}
    BY <1>0, <1>2 DEF FillCreated
  <2>4. QED
    BY <1>0, <1>2, <2>1, <2>2, <2>3, TypesFollow DEF FillCreated, GoesOn, Full
<1>3. ASSUME NEW r \in Readers, Look(r) PROVE MailTypes'
  <2>1. Full(r)' /\ FileType'
    BY <1>0, <1>3, LookDoes DEF Full, FileType
  <2>2. QED
    BY <1>0, <1>3, <2>1, LookDoes, TypesFollow
<1>4. ASSUME NEW p \in Actors, Lock(p) PROVE MailTypes'
  <2>1. GoesOn(p, "read")
    BY <1>0, <1>4, GoGoesOn DEF PCs, Lock
  <2>2. Full(p)' /\ FileType'
    BY <1>0, <1>4, <2>1 DEF Lock, GoesOn, Full, FileType
  <2>3. QED
    BY <1>0, <1>4, <2>1, <2>2, TypesFollow DEF Lock, GoesOn
<1>5. ASSUME NEW p \in Actors, GiveUp(p) \/ Release(p) PROVE MailTypes'
  <2>1. Return(p) /\ UNCHANGED <<setup, file, sent, crashes, damage>> /\ lock' \in {lock, None}
    BY <1>5 DEF GiveUp, Release
  <2>2. Ends(p)
    BY <1>0, <2>1, ReturnEnds
  <2>3. handed' \in [Messages -> 0..2]
    BY <1>0, <2>1, HandKeeps DEF Return
  <2>4. Full(p)' /\ FileType'
    BY <1>0, <2>1, <2>2 DEF Ends, Full, FileType
  <2>5. QED
    BY <1>0, <2>1, <2>2, <2>3, <2>4, TypesFollow DEF Ends
<1>6. ASSUME NEW p \in Actors, Reread(p) PROVE MailTypes'
  <2>1. Full(p)' /\ FileType'
    BY <1>0, <1>6, RereadDoes DEF Full, FileType
  <2>2. QED
    BY <1>0, <1>6, <2>1, RereadDoes, TypesFollow
<1>7. ASSUME NEW p \in Actors, Open(p) PROVE MailTypes'
  <2>1. GoesOn(p, "write") /\ loc[p].pc = "open"
    BY <1>0, <1>7, GoGoesOn DEF PCs, Open, At
  <2>2. Full(p)' /\ FileType'
    BY <1>0, <1>7, <2>1 DEF Open, GoesOn, Full, FileType
  <2>3. QED
    BY <1>0, <1>7, <2>1, <2>2, TypesFollow DEF Open, GoesOn
<1>8. ASSUME NEW p \in Actors, Write(p) PROVE MailTypes'
  <2>1. GoesOn(p, "release")
    BY <1>0, <1>8, GoGoesOn DEF PCs, Write
  <2>2. Full(p)' /\ FileType'
    BY <1>0, <1>8, <2>1 DEF Write, GoesOn, Full, FileType, Local
  <2>3. sent' \subseteq Messages
    BY <1>0, <1>8 DEF Write
  <2>4. QED
    BY <1>0, <1>8, <2>1, <2>2, <2>3, TypesFollow DEF Write, GoesOn
<1>9. ASSUME NEW p \in Actors, Crash(p) PROVE MailTypes'
  <2>1. GoesOn(p, "crashed")
    BY <1>0, <1>9, GoGoesOn DEF PCs, Crash
  <2>2. Full(p)' /\ FileType'
    BY <1>0, <1>9, <2>1 DEF Crash, GoesOn, Full, FileType
  <2>3. crashes' \in 0..MaxCrashes /\ damage' \subseteq {"crash", "creation"}
    BY <1>0, <1>9 DEF Crash
  <2>4. QED
    BY <1>0, <1>9, <2>1, <2>2, <2>3, TypesFollow DEF Crash, GoesOn
<1>10. CASE UNCHANGED vars
  BY <1>10 DEF vars, MailTypes, TypeOK
<1>11. QED
  BY <1>1, <1>2, <1>3, <1>4, <1>5, <1>6, <1>7, <1>8, <1>9, <1>10 DEF Next, Continue

\* A lock is taken when it is free or its holder has died, and given back by
\* whoever has it.
LEMMA LockIsHeldNext ==
  ASSUME MailTypes, LockIsHeld, [Next]_vars
  PROVE  LockIsHeld'
<1>0. loc \in [Actors -> Local] /\ Messages \subseteq Actors /\ Readers \subseteq Actors /\ None \notin Actors
  BY MailboxAssumption DEF MailTypes, Actors
<1>1. ASSUME NEW p \in Actors, Others(p), lock' = lock,
             loc'[p].pc \in {"read", "open", "write", "release"} => Section(p)
      PROVE  LockIsHeld'
  BY <1>1 DEF LockIsHeld, Section, Others
<1>2. ASSUME NEW m \in Messages, Create(m) \/ FillCreated(m) PROVE LockIsHeld'
  <2>1. PICK where \in {"create", "lock"} : Go(m, where)
    BY <1>2 DEF Create, FillCreated
  <2>2. GoesOn(m, where)
    BY <1>0, <2>1, GoGoesOn DEF PCs
  <2>3. lock' = lock
    BY <1>2 DEF Create, FillCreated
  <2>4. QED
    BY <1>0, <1>1, <2>2, <2>3 DEF GoesOn
<1>3. ASSUME NEW r \in Readers, Look(r) PROVE LockIsHeld'
  BY <1>0, <1>1, <1>3, LookDoes
<1>4. ASSUME NEW p \in Actors, Lock(p) PROVE LockIsHeld'
  <2>1. GoesOn(p, "read") /\ lock' = p
    BY <1>0, <1>4, GoGoesOn DEF PCs, Lock
  <2>2. ASSUME NEW q \in Actors, Section(q) PROVE FALSE
    <3>1. lock = q
      BY <2>2 DEF LockIsHeld
    <3>2. QED
      BY <1>0, <1>4, <2>2, <3>1 DEF Lock, Crashed, At, Section
  <2>3. QED
    BY <2>1, <2>2 DEF GoesOn, Others, LockIsHeld, Section
<1>5. ASSUME NEW p \in Actors, GiveUp(p) PROVE LockIsHeld'
  <2>1. Ends(p)
    BY <1>0, <1>5, ReturnEnds DEF GiveUp
  <2>2. QED
    BY <1>1, <1>5, <2>1 DEF Ends, GiveUp
<1>6. ASSUME NEW p \in Actors, Release(p) PROVE LockIsHeld'
  <2>1. Ends(p) /\ Section(p)
    BY <1>0, <1>6, ReturnEnds DEF Release, At, Section
  <2>2. QED
    BY <1>0, <2>1 DEF Ends, Others, LockIsHeld, Section
<1>7. ASSUME NEW p \in Actors, Reread(p) PROVE LockIsHeld'
  <2>1. Section(p)
    BY <1>7, RereadDoes DEF Section, At
  <2>2. QED
    BY <1>1, <1>7, <2>1, RereadDoes
<1>8. ASSUME NEW p \in Actors,
             Open(p) \/ Write(p) PROVE LockIsHeld'
  <2>1. PICK where \in {"write", "release"} : Go(p, where)
    BY <1>8 DEF Open, Write
  <2>2. GoesOn(p, where) /\ Section(p) /\ lock' = lock
    BY <1>0, <1>8, <2>1, GoGoesOn DEF PCs, Open, Write, At, Section
  <2>3. QED
    BY <1>1, <2>2 DEF GoesOn
<1>9. ASSUME NEW p \in Actors, Crash(p) PROVE LockIsHeld'
  <2>1. GoesOn(p, "crashed")
    BY <1>0, <1>9, GoGoesOn DEF PCs, Crash
  <2>2. QED
    BY <1>1, <1>9, <2>1 DEF Crash, GoesOn
<1>10. CASE UNCHANGED vars
  BY <1>10 DEF vars, LockIsHeld, Section
<1>11. QED
  BY <1>2, <1>3, <1>4, <1>5, <1>6, <1>7, <1>8, <1>9, <1>10 DEF Next, Continue

-----------------------------------------------------------------------------
(* The inbox, seen through whoever rewrites it. *)

LEMMA InboxIs ==
  ASSUME LockIsHeld
  PROVE  /\ \A p \in Actors : At(p, "write") => Inbox = loc[p].msgs
         /\ (\A p \in Actors : ~At(p, "write")) => Inbox = Content
<1>1. ASSUME NEW p \in Actors, At(p, "write") PROVE Inbox = loc[p].msgs
  <2>1. \A q \in Writers : q = p
    BY <1>1 DEF Writers, LockIsHeld, Section, At
  <2>2. p \in Writers
    BY <1>1 DEF Writers
  <2>3. (CHOOSE q \in Writers : TRUE) = p
    BY <2>1, <2>2
  <2>4. QED
    BY <2>2, <2>3 DEF Inbox
<1>2. ASSUME \A p \in Actors : ~At(p, "write") PROVE Inbox = Content
  BY <1>2 DEF Inbox, Writers
<1>3. QED
  BY <1>1, <1>2

\* The same of the next state.
LEMMA InboxIsNext ==
  ASSUME LockIsHeld'
  PROVE  /\ \A p \in Actors : loc'[p].pc = "write" => Inbox' = loc'[p].msgs
         /\ (\A p \in Actors : loc'[p].pc # "write") => Inbox' = Content'
<1>1. ASSUME NEW p \in Actors, loc'[p].pc = "write" PROVE Inbox' = loc'[p].msgs
  <2>1. \A q \in Writers' : q = p
    BY <1>1 DEF Writers, LockIsHeld, Section, At
  <2>2. p \in Writers'
    BY <1>1 DEF Writers, At
  <2>3. (CHOOSE q \in Writers' : TRUE) = p
    BY <2>1, <2>2
  <2>4. QED
    BY <2>2, <2>3 DEF Inbox
<1>2. ASSUME \A p \in Actors : loc'[p].pc # "write" PROVE Inbox' = Content'
  BY <1>2 DEF Inbox, Writers, At
<1>3. QED
  BY <1>1, <1>2

\* The inbox is a list of messages.
LEMMA InboxType ==
  ASSUME MailTypes, LockIsHeld
  PROVE  /\ Inbox \in Seq(Entry) /\ DOMAIN Inbox = 1..Len(Inbox) /\ Len(Inbox) \in Nat
         /\ \A i \in DOMAIN Inbox : Inbox[i] \in Entry
<1>1. CASE \A p \in Actors : ~At(p, "write")
  BY <1>1, InboxIs, ContentType DEF MailTypes
<1>2. CASE ~ \A p \in Actors : ~At(p, "write")
  <2>1. PICK p \in Actors : At(p, "write")
    BY <1>2
  <2>2. Inbox \in Seq(Entry)
    BY <2>1, InboxIs DEF MailTypes, TypeOK, At
  <2>3. QED
    BY <2>2, LenProperties, ElementOfSeq
<1>3. QED
  BY <1>1, <1>2

\* A step of one who neither writes nor begins to.
LEMMA InboxStays ==
  ASSUME LockIsHeld, LockIsHeld', NEW p \in Actors, Others(p), Content' = Content,
         loc[p].pc # "write", loc'[p].pc # "write"
  PROVE  Inbox' = Inbox
<1>1. CASE \A q \in Actors : ~At(q, "write")
  <2>1. \A q \in Actors : loc'[q].pc # "write"
    BY <1>1 DEF Others, At
  <2>2. QED
    BY <1>1, <2>1, InboxIs, InboxIsNext
<1>2. CASE ~ \A q \in Actors : ~At(q, "write")
  <2>1. PICK q \in Actors : At(q, "write")
    BY <1>2
  <2>2. q # p /\ loc'[q] = loc[q] /\ loc'[q].pc = "write"
    BY <2>1 DEF Others, At
  <2>3. QED
    BY <2>1, <2>2, InboxIs, InboxIsNext
<1>3. QED
  BY <1>1, <1>2

\* The ids of a list.
LEMMA IdsAre ==
  ASSUME NEW s, NEW x
  PROVE  x \in Ids(s) <=> \E i \in DOMAIN s : s[i].id = x
  BY DEF Ids, ToSet

\* Rewriting adds at most the writer's message and changes no other but for
\* what a reader marks.
LEMMA RewrittenIs ==
  ASSUME MailTypes, NEW p \in Actors, NEW t, t = Rewritten(p)
  PROVE  /\ DOMAIN Content \subseteq DOMAIN t
         /\ \A i \in DOMAIN Content :
              /\ t[i].id = Content[i].id
              /\ t[i].read => Content[i].read \/ (p \in Readers /\ Marks(p, i))
         /\ \A i \in DOMAIN t \ DOMAIN Content : p \in Messages /\ t[i].id = p /\ ~t[i].read
         /\ \A i, j \in DOMAIN t \ DOMAIN Content : i = j
         /\ \A i \in DOMAIN Content, j \in DOMAIN t \ DOMAIN Content : i < j
         /\ p \in Messages => p \in Ids(t)
<1>1. CASE p \in Messages
  <2>1. t = Append(Content, [id |-> p, read |-> FALSE])
    BY <1>1 DEF Rewritten
  <2>2. PICK n \in Nat : n = Len(Content) /\ DOMAIN Content = 1..n
    BY ContentType DEF MailTypes
  <2>3. /\ DOMAIN t = 1..(n + 1) /\ \A i \in 1..n : t[i] = Content[i]
        /\ t[n + 1] = [id |-> p, read |-> FALSE]
    BY <1>1, <2>1, <2>2, AppendedType DEF MailTypes
  <2>4. DOMAIN t \ DOMAIN Content = {n + 1} /\ n + 1 \in DOMAIN t
    BY <2>2, <2>3
  <2>5. p \in Ids(t)
    BY <2>3, <2>4, IdsAre
  <2>6. QED
    BY <1>1, <2>2, <2>3, <2>4, <2>5
<1>2. CASE p \notin Messages
  <2>1. t = Marked(p) /\ p \in Readers
    BY <1>2 DEF Rewritten, Actors
  <2>2. QED
    BY <1>2, <2>1, MarkedType DEF MailTypes
<1>3. QED
  BY <1>1, <1>2

-----------------------------------------------------------------------------
(* The steps that leave the file readable. *)

\* Damage stays.
LEMMA DamageStays == [Next]_vars /\ damage' = {} => damage = {}
  BY DEF Next, vars, Create, FillCreated, Look, Lock, GiveUp, Continue, Reread, Open, Write,
            Release, Crash

\* p opens the inbox and is to write what it read.
Opens(p) ==
  /\ Open(p) /\ GoesOn(p, "write")
  /\ Inbox = Content /\ Inbox' = Rewritten(p) /\ loc[p].msgs = Rewritten(p)

\* p writes the inbox.
Writes(p) ==
  /\ Write(p) /\ GoesOn(p, "release")
  /\ Inbox = loc[p].msgs /\ Inbox' = Inbox

\* p does anything else.
Passes(p) ==
  /\ Others(p) /\ loc' \in [Actors -> Local]
  /\ \/ p \in Messages /\ (Create(p) \/ FillCreated(p))
     \/ p \in Readers /\ Look(p)
     \/ Lock(p) \/ GiveUp(p) \/ Reread(p) \/ Release(p) \/ Crash(p)
  /\ Content' = Content /\ Inbox' = Inbox /\ sent' = sent
  /\ loc[p].pc # "write" /\ loc'[p].pc # "write"

LEMMA StepIs ==
  ASSUME MailTypes, LockIsHeld, LockIsHeld', Undamaged, [Next]_vars, damage' = {}
  PROVE  \/ UNCHANGED vars
         \/ \E p \in Actors : setup' = setup /\ (Opens(p) \/ Writes(p) \/ Passes(p))
<1>0. /\ loc \in [Actors -> Local] /\ Messages \subseteq Actors /\ Readers \subseteq Actors
      /\ \A p \in Actors : OpensFor(p)
  BY DEF MailTypes, Actors, Undamaged
<1>1. ASSUME NEW p \in Actors, Others(p), Content' = Content,
             loc[p].pc # "write", loc'[p].pc # "write"
      PROVE  Inbox' = Inbox
  BY <1>1, InboxStays
<1>2. ASSUME NEW m \in Messages, Create(m) \/ FillCreated(m) PROVE Passes(m)
  <2>1. PICK where \in {"create", "lock"} : Go(m, where)
    BY <1>2 DEF Create, FillCreated
  <2>2. GoesOn(m, where)
    BY <1>0, <2>1, GoGoesOn DEF PCs
  <2>3. Content' = Content
    BY <1>2, EmptySeq, UnreadableAssumption DEF Create, FillCreated, Content
  <2>4. loc[m].pc # "write" /\ loc'[m].pc # "write" /\ sent' = sent
    BY <1>2, <2>2 DEF Create, FillCreated, At, GoesOn
  <2>5. QED
    BY <1>0, <1>1, <1>2, <2>2, <2>3, <2>4 DEF Passes, GoesOn
<1>3. ASSUME NEW r \in Readers, Look(r) PROVE Passes(r)
  <2>1. /\ Others(r) /\ loc' \in [Actors -> Local] /\ loc[r].pc # "write" /\ loc'[r].pc # "write"
        /\ file' = file /\ sent' = sent
    BY <1>3, LookDoes DEF At
  <2>2. Content' = Content
    BY <2>1 DEF Content
  <2>3. QED
    BY <1>0, <1>1, <1>3, <2>1, <2>2, MailboxAssumption DEF Passes
<1>4. ASSUME NEW p \in Actors, Lock(p) \/ GiveUp(p) \/ Reread(p) \/ Release(p) PROVE Passes(p)
  <2>1. /\ Others(p) /\ loc' \in [Actors -> Local] /\ loc[p].pc # "write" /\ loc'[p].pc # "write"
        /\ file' = file /\ sent' = sent
    <3>1. CASE Lock(p)
      <4>1. GoesOn(p, "read")
        BY <1>0, <3>1, GoGoesOn DEF PCs, Lock
      <4>2. QED
        BY <3>1, <4>1 DEF GoesOn, Lock, At
    <3>2. CASE GiveUp(p) \/ Release(p)
      <4>1. Ends(p)
        BY <1>0, <3>2, ReturnEnds DEF GiveUp, Release
      <4>2. QED
        BY <3>2, <4>1 DEF Ends, GiveUp, Release, At
    <3>3. CASE Reread(p)
      BY <3>3, RereadDoes DEF At
    <3>4. QED
      BY <1>4, <3>1, <3>2, <3>3
  <2>2. Content' = Content
    BY <2>1 DEF Content
  <2>3. QED
    BY <1>1, <1>4, <2>1, <2>2 DEF Passes
<1>5. ASSUME NEW p \in Actors, Crash(p) PROVE Passes(p)
  <2>1. GoesOn(p, "crashed") /\ loc[p].pc # "write"
    BY <1>0, <1>5, GoGoesOn DEF PCs, Crash, At
  <2>2. Content' = Content /\ sent' = sent
    BY <1>5 DEF Crash, Content
  <2>3. QED
    BY <1>1, <1>5, <2>1, <2>2 DEF Passes, GoesOn
<1>6. ASSUME NEW p \in Actors, Open(p) PROVE Opens(p)
  <2>1. GoesOn(p, "write") /\ At(p, "open")
    BY <1>0, <1>6, GoGoesOn DEF PCs, Open
  <2>2. ASSUME NEW q \in Actors, At(q, "write") PROVE FALSE
    BY <2>1, <2>2 DEF LockIsHeld, Section, At
  <2>3. Inbox = Content /\ Inbox' = loc[p].msgs
    BY <2>1, <2>2, InboxIs, InboxIsNext DEF GoesOn
  <2>4. QED
    BY <1>0, <1>6, <2>1, <2>3 DEF Opens, OpensFor
<1>7. ASSUME NEW p \in Actors, Write(p) PROVE Writes(p)
  <2>1. GoesOn(p, "release") /\ At(p, "write")
    BY <1>0, <1>7, GoGoesOn DEF PCs, Write
  <2>2. \A q \in Actors : loc'[q].pc # "write"
    BY <2>1 DEF LockIsHeld, Section, At, GoesOn, Others
  <2>3. Content' = loc[p].msgs
    BY <1>7, <2>1, UnreadableAssumption DEF Write, Content, MailTypes, TypeOK, At
  <2>4. QED
    BY <1>7, <2>1, <2>2, <2>3, InboxIs, InboxIsNext DEF Writes
<1>8. ASSUME NEW p \in Actors,
             Open(p) \/ Write(p) \/ Lock(p) \/ GiveUp(p) \/ Reread(p) \/ Release(p) \/ Crash(p)
      PROVE  setup' = setup
  BY <1>8 DEF Open, Write, Lock, GiveUp, Reread, Release, Crash
<1>9. ASSUME NEW m \in Messages, Create(m) \/ FillCreated(m) PROVE setup' = setup
  BY <1>9 DEF Create, FillCreated
<1>10. QED
  BY <1>0, <1>2, <1>3, <1>4, <1>5, <1>6, <1>7, <1>8, <1>9, LookDoes DEF Next, Continue

\* What an actor would write depends on the inbox and on its index only.
LEMMA RewrittenSame ==
  ASSUME NEW p \in Actors, Content' = Content, setup' = setup, loc'[p].index = loc[p].index
  PROVE  Rewritten(p)' = Rewritten(p)
<1>1. ASSUME NEW i PROVE Marks(p, i)' = Marks(p, i)
  BY DEF Marks, Kind
<1>2. Marked(p)' = Marked(p)
  BY <1>1 DEF Marked
<1>3. QED
  BY <1>2 DEF Rewritten

Early == {"idle", "create", "lock", "read", "open"}

\* A call that has not opened the inbox had not before.
LEMMA EarlyBefore ==
  ASSUME MailTypes, NEW p \in Messages, p \in Actors, Passes(p), loc'[p].pc \in Early
  PROVE  loc[p].pc \in Early
<1>0. loc \in [Actors -> Local] /\ p \notin Readers
  BY MailboxAssumption DEF MailTypes
<1>1. ~ GiveUp(p) /\ ~ Release(p)
  BY <1>0, ReturnEnds DEF GiveUp, Release, Ends, Early
<1>2. ~ Crash(p)
  BY <1>0, GoGoesOn DEF Crash, GoesOn, Early, PCs
<1>3. CASE Create(p) \/ FillCreated(p) \/ Lock(p)
  BY <1>3 DEF Create, FillCreated, Lock, At, Early
<1>4. CASE Reread(p)
  BY <1>4, RereadDoes DEF At, Early
<1>5. QED
  BY <1>0, <1>1, <1>2, <1>3, <1>4 DEF Passes

LEMMA UndamagedNext ==
  ASSUME MailTypes, LockIsHeld, LockIsHeld', Undamaged, [Next]_vars, damage' = {}
  PROVE  Undamaged'
<1>0. /\ \A p \in Actors : OpensFor(p)
      /\ \A m \in Messages : ComesFor(m)
      /\ sent \subseteq Ids(Inbox) /\ Once
      /\ Messages \subseteq Actors /\ loc \in [Actors -> Local]
  BY DEF Undamaged, Actors, MailTypes
<1>1. CASE UNCHANGED vars
  BY <1>1 DEF vars, Undamaged, Inbox, Writers, Content, OpensFor, Once, ComesFor, Rewritten, Marked,
                 Marks, Kind, At
<1>2. ASSUME NEW p \in Actors, setup' = setup, Opens(p) PROVE Undamaged'
  <2>1. /\ At(p, "open") /\ Others(p) /\ loc'[p].pc = "write" /\ sent' = sent /\ file' = Empty
        /\ Inbox = Content
    BY <1>2 DEF Opens, Open, GoesOn
  <2>2. PICK t : t = Rewritten(p) /\ Inbox' = t /\ loc'[p].msgs = t
    BY <1>2 DEF Opens, GoesOn
  <2>3. /\ DOMAIN Content \subseteq DOMAIN t
        /\ \A i \in DOMAIN Content : t[i].id = Content[i].id
        /\ \A i \in DOMAIN t \ DOMAIN Content : p \in Messages /\ t[i].id = p
        /\ \A i, j \in DOMAIN t \ DOMAIN Content : i = j
        /\ p \in Messages => p \in Ids(t)
    BY <2>2, RewrittenIs
  <2>4. Ids(Content) \subseteq Ids(t) /\ Ids(t) \subseteq Ids(Content) \cup {p}
    BY <2>3, IdsAre
  <2>5. p \in Messages => p \notin Ids(Content)
    BY <1>0, <2>1 DEF ComesFor, At
  <2>6. Content' = <<>>
    BY <2>1 DEF Content
  <2>7. ASSUME NEW q \in Actors PROVE OpensFor(q)'
    <3>1. CASE q = p
      BY <2>1, <2>2, <2>3, <2>6, <3>1 DEF OpensFor, At
    <3>2. CASE q # p
      <4>1. ~Section(q) /\ loc'[q] = loc[q]
        BY <2>1, <3>2 DEF LockIsHeld, Section, At, Others
      <4>2. QED
        BY <4>1 DEF Section, OpensFor, At
    <3>3. QED
      BY <3>1, <3>2
  <2>8. Once'
    <3>1. ASSUME NEW i \in DOMAIN t, NEW j \in DOMAIN t, t[i].id = t[j].id PROVE i = j
      <4>1. CASE i \in DOMAIN Content /\ j \in DOMAIN Content
        BY <1>0, <2>1, <2>3, <3>1, <4>1 DEF Once
      <4>2. CASE i \notin DOMAIN Content /\ j \notin DOMAIN Content
        BY <2>3, <4>2
      <4>3. CASE i \in DOMAIN Content /\ j \notin DOMAIN Content
        BY <2>3, <2>5, <3>1, <4>3, IdsAre
      <4>4. CASE i \notin DOMAIN Content /\ j \in DOMAIN Content
        BY <2>3, <2>5, <3>1, <4>4, IdsAre
      <4>5. QED
        BY <4>1, <4>2, <4>3, <4>4
    <3>2. QED
      BY <2>2, <3>1 DEF Once
  <2>9. ASSUME NEW m \in Messages PROVE ComesFor(m)'
    <3>1. m # p => loc'[m] = loc[m]
      BY <1>0, <2>1 DEF Others
    <3>2. QED
      BY <1>0, <2>1, <2>2, <2>4, <3>1 DEF ComesFor, Ids
  <2>10. sent' \subseteq Ids(t)
    BY <1>0, <2>1, <2>4
  <2>11. (sent \subseteq Ids(Inbox))'
    BY <2>2, <2>10 DEF Ids
  <2>12. QED
    BY <2>7, <2>8, <2>9, <2>11 DEF Undamaged
<1>3. ASSUME NEW p \in Actors, setup' = setup, Writes(p) PROVE Undamaged'
  <2>1. /\ At(p, "write") /\ Others(p) /\ loc'[p].pc = "release" /\ sent' \subseteq sent \cup {p}
        /\ p \notin Messages => sent' = sent
        /\ Inbox = loc[p].msgs /\ Inbox' = Inbox
    BY <1>3 DEF Writes, Write, GoesOn
  <2>2. PICK t : t = Inbox
    OBVIOUS
  <2>3. sent' \subseteq Ids(t)
    BY <1>0, <2>1, <2>2 DEF OpensFor
  <2>4. (sent \subseteq Ids(Inbox))'
    BY <2>1, <2>2, <2>3 DEF Ids
  <2>5. ASSUME NEW q \in Actors PROVE OpensFor(q)'
    <3>1. q # p => ~Section(q) /\ loc'[q] = loc[q]
      BY <2>1 DEF LockIsHeld, Section, At, Others
    <3>2. QED
      BY <2>1, <3>1 DEF Section, OpensFor, At
  <2>6. ASSUME NEW m \in Messages PROVE ComesFor(m)'
    <3>1. m # p => loc'[m] = loc[m]
      BY <1>0, <2>1 DEF Others
    <3>2. QED
      BY <1>0, <2>1, <3>1 DEF ComesFor, Ids
  <2>7. Once'
    BY <1>0, <2>1 DEF Once
  <2>8. QED
    BY <2>4, <2>5, <2>6, <2>7 DEF Undamaged
<1>4. ASSUME NEW p \in Actors, setup' = setup, Passes(p) PROVE Undamaged'
  <2>1. /\ Others(p) /\ Content' = Content /\ Inbox' = Inbox /\ sent' = sent
        /\ loc[p].pc # "write" /\ loc'[p].pc # "write"
    BY <1>4 DEF Passes
  <2>2. (sent \subseteq Ids(Inbox))' /\ Once'
    BY <1>0, <2>1 DEF Ids, Once
  <2>3. ASSUME NEW m \in Messages PROVE ComesFor(m)'
    <3>1. CASE m = p
      BY <1>0, <1>4, <2>1, <3>1, EarlyBefore DEF ComesFor, Early, Ids
    <3>2. CASE m # p
      BY <1>0, <2>1, <3>2 DEF ComesFor, Others, Ids
    <3>3. QED
      BY <3>1, <3>2
  <2>4. ASSUME NEW q \in Actors PROVE OpensFor(q)'
    <3>1. CASE q # p
      <4>1. loc'[q] = loc[q]
        BY <2>1, <3>1 DEF Others
      <4>2. Rewritten(q)' = Rewritten(q)
        BY <1>4, <2>1, <4>1, RewrittenSame
      <4>3. QED
        BY <1>0, <2>1, <4>1, <4>2 DEF OpensFor, At, Ids
    <3>2. CASE q = p /\ loc'[p].pc = "open"
      <4>1. Reread(p)
        <5>1. ~ GiveUp(p) /\ ~ Release(p)
          BY <1>0, <3>2, ReturnEnds DEF GiveUp, Release, Ends
        <5>2. ~ Crash(p) /\ ~ Lock(p) /\ ~ Create(p) /\ ~ FillCreated(p)
          BY <1>0, <3>2, GoGoesOn DEF Crash, Lock, Create, FillCreated, GoesOn, PCs
        <5>3. ~ (p \in Readers /\ Look(p))
          BY <3>2, LookDoes
        <5>4. QED
          BY <1>4, <5>1, <5>2, <5>3 DEF Passes
      <4>2. loc'[p].msgs = Rewritten(p) /\ loc'[p].index = loc[p].index
        BY <4>1, RereadDoes
      <4>3. Rewritten(p)' = Rewritten(p)
        BY <1>4, <2>1, <4>2, RewrittenSame
      <4>4. QED
        BY <3>2, <4>2, <4>3 DEF OpensFor, At
    <3>3. CASE q = p /\ loc'[p].pc # "open"
      BY <2>1, <3>3 DEF OpensFor, At
    <3>4. QED
      BY <3>1, <3>2, <3>3
  <2>5. QED
    BY <2>2, <2>3, <2>4 DEF Undamaged
<1>5. QED
  BY <1>1, <1>2, <1>3, <1>4, StepIs

\* The invariant holds at the start and after every step.
LEMMA MailInit == Init => MailInv
<1> SUFFICES ASSUME Init PROVE MailInv
  OBVIOUS
<1>1. Start \in Local
  BY EmptySeq DEF Start, Local, PCs
<1>2. loc \in [Actors -> Local] /\ \A p \in Actors : loc[p] = Start /\ loc[p].pc = "idle"
  BY <1>1 DEF Init, Start
<1>3. MailTypes
  <2>1. \A p \in Actors : /\ loc[p].pc \in PCs /\ loc[p].msgs \in Seq(Entry)
                          /\ loc[p].index \in Nat /\ loc[p].new \in Seq(Entry)
    BY <1>2 DEF Local
  <2>2. QED
    BY <1>2, <2>1, EmptySeq, MailboxAssumption DEF Init, MailTypes, TypeOK, PCs
<1>4. LockIsHeld
  BY <1>2 DEF LockIsHeld, Section
<1>5. Undamaged
  <2>1. Content = <<>>
    BY DEF Init, Content
  <2>2. Inbox = <<>>
    BY <1>2, <1>4, <2>1, InboxIs DEF At
  <2>3. Ids(Inbox) = {} /\ Once
    BY <2>2, IdsAre DEF Once
  <2>4. QED
    BY <1>2, <2>3 DEF Init, Undamaged, OpensFor, ComesFor, At
<1>6. QED
  BY <1>3, <1>4, <1>5 DEF MailInv

LEMMA MailNext == MailInv /\ [Next]_vars => MailInv'
<1> SUFFICES ASSUME MailInv, [Next]_vars PROVE MailInv'
  OBVIOUS
<1>1. MailTypes' /\ LockIsHeld'
  BY TypesNext, LockIsHeldNext DEF MailInv
<1>2. damage' = {} => Undamaged'
  BY <1>1, DamageStays, UndamagedNext DEF MailInv
<1>3. QED
  BY <1>1, <1>2 DEF MailInv

LEMMA MailAlways == Spec => []MailInv
  BY MailInit, MailNext, PTL DEF Spec

\* File, lock and locals of writeToMailbox and of every reader are of their kind, for
\* any messages, readers and setups.
THEOREM MailIsTyped == Spec => []TypeOK
<1>1. MailInv => TypeOK
  BY DEF MailInv, MailTypes
<1>2. QED
  BY <1>1, MailAlways, PTL

\* What is in the inbox, as the writers see it, is in it or written to it.
LEMMA InboxIsHeld ==
  ASSUME LockIsHeld
  PROVE  Ids(Inbox) \subseteq Held
<1>1. CASE \A p \in Actors : ~At(p, "write")
  BY <1>1, InboxIs DEF Held
<1>2. CASE ~ \A p \in Actors : ~At(p, "write")
  <2>1. PICK p \in Actors : At(p, "write")
    BY <1>2
  <2>2. Inbox = loc[p].msgs
    BY <2>1, InboxIs
  <2>3. QED
    BY <2>1, <2>2 DEF Held
<1>3. QED
  BY <1>1, <1>2

-----------------------------------------------------------------------------
(* Teammates mark what they hand over. *)

\* What was handed over stays handed over; what is being handed over is at
\* last.
LEMMA StillHanded ==
  ASSUME MailTypes, [Next]_vars, NEW x \in Messages
  PROVE  /\ handed[x] > 0 => handed'[x] > 0
         /\ Teammate /\ (\A r \in Readers : HoldsFor(r)) /\ Handing(x) => handed'[x] > 0 \/ Handing(x)'
<1>0. handed \in [Messages -> 0..2] /\ loc \in [Actors -> Local] /\ Readers \subseteq Actors
      /\ Messages \subseteq Actors /\ Readers \cap Messages = {}
  BY MailboxAssumption DEF MailTypes, TypeOK, Actors
<1>1. ASSUME handed' = handed \/ \E ids : Hand(ids)
      PROVE  handed[x] > 0 => handed'[x] > 0
  BY <1>0, <1>1, HandKeeps
<1>2. ASSUME NEW p \in Actors, Others(p), loc'[p].new = loc[p].new, handed' = handed
      PROVE  Handing(x) => Handing(x)'
  BY <1>2, <1>0 DEF Handing, Ids, Others
<1>3. ASSUME NEW m \in Messages, Create(m) \/ FillCreated(m)
      PROVE  handed' = handed /\ (Handing(x) => Handing(x)')
  <2>1. PICK where \in {"create", "lock"} : Go(m, where)
    BY <1>3 DEF Create, FillCreated
  <2>2. GoesOn(m, where)
    BY <1>0, <2>1, GoGoesOn DEF PCs
  <2>3. handed' = handed
    BY <1>3 DEF Create, FillCreated
  <2>4. QED
    BY <1>0, <1>2, <2>2, <2>3 DEF GoesOn
<1>4. ASSUME NEW p \in Actors, Lock(p) \/ Open(p) \/ Write(p) \/ Crash(p) \/ Reread(p)
      PROVE  handed' = handed /\ (Handing(x) => Handing(x)')
  <2>1. CASE Reread(p)
    BY <1>2, <2>1, RereadDoes
  <2>2. CASE Lock(p) \/ Open(p) \/ Write(p) \/ Crash(p)
    <3>1. PICK where \in PCs : Go(p, where)
      BY <2>2 DEF Lock, Open, Write, Crash, PCs
    <3>2. GoesOn(p, where) /\ handed' = handed
      BY <1>0, <2>2, <3>1, GoGoesOn DEF Lock, Open, Write, Crash
    <3>3. QED
      BY <1>2, <3>2 DEF GoesOn
  <2>3. QED
    BY <1>4, <2>1, <2>2
<1>5. ASSUME NEW r \in Readers, Look(r)
      PROVE  /\ handed[x] > 0 => handed'[x] > 0
             /\ HoldsFor(r) /\ Handing(x) => Handing(x)'
  <2>1. handed' = handed \/ \E ids : Hand(ids)
    BY <1>5 DEF Look
  <2>2. ASSUME HoldsFor(r), NEW q \in Readers, x \in Ids(loc[q].new) PROVE Handing(x)'
    <3>1. q # r
      BY <1>5, <2>2, IdsAre, LookDoes DEF HoldsFor
    <3>2. loc'[q] = loc[q]
      BY <1>0, <1>5, <3>1, LookDoes DEF Others
    <3>3. QED
      BY <2>2, <3>2 DEF Handing, Ids
  <2>3. QED
    BY <1>1, <2>1, <2>2 DEF Handing
<1>6. ASSUME NEW p \in Actors, GiveUp(p) \/ Release(p)
      PROVE  /\ handed[x] > 0 => handed'[x] > 0
             /\ Teammate /\ Handing(x) => handed'[x] > 0 \/ Handing(x)'
  <2>1. Return(p) /\ Ends(p)
    BY <1>0, <1>6, ReturnEnds DEF GiveUp, Release
  <2>2. handed' = handed \/ \E ids : Hand(ids)
    BY <2>1 DEF Return
  <2>3. ASSUME Teammate, NEW q \in Readers, x \in Ids(loc[q].new) PROVE handed'[x] > 0 \/ Handing(x)'
    <3>1. CASE q = p
      <4>1. Hand(Ids(loc[p].new))
        BY <2>1, <2>3, <3>1 DEF Return, Teammate
      <4>2. QED
        BY <1>0, <2>3, <3>1, <4>1, HandKeeps
    <3>2. CASE q # p
      <4>1. loc'[q] = loc[q]
        BY <1>0, <2>1, <3>2 DEF Ends, Others
      <4>2. QED
        BY <2>3, <4>1 DEF Handing, Ids
    <3>3. QED
      BY <3>1, <3>2
  <2>4. QED
    BY <1>1, <2>2, <2>3 DEF Handing
<1>7. CASE UNCHANGED vars
  BY <1>7 DEF vars, Handing, Ids
<1>8. QED
  BY <1>0, <1>3, <1>4, <1>5, <1>6, <1>7 DEF Next, Continue

\* With nobody writing, a look sees the whole inbox.
LEMMA LookSeesInbox ==
  ASSUME LockIsHeld, Undamaged, Content # <<>>
  PROVE  Inbox = Content
  BY InboxIs DEF Undamaged, OpensFor

\* Where the inbox is opened, the messages stay at their places.
LEMMA PlacesStay ==
  ASSUME MailTypes, NEW p \in Actors, Opens(p) \/ Inbox' = Inbox
  PROVE  /\ DOMAIN Inbox \subseteq DOMAIN Inbox'
         /\ \A i \in DOMAIN Inbox : Inbox'[i].id = Inbox[i].id
<1>1. CASE Opens(p)
  <2>1. PICK t : t = Rewritten(p)
    OBVIOUS
  <2>2. QED
    BY <1>1, <2>1, RewrittenIs DEF Opens
<1>2. CASE Inbox' = Inbox
  BY <1>2
<1>3. QED
  BY <1>1, <1>2

\* Every reader goes on to hold the message at its index.
LEMMA HoldsNext ==
  ASSUME MailInv, damage' = {}, [Next]_vars, Teammate, Handed, NEW r \in Readers
  PROVE  HoldsFor(r)'
<1>0. /\ MailTypes /\ LockIsHeld /\ LockIsHeld' /\ Undamaged /\ HoldsFor(r)
      /\ loc \in [Actors -> Local] /\ r \in Actors /\ r \notin Messages
  BY DamageStays, LockIsHeldNext, MailboxAssumption DEF MailInv, MailTypes, Handed, Actors
<1>1. CASE UNCHANGED vars
  BY <1>0, <1>1 DEF vars, HoldsFor, Holds, Marking, Kind, At, Inbox, Writers, Content
<1>2. ASSUME NEW p \in Actors, setup' = setup, Opens(p) \/ Writes(p) \/ Passes(p) PROVE HoldsFor(r)'
  <2>1. /\ DOMAIN Inbox \subseteq DOMAIN Inbox' /\ \A i \in DOMAIN Inbox : Inbox'[i].id = Inbox[i].id
        /\ Others(p)
    BY <1>0, <1>2, PlacesStay DEF Writes, Passes, Opens, GoesOn
  <2>2. Kind(r)' = Kind(r)
    BY <1>2 DEF Kind
  <2>3. ASSUME loc'[r].index = loc[r].index, loc'[r].new = loc[r].new, Marking(r) PROVE Holds(r)'
    BY <1>0, <2>1, <2>3 DEF HoldsFor, Holds
  <2>4. CASE r # p
    <3>1. loc'[r] = loc[r]
      BY <1>0, <2>1, <2>4 DEF Others
    <3>2. QED
      BY <1>0, <2>2, <2>3, <3>1 DEF HoldsFor, Marking, At
  <2>5. ASSUME r = p, Marking(r), loc'[r].index = loc[r].index, loc'[r].new = loc[r].new,
               loc'[r].pc \in {"read", "open", "write", "release"}
        PROVE  HoldsFor(r)'
    <3>1. Holds(r)' /\ Kind(r) = "teammate"
      BY <1>0, <2>3, <2>5 DEF HoldsFor
    <3>2. QED
      BY <2>2, <2>5, <3>1 DEF HoldsFor, Marking, At
  <2>6. CASE r = p /\ (Opens(p) \/ Writes(p))
    <3>1. Marking(r)
      BY <2>6 DEF Opens, Writes, Open, Write, Marking, At
    <3>2. QED
      BY <2>5, <2>6, <3>1 DEF Opens, Writes, GoesOn
  <2>7. CASE r = p /\ Lock(p)
    <3>1. GoesOn(p, "read") /\ Marking(r)
      BY <1>0, <2>7, GoGoesOn DEF PCs, Lock, Marking, At
    <3>2. QED
      BY <2>5, <2>7, <3>1 DEF GoesOn
  <2>8. CASE r = p /\ Reread(p)
    <3>1. Marking(r)
      BY <1>0, <2>8, RereadDoes DEF Marking, At
    <3>2. QED
      BY <1>0, <2>5, <2>8, <3>1, RereadDoes
  <2>9. CASE r = p /\ (GiveUp(p) \/ Release(p))
    <3>1. Ends(r)
      BY <1>0, <2>9, ReturnEnds DEF GiveUp, Release
    <3>2. QED
      BY <3>1 DEF Ends, HoldsFor, Marking, At
  <2>10. CASE r = p /\ Crash(p)
    <3>1. loc'[r].pc = "crashed" /\ loc[r].pc # "idle"
      BY <1>0, <2>10, GoGoesOn DEF PCs, Crash, GoesOn
    <3>2. QED
      BY <1>0, <2>2, <3>1 DEF HoldsFor, Marking, At
  <2>11. CASE r = p /\ Look(r)
    <3>1. Kind(r) = "teammate" /\ loc'[r].pc = "lock"
      BY <1>0, <2>11, LookDoes DEF Teammate
    <3>2. PICK i \in Chosen(Content) : loc'[r].index = i /\ loc'[r].new = <<Content[i]>>
      BY <1>0, <2>11, <3>1, LookDoes
    <3>3. i \in DOMAIN Content
      BY <1>0, <3>2, ChosenIs DEF MailTypes
    <3>4. Inbox = Content
      BY <1>0, <3>3, LookSeesInbox
    <3>5. Holds(r)'
      BY <2>1, <3>2, <3>3, <3>4 DEF Holds
    <3>6. QED
      BY <2>2, <3>1, <3>5 DEF HoldsFor, Marking, At
  <2>12. QED
    BY <1>0, <1>2, <2>4, <2>6, <2>7, <2>8, <2>9, <2>10, <2>11 DEF Passes
<1>3. QED
  BY <1>0, <1>1, <1>2, StepIs

\* What is marked in the inbox was handed over or is being handed over.
LEMMA InboxHandedNext ==
  ASSUME MailInv, damage' = {}, [Next]_vars, Teammate, Handed
  PROVE  InboxIsHanded'
<1>0. /\ MailTypes /\ LockIsHeld /\ LockIsHeld' /\ Undamaged /\ InboxIsHanded
      /\ \A r \in Readers : HoldsFor(r)
  BY DamageStays, LockIsHeldNext DEF MailInv, Handed
<1>1. ASSUME NEW i \in DOMAIN Inbox, NEW x, x = Inbox[i].id, handed[x] > 0 \/ Handing(x)
      PROVE  handed'[x] > 0 \/ Handing(x)'
  <2>1. x \in Messages
    BY <1>0, <1>1, InboxType DEF Entry
  <2>2. QED
    BY <1>0, <1>1, <2>1, StillHanded
<1>2. CASE Inbox' = Inbox
  BY <1>0, <1>1, <1>2 DEF InboxIsHanded, Handing
<1>3. ASSUME NEW p \in Actors, Opens(p) PROVE InboxIsHanded'
  <2>1. PICK t : t = Rewritten(p) /\ Inbox' = t /\ Inbox = Content
    BY <1>3 DEF Opens
  <2>2. ASSUME NEW i \in DOMAIN t, t[i].read PROVE (handed'[t[i].id] > 0 \/ Handing(t[i].id)')
    <3>1. /\ i \in DOMAIN Content /\ t[i].id = Content[i].id
          /\ Content[i].read \/ (p \in Readers /\ Marks(p, i))
      BY <1>0, <2>1, <2>2, RewrittenIs
    <3>2. CASE Content[i].read
      BY <1>0, <1>1, <2>1, <3>1, <3>2 DEF InboxIsHanded
    <3>3. CASE p \in Readers /\ Marks(p, i)
      <4>1. Kind(p) = "teammate" /\ Holds(p)
        BY <1>0, <1>3, <3>3 DEF HoldsFor, Marking, Opens, Open, At
      <4>2. i = loc[p].index
        BY <3>3, <4>1 DEF Marks
      <4>3. t[i].id \in Ids(loc[p].new)
        BY <2>1, <3>1, <4>1, <4>2, IdsAre DEF Holds
      <4>4. Handing(Inbox[i].id)
        BY <2>1, <3>1, <3>3, <4>3 DEF Handing
      <4>5. QED
        BY <1>1, <2>1, <3>1, <4>4
    <3>4. QED
      BY <3>1, <3>2, <3>3
  <2>3. QED
    BY <2>1, <2>2 DEF InboxIsHanded, Handing
<1>4. CASE UNCHANGED vars
  BY <1>2, <1>4 DEF vars, Inbox, Writers, Content, At
<1>5. QED
  BY <1>0, <1>2, <1>3, <1>4, StepIs DEF Writes, Passes

\* The setup never changes.
LEMMA SetupStays == [Next]_vars => setup' = setup
  BY DEF Next, vars, Create, FillCreated, Look, Lock, GiveUp, Continue, Reread, Open, Write,
            Release, Crash

LEMMA HandInit == Init => HandInv
<1> SUFFICES ASSUME Init PROVE HandInv
  OBVIOUS
<1>1. \A r \in Readers : loc[r].pc = "idle" /\ loc[r].new = <<>>
  BY DEF Init, Start, Actors
<1>2. Content = <<>> /\ \A p \in Actors : ~At(p, "write")
  BY DEF Init, Content, Start, At
<1>3. Inbox = <<>>
  BY <1>2 DEF Inbox, Writers
<1>4. QED
  BY <1>1, <1>3 DEF HandInv, Handed, InboxIsHanded, HoldsFor, Marking, At

LEMMA HandNext == MailInv /\ HandInv /\ [Next]_vars => HandInv'
<1> SUFFICES ASSUME MailInv, HandInv, [Next]_vars, Teammate', damage' = {} PROVE Handed'
  BY DEF HandInv, Handed
<1>1. Teammate /\ Handed
  BY SetupStays, DamageStays DEF Teammate, Kind, HandInv, Handed
<1>2. QED
  BY <1>1, HoldsNext, InboxHandedNext DEF Handed

\* A message that was written stays in the inbox, however writers, readers and
\* stale locks follow each other, and a teammate's message is marked as read
\* only when it is handed over, until a crash or a creation tears the file.
THEOREM MessagesAreAlwaysSafe == Spec => []MessagesAreSafe
<1>1. Init => MailInv /\ HandInv
  BY MailInit, HandInit
<1>2. (MailInv /\ HandInv) /\ [Next]_vars => (MailInv /\ HandInv)'
  BY MailNext, HandNext
<1>3. MailInv /\ HandInv => MessagesAreSafe
  <2>1. SUFFICES ASSUME MailInv, HandInv, damage = {}
               PROVE  sent \subseteq Held /\ (Teammate => ReadIsHanded)
    BY DEF MessagesAreSafe, MessagesAreKept, ReadMeansHanded
  <2>2. LockIsHeld /\ Undamaged
    BY <2>1 DEF MailInv
  <2>3. sent \subseteq Held
    BY <2>2, InboxIsHeld DEF Undamaged
  <2>4. ASSUME Teammate, NEW i \in DOMAIN Content, Content[i].read
        PROVE  handed[Content[i].id] > 0 \/ Handing(Content[i].id)
    <3>1. Inbox = Content
      BY <2>2, <2>4, LookSeesInbox
    <3>2. QED
      BY <2>1, <2>4, <3>1 DEF HandInv, Handed, InboxIsHanded
  <2>5. QED
    BY <2>3, <2>4 DEF ReadIsHanded, ToSet
<1>4. QED
  BY <1>1, <1>2, <1>3, PTL DEF Spec

-----------------------------------------------------------------------------
(* A teammate takes the messages of a sender in order. *)

\* What stands before the message at a reader's index stays handed over.
LEMMA FirstNext ==
  ASSUME MailInv, HandInv, OrderInv, Alone, Teammate, damage' = {}, [Next]_vars, NEW r \in Readers
  PROVE  FirstFor(r)'
<1>0. /\ MailTypes /\ LockIsHeld /\ LockIsHeld' /\ Undamaged /\ Handed /\ FirstFor(r)
      /\ \A q \in Readers : HoldsFor(q)
      /\ loc \in [Actors -> Local] /\ Readers \subseteq Actors /\ r \notin Messages
      /\ setup' = setup
  BY DamageStays, LockIsHeldNext, SetupStays, MailboxAssumption
     DEF MailInv, MailTypes, HandInv, OrderInv, Handed, Actors
<1>1. ASSUME Marking(r), loc'[r].index = loc[r].index,
             DOMAIN Inbox \subseteq DOMAIN Inbox', \A i \in DOMAIN Inbox : Inbox'[i].id = Inbox[i].id,
             \A i \in DOMAIN Inbox' \ DOMAIN Inbox, j \in DOMAIN Inbox : ~ (i < j)
      PROVE  FirstFor(r)'
  <2>1. loc[r].index \in DOMAIN Inbox
    BY <1>0, <1>1 DEF HoldsFor, Holds
  <2>2. ASSUME NEW i \in DOMAIN Inbox', i < loc[r].index,
             From[Inbox'[i].id] = From[Inbox'[loc[r].index].id],
               Inbox'[loc[r].index].id \notin setup.shutdown
        PROVE  handed'[Inbox'[i].id] > 0
    <3>1. i \in DOMAIN Inbox /\ Inbox'[i].id = Inbox[i].id
      BY <1>1, <2>1, <2>2
    <3>2. handed[Inbox[i].id] > 0
      BY <1>0, <1>1, <2>1, <2>2, <3>1 DEF FirstFor
    <3>3. Inbox[i].id \in Messages
      BY <1>0, <3>1, InboxType DEF Entry
    <3>4. QED
      BY <1>0, <3>1, <3>2, <3>3, StillHanded
  <2>3. QED
    BY <1>0, <1>1, <2>2 DEF FirstFor
<1>2. CASE UNCHANGED vars
  <2>1. Inbox' = Inbox /\ loc' = loc /\ handed' = handed
    BY <1>2 DEF vars, Inbox, Writers, Content, At
  <2>2. QED
    BY <1>0, <2>1 DEF FirstFor, Marking
<1>3. ASSUME NEW p \in Actors, Opens(p) \/ Writes(p) \/ Passes(p) PROVE FirstFor(r)'
  <2>1. /\ DOMAIN Inbox \subseteq DOMAIN Inbox' /\ \A i \in DOMAIN Inbox : Inbox'[i].id = Inbox[i].id
        /\ Others(p)
    BY <1>0, <1>3, PlacesStay DEF Writes, Passes, Opens, GoesOn
  <2>2. \A i \in DOMAIN Inbox' \ DOMAIN Inbox, j \in DOMAIN Inbox : ~ (i < j)
    <3>1. CASE Opens(p)
      <4>1. PICK t : t = Rewritten(p) /\ Inbox' = t /\ Inbox = Content
        BY <3>1 DEF Opens
      <4>2. PICK n \in Nat : DOMAIN Content = 1..n
        BY <1>0, ContentType DEF MailTypes
      <4>3. DOMAIN t \subseteq Nat
        BY <1>0, <4>1, RewrittenType, LenProperties DEF MailTypes
      <4>4. ASSUME NEW i \in DOMAIN t \ DOMAIN Content, NEW j \in DOMAIN Content PROVE ~ (i < j)
        <5>1. j < i
          BY <1>0, <4>1, <4>4, RewrittenIs
        <5>2. i \in Nat /\ j \in Nat
          BY <4>2, <4>3, <4>4
        <5>3. QED
          BY <5>1, <5>2
      <4>5. QED
        BY <4>1, <4>4
    <3>2. CASE Inbox' = Inbox
      BY <3>2
    <3>3. QED
      BY <1>3, <3>1, <3>2 DEF Writes, Passes
  <2>3. CASE Marking(r) /\ loc'[r].index = loc[r].index
    BY <1>1, <2>1, <2>2, <2>3
  <2>4. CASE r # p
    <3>1. loc'[r] = loc[r]
      BY <1>0, <2>1, <2>4 DEF Others
    <3>2. QED
      BY <2>3, <3>1 DEF FirstFor, Marking
  <2>5. CASE r = p /\ (Opens(p) \/ Writes(p) \/ Lock(p) \/ Reread(p))
    <3>1. CASE Opens(p) \/ Writes(p)
      BY <2>3, <2>5, <3>1 DEF Opens, Writes, Open, Write, GoesOn, Marking, At
    <3>2. CASE Lock(p)
      <4>1. GoesOn(p, "read") /\ Marking(r)
        BY <1>0, <2>5, <3>2, GoGoesOn DEF PCs, Lock, Marking, At
      <4>2. QED
        BY <2>3, <2>5, <4>1 DEF GoesOn
    <3>3. CASE Reread(p)
      BY <1>0, <2>3, <2>5, <3>3, RereadDoes DEF Marking, At
    <3>4. QED
      BY <2>5, <3>1, <3>2, <3>3
  <2>6. CASE r = p /\ (GiveUp(p) \/ Release(p))
    <3>1. Ends(r)
      BY <1>0, <2>6, ReturnEnds DEF GiveUp, Release
    <3>2. QED
      BY <3>1 DEF Ends, FirstFor, Marking
  <2>7. CASE r = p /\ Crash(p)
    <3>1. loc'[r].pc = "crashed"
      BY <1>0, <2>7, GoGoesOn DEF PCs, Crash, GoesOn
    <3>2. QED
      BY <3>1 DEF FirstFor, Marking
  <2>8. CASE r = p /\ Look(r)
    <3>1. Kind(r) = "teammate" /\ At(r, "idle")
      BY <1>0, <2>8, LookDoes DEF Teammate
    <3>2. PICK k \in Chosen(Content) : loc'[r].index = k
      BY <1>0, <2>8, <3>1, LookDoes
    <3>3. /\ k \in DOMAIN Content
          /\ \A i \in DOMAIN Content :
               /\ i < k /\ From[Content[i].id] = From[Content[k].id]
               /\ Content[k].id \notin setup.shutdown
               => Content[i].read
      BY <1>0, <3>2, ChosenIs DEF MailTypes
    <3>4. Inbox = Content /\ Inbox' = Inbox
      <4>1. Content # <<>>
        BY <3>3
      <4>2. Inbox = Content
        BY <1>0, <4>1, LookSeesInbox
      <4>3. Inbox' = Inbox
        BY <1>0, <1>3, <2>8, <3>1 DEF Writes, Passes, Opens, Open, At
      <4>4. QED
        BY <4>2, <4>3
    <3>5. \A x : ~Handing(x)
      <4>1. ASSUME NEW q \in Readers PROVE loc[q].new = <<>>
        <5>1. CASE q = r
          BY <1>0, <3>1, <5>1 DEF HoldsFor
        <5>2. CASE q # r
          <6>1. Kind(q) = "off"
            BY <3>1, <5>2 DEF Alone, Teammate
          <6>2. QED
            BY <1>0, <6>1 DEF HoldsFor
        <5>3. QED
          BY <5>1, <5>2
      <4>2. QED
        BY <4>1, IdsAre DEF Handing
    <3>6. ASSUME NEW i \in DOMAIN Inbox, i < k, From[Inbox[i].id] = From[Inbox[k].id],
                 Inbox[k].id \notin setup.shutdown
          PROVE  handed'[Inbox[i].id] > 0
      <4>1. Inbox[i].read
        BY <3>3, <3>4, <3>6
      <4>2. handed[Inbox[i].id] > 0
        BY <1>0, <3>5, <4>1 DEF Handed, InboxIsHanded
      <4>3. QED
        BY <1>0, <3>1, <2>8, <4>2, LookDoes
    <3>7. QED
      BY <1>0, <3>2, <3>4, <3>6 DEF FirstFor
  <2>9. QED
    BY <1>0, <1>3, <2>4, <2>5, <2>6, <2>7, <2>8 DEF Passes
<1>4. QED
  BY <1>0, <1>2, <1>3, StepIs

LEMMA OrderInit == Init => OrderInv
  BY DEF Init, OrderInv, FirstFor, Marking, Start, Actors

LEMMA OrderNext == MailInv /\ HandInv /\ OrderInv /\ [Next]_vars => OrderInv'
<1> SUFFICES ASSUME MailInv, HandInv, OrderInv, [Next]_vars, Alone', Teammate', damage' = {},
                    NEW r \in Readers
             PROVE  FirstFor(r)'
  BY DEF OrderInv
<1>1. Alone /\ Teammate
  BY SetupStays DEF Alone, Teammate, Kind
<1>2. QED
  BY <1>1, FirstNext

InOrder ==
  \A i, j \in DOMAIN Content :
    LET m == Content[i].id
        n == Content[j].id
    IN i < j /\ From[m] = From[n] /\ n \notin setup.shutdown /\ handed[n] = 0 /\ handed'[n] = 1
       => handed[m] > 0

LEMMA StepInOrder ==
  ASSUME MailInv, HandInv, OrderInv, Alone, Teammate, damage = {}, [Next]_vars
  PROVE  InOrder
<1>0. /\ MailTypes /\ LockIsHeld /\ Undamaged /\ Handed
      /\ \A r \in Readers : HoldsFor(r) /\ FirstFor(r)
      /\ handed \in [Messages -> 0..2] /\ Readers \cap Messages = {}
  BY MailboxAssumption DEF MailInv, MailTypes, TypeOK, HandInv, OrderInv, Handed
<1>1. SUFFICES ASSUME NEW i \in DOMAIN Content, NEW j \in DOMAIN Content, NEW m, NEW n,
                      m = Content[i].id, n = Content[j].id, i < j,
                      From[m] = From[n], n \notin setup.shutdown, handed[n] = 0, handed'[n] = 1
               PROVE  handed[m] > 0
  BY DEF InOrder
<1>2. Inbox = Content
  BY <1>0, <1>1, LookSeesInbox
<1>3. handed' # handed
  BY <1>1
<1>4. PICK r \in Readers : (GiveUp(r) \/ Release(r)) /\ Hand(Ids(loc[r].new))
  <2>1. \A p \in Actors : ~(Lock(p) \/ Reread(p) \/ Open(p) \/ Write(p) \/ Crash(p))
    BY <1>3 DEF Lock, Reread, Open, Write, Crash
  <2>2. \A q \in Messages : ~(Create(q) \/ FillCreated(q))
    BY <1>3 DEF Create, FillCreated
  <2>3. \A q \in Readers : ~Look(q)
    BY <1>0, <1>3, LookDoes DEF Teammate
  <2>4. PICK p \in Actors : GiveUp(p) \/ Release(p)
    BY <1>3, <2>1, <2>2, <2>3 DEF Next, Continue, vars
  <2>5. Return(p)
    BY <2>4 DEF GiveUp, Release
  <2>6. p \in Readers /\ Hand(Ids(loc[p].new))
    BY <1>3, <2>5 DEF Return
  <2>7. QED
    BY <2>4, <2>6
<1>5. Marking(r) /\ Holds(r)
  BY <1>0, <1>4 DEF GiveUp, Release, HoldsFor, Marking, At
<1>6. n \in Messages
  BY <1>0, <1>1, ContentType DEF MailTypes, Entry
<1>7. n \in Ids(loc[r].new)
  BY <1>0, <1>1, <1>4, <1>6, HandKeeps
<1>8. n = Inbox[loc[r].index].id /\ loc[r].index \in DOMAIN Inbox
  BY <1>5, <1>7, IdsAre DEF Holds
<1>9. j = loc[r].index
  BY <1>0, <1>1, <1>2, <1>8 DEF Undamaged, Once
<1>10. QED
  BY <1>0, <1>1, <1>2, <1>5, <1>9 DEF FirstFor

LEMMA SameSetup == Alone /\ [Next]_vars => Alone'
  BY SetupStays DEF Alone, Kind

\* A teammate that reads its inbox alone hands over the messages of a sender in
\* the order in which they came, but for requests to shut down.
THEOREM TeammatesTakeThemInOrder == Spec /\ Alone => HandedInOrder
<1>1. Init => MailInv /\ HandInv /\ OrderInv
  BY MailInit, HandInit, OrderInit
<1>2. (MailInv /\ HandInv /\ OrderInv) /\ [Next]_vars => (MailInv /\ HandInv /\ OrderInv)'
  BY MailNext, HandNext, OrderNext
<1>3. (MailInv /\ HandInv /\ OrderInv) /\ Alone /\ [Next]_vars => [Teammate /\ damage = {} => InOrder]_vars
  BY StepInOrder
<1>4. Spec /\ Alone => [][Teammate /\ damage = {} => InOrder]_vars
  BY <1>1, <1>2, <1>3, SameSetup, PTL DEF Spec
<1>5. QED
  BY <1>4 DEF HandedInOrder, InOrder

(***************************************************************************)
(* The scheduler's lock.                                                   *)
(***************************************************************************)

Acquiring == {"create", "fill", "read", "adopt", "unlink", "again"}
Places == Acquiring \cup {"off", "passive", "owner", "release", "remove", "dead"}

(* Whoever is about to fill the file he opened can still do so, and an      *)
(* owner is named by the file, unless he was robbed.                       *)
OpenedIsKept ==
  \A p \in Processes : pc[p] = "fill" /\ p \notin robbed => p \in lockFile.writers
OwnerIsNamed ==
  \A p \in Owners \ robbed : lockFile.names = p

LockInv == LockTypeOK /\ OpenedIsKept /\ OwnerIsNamed

\* The invariant holds at the start.
LEMMA InitLockInv == LockInit => LockInv
  BY LockAssumption DEF LockInit, NoFile, LockInv, LockTypeOK, OpenedIsKept, OwnerIsNamed, Owners

-----------------------------------------------------------------------------
(* What the actions do to the place of a process and to `stopped`. *)
LEMMA MovesType ==
  ASSUME pc \in [Processes -> Places], NEW p \in Processes, NEW where \in Places, Moves(p, where)
  PROVE  /\ pc' \in [Processes -> Places] /\ pc'[p] = where
         /\ \A q \in Processes \ {p} : pc'[q] = pc[q]
  BY DEF Moves

(* The end of an acquisition. *)
LEMMA AcquiredType ==
  ASSUME LockTypeOK, NEW p \in Processes, Acquired(p)
  PROVE  /\ pc' \in [Processes -> Places] /\ pc'[p] \in {"release", "owner"}
         /\ \A q \in Processes \ {p} : pc'[q] = pc[q]
         /\ stopped' \subseteq {q \in Processes : pc'[q] \in Acquiring}
<1>1. pc \in [Processes -> Places]
  BY DEF LockTypeOK, Places, Acquiring
<1>2. PICK where \in {"release", "owner"} : Moves(p, where)
  BY DEF Acquired
<1>3. where \in Places
  BY <1>2 DEF Places, Acquiring
<1>4. pc' \in [Processes -> Places] /\ pc'[p] = where /\ \A q \in Processes \ {p} : pc'[q] = pc[q]
  BY <1>1, <1>2, <1>3, MovesType
<1>5. QED
  BY <1>2, <1>4 DEF Acquired, LockTypeOK, Acquiring

\* What a process that is refused the lock becomes.
LEMMA BlockedType ==
  ASSUME LockTypeOK, NEW p \in Processes, Blocked(p)
  PROVE  /\ pc' \in [Processes -> Places] /\ pc'[p] \in {"off", "passive"}
         /\ \A q \in Processes \ {p} : pc'[q] = pc[q]
         /\ stopped' \subseteq {q \in Processes : pc'[q] \in Acquiring}
<1>1. pc \in [Processes -> Places]
  BY DEF LockTypeOK, Places, Acquiring
<1>2. PICK where \in {"off", "passive"} : Moves(p, where)
  BY DEF Blocked
<1>3. where \in Places
  BY <1>2 DEF Places, Acquiring
<1>4. pc' \in [Processes -> Places] /\ pc'[p] = where /\ \A q \in Processes \ {p} : pc'[q] = pc[q]
  BY <1>1, <1>2, <1>3, MovesType
<1>5. QED
  BY <1>2, <1>4 DEF Blocked, LockTypeOK, Acquiring

(* A move that stays within an acquisition or a release. *)
LEMMA MoveType ==
  ASSUME LockTypeOK, NEW p \in Processes,
         NEW where \in Acquiring,
         Moves(p, where), UNCHANGED stopped
  PROVE  /\ pc' \in [Processes -> Places] /\ pc'[p] = where
         /\ \A q \in Processes \ {p} : pc'[q] = pc[q]
         /\ stopped' \subseteq {q \in Processes : pc'[q] \in Acquiring}
<1>1. pc \in [Processes -> Places]
  BY DEF LockTypeOK, Places, Acquiring
<1>2. where \in Places
  BY DEF Places, Acquiring
<1>3. pc' \in [Processes -> Places] /\ pc'[p] = where /\ \A q \in Processes \ {p} : pc'[q] = pc[q]
  BY <1>1, <1>2, MovesType
<1>4. stopped \subseteq {q \in Processes : pc[q] \in Acquiring}
  BY DEF LockTypeOK, Acquiring
<1>5. QED
  BY <1>3, <1>4

-----------------------------------------------------------------------------
\* Every step keeps the invariant.
LEMMA StepLockInv == LockInv /\ [LockNext]_lockVars => LockInv'
<1> SUFFICES ASSUME LockInv, [LockNext]_lockVars PROVE LockInv'
  OBVIOUS
<1>0. /\ LockTypeOK /\ pc \in [Processes -> Places]
      /\ lockFile \in [there: BOOLEAN, writers: SUBSET Processes, names: Processes \cup {Nobody}]
      /\ lockFile.names # Nobody \/ lockFile.writers # {} => lockFile.there
      /\ robbed \subseteq Processes
      /\ stopped \subseteq {q \in Processes : pc[q] \in Acquiring}
      /\ deaths \in 0..MaxDeaths /\ starts \in 0..MaxStarts
      /\ Nobody \notin Processes /\ MaxDeaths \in Nat /\ MaxStarts \in Nat
  BY LockAssumption DEF LockInv, LockTypeOK, Places, Acquiring
<1>1. ASSUME NEW p \in Processes, StartScheduler(p) \/ Probe(p) PROVE LockInv'
  <2>1. Moves(p, "create") /\ UNCHANGED <<lockFile, stopped, robbed, deaths>> /\ starts' \in 0..MaxStarts
    BY <1>0, <1>1 DEF StartScheduler, Probe
  <2>2. /\ pc' \in [Processes -> Places] /\ pc'[p] = "create"
        /\ \A q \in Processes \ {p} : pc'[q] = pc[q]
        /\ stopped' \subseteq {q \in Processes : pc'[q] \in Acquiring}
    BY <1>0, <2>1, MoveType DEF Acquiring
  <2>3. LockTypeOK'
    BY <1>0, <2>1, <2>2 DEF LockTypeOK, Places, Acquiring
  <2>4. OpenedIsKept' /\ OwnerIsNamed'
    BY <1>0, <2>1, <2>2 DEF LockInv, OpenedIsKept, OwnerIsNamed, Owners
  <2>5. QED
    BY <2>3, <2>4 DEF LockInv
<1>2. ASSUME NEW p \in Processes, TryCreate(p) PROVE LockInv'
  <2>1. CASE lockFile.there
    <3>1. /\ UNCHANGED <<lockFile, robbed, deaths, starts>>
          /\ pc' \in [Processes -> Places] /\ pc'[p] \in {"read", "off", "passive"}
          /\ \A q \in Processes \ {p} : pc'[q] = pc[q]
          /\ stopped' \subseteq {q \in Processes : pc'[q] \in Acquiring}
      <4>1. CASE pc[p] = "create"
        BY <1>0, <1>2, <2>1, <4>1, MoveType DEF TryCreate, Acquiring
      <4>2. CASE pc[p] # "create"
        BY <1>0, <1>2, <2>1, <4>2, BlockedType DEF TryCreate
      <4>3. QED
        BY <4>1, <4>2
    <3>2. LockTypeOK'
      BY <1>0, <3>1 DEF LockTypeOK, Places, Acquiring
    <3>3. OpenedIsKept' /\ OwnerIsNamed'
      BY <1>0, <3>1 DEF LockInv, OpenedIsKept, OwnerIsNamed, Owners
    <3>4. QED
      BY <3>2, <3>3 DEF LockInv
  <2>2. CASE ~lockFile.there
    <3>1. /\ lockFile' = [there |-> TRUE, writers |-> {p}, names |-> Nobody]
          /\ robbed' = robbed \ {p} /\ UNCHANGED <<deaths, starts>>
      BY <1>2, <2>2 DEF TryCreate, Made
    <3>2. /\ pc' \in [Processes -> Places] /\ pc'[p] = "fill"
          /\ \A q \in Processes \ {p} : pc'[q] = pc[q]
          /\ stopped' \subseteq {q \in Processes : pc'[q] \in Acquiring}
      BY <1>0, <1>2, <2>2, MoveType DEF TryCreate, Acquiring
    <3>3. LockTypeOK'
      BY <1>0, <3>1, <3>2 DEF LockTypeOK, Places, Acquiring
    <3>4. lockFile.writers = {} /\ lockFile.names = Nobody
      BY <1>0, <2>2
    <3>5. OpenedIsKept' /\ OwnerIsNamed'
      BY <1>0, <3>1, <3>2, <3>4 DEF LockInv, OpenedIsKept, OwnerIsNamed, Owners
    <3>6. QED
      BY <3>3, <3>5 DEF LockInv
  <2>3. QED
    BY <2>1, <2>2
<1>3. ASSUME NEW p \in Processes, Fill(p) PROVE LockInv'
  <2>1. /\ pc' \in [Processes -> Places] /\ pc'[p] \in {"release", "owner"}
        /\ \A q \in Processes \ {p} : pc'[q] = pc[q]
        /\ stopped' \subseteq {q \in Processes : pc'[q] \in Acquiring}
        /\ UNCHANGED <<deaths, starts>> /\ pc[p] = "fill"
    BY <1>0, <1>3, AcquiredType DEF Fill
  <2>2. CASE p \in lockFile.writers
    <3>1. /\ lockFile'.there = lockFile.there /\ lockFile'.writers = lockFile.writers \ {p}
          /\ lockFile'.names = p
          /\ robbed' = robbed \cup ({lockFile.names} \ {p, Nobody})
      BY <1>0, <1>3, <2>2 DEF Fill
    <3>2. LockTypeOK'
      <4>1. lockFile' \in [there: BOOLEAN, writers: SUBSET Processes, names: Processes \cup {Nobody}]
        <5>1. lockFile' = [lockFile EXCEPT !.writers = @ \ {p}, !.names = p]
          BY <1>3, <2>2 DEF Fill
        <5>2. lockFile' = [there |-> lockFile.there, writers |-> lockFile.writers \ {p}, names |-> p]
          BY <1>0, <5>1
        <5>3. QED
          BY <1>0, <5>2
      <4>2. robbed' \subseteq Processes /\ lockFile'.there
        BY <1>0, <2>2, <3>1
      <4>3. QED
        BY <1>0, <2>1, <4>1, <4>2 DEF LockTypeOK, Places, Acquiring
    <3>3. OpenedIsKept' /\ OwnerIsNamed'
      BY <1>0, <2>1, <3>1 DEF LockInv, OpenedIsKept, OwnerIsNamed, Owners
    <3>4. QED
      BY <3>2, <3>3 DEF LockInv
  <2>3. CASE p \notin lockFile.writers
    <3>1. UNCHANGED <<lockFile, robbed>> /\ p \in robbed
      BY <1>3, <2>1, <2>3 DEF Fill, LockInv, OpenedIsKept
    <3>2. LockTypeOK'
      BY <1>0, <2>1, <3>1 DEF LockTypeOK, Places, Acquiring
    <3>3. OpenedIsKept' /\ OwnerIsNamed'
      BY <1>0, <2>1, <3>1 DEF LockInv, OpenedIsKept, OwnerIsNamed, Owners
    <3>4. QED
      BY <3>2, <3>3 DEF LockInv
  <2>4. QED
    BY <2>2, <2>3
<1>4. ASSUME NEW p \in Processes, Read(p) PROVE LockInv'
  <2>1. UNCHANGED <<lockFile, robbed, deaths, starts>> /\ pc[p] = "read"
    BY <1>4 DEF Read
  <2>2. \/ lockFile.names = p /\ Acquired(p)
        \/ Blocked(p)
        \/ \E where \in {"adopt", "unlink"} : Moves(p, where) /\ UNCHANGED stopped
    BY <1>4 DEF Read
  <2>3. /\ pc' \in [Processes -> Places]
        /\ \/ pc'[p] \in {"release", "off", "passive", "adopt", "unlink"}
           \/ lockFile.names = p /\ pc'[p] = "owner"
        /\ \A q \in Processes \ {p} : pc'[q] = pc[q]
        /\ stopped' \subseteq {q \in Processes : pc'[q] \in Acquiring}
    <3>1. ASSUME lockFile.names = p, Acquired(p)
          PROVE  /\ pc' \in [Processes -> Places] /\ pc'[p] \in {"release", "owner"}
                 /\ \A q \in Processes \ {p} : pc'[q] = pc[q]
                 /\ stopped' \subseteq {q \in Processes : pc'[q] \in Acquiring}
      BY <1>0, <3>1, AcquiredType
    <3>2. ASSUME Blocked(p)
          PROVE  /\ pc' \in [Processes -> Places] /\ pc'[p] \in {"off", "passive"}
                 /\ \A q \in Processes \ {p} : pc'[q] = pc[q]
                 /\ stopped' \subseteq {q \in Processes : pc'[q] \in Acquiring}
      BY <1>0, <3>2, BlockedType
    <3>3. ASSUME \E where \in {"adopt", "unlink"} : Moves(p, where) /\ UNCHANGED stopped
          PROVE  /\ pc' \in [Processes -> Places] /\ pc'[p] \in {"adopt", "unlink"}
                 /\ \A q \in Processes \ {p} : pc'[q] = pc[q]
                 /\ stopped' \subseteq
                      {q \in Processes : pc'[q] \in Acquiring}
      BY <1>0, <3>3, MoveType DEF Acquiring
    <3>4. QED
      BY <2>2, <3>1, <3>2, <3>3
  <2>4. LockTypeOK'
    BY <1>0, <2>1, <2>3 DEF LockTypeOK, Places, Acquiring
  <2>5. OpenedIsKept' /\ OwnerIsNamed'
    BY <1>0, <2>1, <2>3 DEF LockInv, OpenedIsKept, OwnerIsNamed, Owners
  <2>6. QED
    BY <2>4, <2>5 DEF LockInv
<1>5. ASSUME NEW p \in Processes, Adopt(p) PROVE LockInv'
  <2>1. /\ lockFile' = [there |-> TRUE, writers |-> lockFile.writers \cup {p}, names |-> Nobody]
        /\ robbed' = robbed \cup ((lockFile.writers \cup {lockFile.names}) \ {p, Nobody})
        /\ UNCHANGED <<deaths, starts>> /\ pc[p] = "adopt"
    BY <1>5 DEF Adopt, Rob, Victims
  <2>2. /\ pc' \in [Processes -> Places] /\ pc'[p] = "fill"
        /\ \A q \in Processes \ {p} : pc'[q] = pc[q]
        /\ stopped' \subseteq {q \in Processes : pc'[q] \in Acquiring}
    BY <1>0, <1>5, MoveType DEF Adopt, Acquiring
  <2>3. LockTypeOK'
    BY <1>0, <2>1, <2>2 DEF LockTypeOK, Places, Acquiring
  <2>4. OpenedIsKept' /\ OwnerIsNamed'
    BY <1>0, <2>1, <2>2 DEF LockInv, OpenedIsKept, OwnerIsNamed, Owners
  <2>5. QED
    BY <2>3, <2>4 DEF LockInv
<1>6. ASSUME NEW p \in Processes, Unlink(p) \/ RemoveLock(p) PROVE LockInv'
  <2>1. /\ lockFile' = [there |-> FALSE, writers |-> {}, names |-> Nobody]
        /\ robbed' = robbed \cup ((lockFile.writers \cup {lockFile.names}) \ {p, Nobody})
        /\ UNCHANGED <<stopped, deaths, starts>> /\ pc[p] \in {"unlink", "remove"}
    BY <1>6 DEF Unlink, RemoveLock, Rob, Victims, NoFile
  <2>2. /\ pc' \in [Processes -> Places]
        /\ pc'[p] = IF pc[p] = "unlink" THEN "again" ELSE "off"
        /\ \A q \in Processes \ {p} : pc'[q] = pc[q]
    BY <1>0, <1>6 DEF Unlink, RemoveLock, Moves, Places, Acquiring
  <2>3. stopped' \subseteq {q \in Processes : pc'[q] \in Acquiring}
    BY <1>0, <1>6, <2>1, <2>2 DEF Acquiring
  <2>4. LockTypeOK'
    BY <1>0, <2>1, <2>2, <2>3 DEF LockTypeOK, Places, Acquiring
  <2>5. OpenedIsKept' /\ OwnerIsNamed'
    BY <1>0, <2>1, <2>2 DEF LockInv, OpenedIsKept, OwnerIsNamed, Owners
  <2>6. QED
    BY <2>4, <2>5 DEF LockInv
<1>7. ASSUME NEW p \in Processes, Stop(p) \/ ReleaseLock(p) PROVE LockInv'
  <2>1. UNCHANGED <<lockFile, robbed, deaths, starts>>
    BY <1>7 DEF Stop, ReleaseLock
  <2>2. /\ pc' \in [Processes -> Places]
        /\ pc'[p] # pc[p] => pc'[p] \in {"release", "off", "remove"}
        /\ \A q \in Processes \ {p} : pc'[q] = pc[q]
        /\ stopped' \subseteq {q \in Processes : pc'[q] \in Acquiring}
    BY <1>0, <1>7 DEF Stop, ReleaseLock, Moves, Places, Acquiring
  <2>3. LockTypeOK'
    BY <1>0, <2>1, <2>2 DEF LockTypeOK, Places, Acquiring
  <2>4. OpenedIsKept' /\ OwnerIsNamed'
    BY <1>0, <2>1, <2>2 DEF LockInv, OpenedIsKept, OwnerIsNamed, Owners
  <2>5. QED
    BY <2>3, <2>4 DEF LockInv
<1>8. ASSUME NEW p \in Processes, Die(p) PROVE LockInv'
  <2>1. /\ lockFile'.there = lockFile.there /\ lockFile'.writers = lockFile.writers \ {p}
        /\ lockFile'.names = lockFile.names
        /\ lockFile' \in [there: BOOLEAN, writers: SUBSET Processes, names: Processes \cup {Nobody}]
        /\ stopped' = stopped \ {p} /\ deaths' \in 0..MaxDeaths
        /\ UNCHANGED <<robbed, starts>>
    BY <1>0, <1>8 DEF Die
  <2>2. /\ pc' \in [Processes -> Places] /\ pc'[p] = "dead"
        /\ \A q \in Processes \ {p} : pc'[q] = pc[q]
    BY <1>0, <1>8 DEF Die, Moves, Places, Acquiring
  <2>3. stopped' \subseteq {q \in Processes : pc'[q] \in Acquiring}
    BY <1>0, <2>1, <2>2
  <2>4. LockTypeOK'
    BY <1>0, <2>1, <2>2, <2>3 DEF LockTypeOK, Places, Acquiring
  <2>5. OpenedIsKept' /\ OwnerIsNamed'
    BY <1>0, <2>1, <2>2 DEF LockInv, OpenedIsKept, OwnerIsNamed, Owners
  <2>6. QED
    BY <2>4, <2>5 DEF LockInv
<1>9. CASE UNCHANGED lockVars
  BY <1>9 DEF lockVars, LockInv, LockTypeOK, OpenedIsKept, OwnerIsNamed, Owners
<1>10. QED
  BY <1>1, <1>2, <1>3, <1>4, <1>5, <1>6, <1>7, <1>8, <1>9 DEF LockNext, Proceed

-----------------------------------------------------------------------------
(* The lock is kept as the invariant says, on every path. *)
THEOREM LockInvIsKept == LockSpec => []LockInv
  BY InitLockInv, StepLockInv, PTL DEF LockSpec

(* Each variable has the values the code gives it. *)
THEOREM LockIsTyped == LockSpec => []LockTypeOK
<1>1. LockInv => LockTypeOK
  BY DEF LockInv
<1>2. QED
  BY <1>1, LockInvIsKept, PTL

(* Two schedulers own the lock together only when the lock file of one was  *)
(* removed or overwritten under it (tryAcquireSchedulerLock).              *)
THEOREM OwnersAreAloneInSpec == LockSpec => []OwnersAreAlone
<1>1. LockInv => OwnersAreAlone
  BY DEF LockInv, OwnerIsNamed, OwnersAreAlone, Owners
<1>2. QED
  BY <1>1, LockInvIsKept, PTL
=============================================================================
