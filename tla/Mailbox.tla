------------------------------- MODULE Mailbox -------------------------------
(***************************************************************************)
(* The inbox file of one member of a team                                  *)
(* (src/src/utils/teammateMailbox.ts) and those who read it: the poller of *)
(* an interactive session (hooks/useInboxPoller.ts), the attachments of    *)
(* its turns (utils/attachments.ts), the loop of a session without a       *)
(* terminal (cli/print.ts) and the loop of a teammate inside the leader's  *)
(* process (utils/swarm/inProcessRunner.ts).                               *)
(*                                                                         *)
(* A call is cut where it awaits the file system.  A file is opened (and   *)
(* emptied, or created) in one step and filled in another; reading it is   *)
(* one step.  Every call of writeToMailbox is an actor of its own, named   *)
(* by its message.                                                         *)
(***************************************************************************)
EXTENDS Naturals, FiniteSetsExt, SequencesExt, Filtering

CONSTANTS
  Messages,
  From,        \* [Messages -> senders]
  Lead,        \* the sender that is the team's lead
  Protocol,    \* the messages that are structured
  Readers,     \* the loops that read the inbox
  Setups,      \* what each of them is, whether the inbox exists, and which
               \* messages there are and which ask a teammate to shut down
  MaxCrashes,  \* bound
  None, Absent, Empty, Corrupt

Kinds == {"poll", "attach", "print", "teammate", "off"}
Actors == Messages \cup Readers

ASSUME MailboxAssumption ==
  /\ Messages \cap Readers = {} /\ None \notin Actors
  /\ Protocol \subseteq Messages
  /\ Setups \subseteq [kind : [Readers -> Kinds], exists : BOOLEAN, shutdown : SUBSET Protocol,
                 cast : SUBSET Messages]
  /\ MaxCrashes \in Nat

Entry == [id : Messages, read : BOOLEAN]

ASSUME UnreadableAssumption == \A state \in {Absent, Empty, Corrupt} : state \notin Seq(Entry)

VARIABLES
  setup,
  file,      \* the messages in the inbox, or one of the states of a file
             \* that cannot be parsed
  lock,      \* who holds the lock file
  loc,       \* where each actor stands, with what it holds in memory
  handed,    \* how often a message was handed over, at most twice
  sent,      \* the messages whose call wrote them (history)
  crashes,   \* crashes so far
  damage     \* what made the file unreadable (history)

vars == <<setup, file, lock, loc, handed, sent, crashes, damage>>

At(p, place) == loc[p].pc = place
Go(p, place) == loc' = [loc EXCEPT ![p].pc = place]
Kind(r) == setup.kind[r]

Start == [pc |-> "idle", msgs |-> <<>>, index |-> 0, new |-> <<>>]

Init ==
  /\ setup \in Setups
  /\ file = IF setup.exists THEN <<>> ELSE Absent
  /\ lock = None
  /\ loc = [p \in Actors |-> Start]
  /\ handed = [m \in Messages |-> 0] /\ sent = {}
  /\ crashes = 0 /\ damage = {}

-----------------------------------------------------------------------------
(* readMailbox: what cannot be read or parsed counts as no messages. *)
Content == IF file \in {Absent, Empty, Corrupt} THEN <<>> ELSE file
Ids(entries) == {e.id : e \in ToSet(entries)}

Unread(e) == ~e.read
Regular(e) == e.id \notin Protocol

Hand(ids) ==
  handed' = [m \in Messages |-> IF m \in ids /\ handed[m] < 2 THEN handed[m] + 1 ELSE handed[m]]

-----------------------------------------------------------------------------
(* writeToMailbox. *)

(* The inbox is created, without the lock, when there is none. *)
Create(m) ==
  /\ At(m, "idle") /\ m \in setup.cast
  /\ IF file = Absent
     THEN file' = Empty /\ Go(m, "create")
     ELSE UNCHANGED file /\ Go(m, "lock")
  /\ UNCHANGED <<setup, lock, handed, sent, crashes, damage>>

(* Its "[]" is written at the start of whatever the file holds by then. *)
FillCreated(m) ==
  /\ At(m, "create")
  /\ file' = IF file \in {Empty, <<>>} THEN <<>> ELSE Corrupt
  /\ damage' = IF file \in {Empty, <<>>} THEN damage ELSE damage \cup {"creation"}
  /\ Go(m, "lock")
  /\ UNCHANGED <<setup, lock, handed, sent, crashes>>

-----------------------------------------------------------------------------
(* What every change of the inbox does. *)

Crashed(p) == p # None /\ At(p, "crashed")

(* Mutant: a lock that was left behind stays. *)
LockFree(p) ==
  /\ At(p, "lock") /\ lock = None
  /\ lock' = p
  /\ Go(p, "read")
  /\ UNCHANGED <<setup, file, handed, sent, crashes, damage>>

(* The lock of a process that died is stale at last, and broken. *)
Lock(p) ==
  /\ At(p, "lock")
  /\ lock = None \/ Crashed(lock)
  /\ lock' = p
  /\ Go(p, "read")
  /\ UNCHANGED <<setup, file, handed, sent, crashes, damage>>

(* Mutant: what was first read is written back. *)
SeenMarked(r) == [i \in DOMAIN loc[r].new |-> [loc[r].new[i] EXCEPT !.read = TRUE]]

(* The inbox with what this reader marks: all messages (markMessagesAsRead),*)
(* those that are not structured (markMessagesAsReadByPredicate), or the   *)
(* one at an index (markMessageAsReadByIndex).                             *)
Marks(r, i) ==
  CASE Kind(r) = "attach" -> Regular(Content[i])
    [] Kind(r) = "teammate" -> i = loc[r].index
    [] OTHER -> TRUE

Marked(r) ==
  [i \in DOMAIN Content |-> [Content[i] EXCEPT !.read = @ \/ Marks(r, i)]]

(* Mutant: an empty inbox is written as well. *)
RereadAlways(p) ==
  /\ At(p, "read")
  /\ LET next == IF p \in Messages THEN Append(Content, [id |-> p, read |-> FALSE]) ELSE Marked(p)
     IN loc' = [loc EXCEPT ![p].pc = "open", ![p].msgs = next]
  /\ UNCHANGED <<setup, file, lock, handed, sent, crashes, damage>>

(* The inbox is read again, under the lock.  Nothing is written when there *)
(* is nothing to mark.                                                     *)
Reread(p) ==
  /\ At(p, "read")
  /\ LET next == IF p \in Messages THEN Append(Content, [id |-> p, read |-> FALSE]) ELSE Marked(p)
         same == p \in Readers /\ (Content = <<>> \/ (Kind(p) = "teammate" /\ next = Content))
     IN loc' = [loc EXCEPT ![p].pc = IF same THEN "release" ELSE "open", ![p].msgs = next]
  /\ UNCHANGED <<setup, file, lock, handed, sent, crashes, damage>>

Open(p) ==
  /\ At(p, "open")
  /\ file' = Empty
  /\ Go(p, "write")
  /\ UNCHANGED <<setup, lock, handed, sent, crashes, damage>>

Write(p) ==
  /\ At(p, "write")
  /\ file' = loc[p].msgs
  /\ sent' = IF p \in Messages THEN sent \cup {p} ELSE sent
  /\ Go(p, "release")
  /\ UNCHANGED <<setup, lock, handed, crashes, damage>>

(* The reader goes back to its loop with what it looked at first. *)
Return(p) ==
  /\ loc' = [loc EXCEPT ![p] = [Start EXCEPT !.pc = IF p \in Messages THEN "done" ELSE "idle"]]
  /\ IF p \in Readers /\ Kind(p) # "poll" THEN Hand(Ids(loc[p].new)) ELSE UNCHANGED handed

Release(p) ==
  /\ At(p, "release")
  /\ lock' = IF lock = p THEN None ELSE lock
  /\ Return(p)
  /\ UNCHANGED <<setup, file, sent, crashes, damage>>

(* All the attempts at the lock fail: the error is logged and the call     *)
(* returns as if nothing had happened.                                     *)
GiveUp(p) ==
  /\ At(p, "lock") /\ lock \notin {None, p}
  /\ Return(p)
  /\ UNCHANGED <<setup, file, lock, sent, crashes, damage>>

-----------------------------------------------------------------------------
(* The readers. *)

First(indices) == IF indices = {} THEN {} ELSE {Min(indices)}

(* Mutant: the last message is taken. *)
ChosenLast(entries) ==
  LET unread == {i \in DOMAIN entries : Unread(entries[i])}
  IN IF unread = {} THEN {} ELSE {Max(unread)}

(* waitForNextPromptOrShutdown: a shutdown request first, then the lead's   *)
(* messages, then the others, in their order.                              *)
Chosen(entries) ==
  LET unread == {i \in DOMAIN entries : Unread(entries[i])}
      shutdown == {i \in unread : entries[i].id \in setup.shutdown}
      lead == {i \in unread : From[entries[i].id] = Lead}
  IN First(IF shutdown # {} THEN shutdown ELSE IF lead # {} THEN lead ELSE unread)

(* A look at the inbox, without the lock.  The poller hands its messages   *)
(* to the session at once and leaves the marking to run on its own; the    *)
(* others wait for it.                                                     *)
Look(r) ==
  /\ At(r, "idle") /\ Kind(r) # "off"
  /\ IF Kind(r) = "teammate"
     THEN \E i \in Chosen(Content) :
            loc' = [loc EXCEPT ![r] = [Start EXCEPT !.pc = "lock", !.index = i, !.new = <<Content[i]>>]]
     ELSE LET skipped(e) == ~Unread(e) \/ (Kind(r) = "attach" /\ ~Regular(e))
              new == Dropping(Content, {e \in ToSet(Content) : skipped(e)})
          IN /\ new # <<>>
             /\ loc' = [loc EXCEPT ![r] = [Start EXCEPT !.pc = "lock", !.new = new]]
  /\ IF Kind(r) = "poll" THEN Hand(Ids(loc'[r].new)) ELSE UNCHANGED handed
  /\ UNCHANGED <<setup, file, lock, sent, crashes, damage>>

(* A process dies. *)
Crash(p) ==
  /\ loc[p].pc \notin {"idle", "done", "crashed"}
  /\ crashes < MaxCrashes /\ crashes' = crashes + 1
  /\ damage' = IF At(p, "write") THEN damage \cup {"crash"} ELSE damage
  /\ Go(p, "crashed")
  /\ UNCHANGED <<setup, file, lock, handed, sent>>

Continue(p) == Reread(p) \/ Open(p) \/ Write(p) \/ Release(p)

Next ==
  \/ \E m \in Messages : Create(m) \/ FillCreated(m)
  \/ \E r \in Readers : Look(r)
  \/ \E p \in Actors : Lock(p) \/ GiveUp(p) \/ Continue(p) \/ Crash(p)

Spec == Init /\ [][Next]_vars

(* Loops go on, calls that were started return, and a stale lock is broken  *)
(* in the end by somebody who keeps trying.                                *)
FairSpec ==
  /\ Spec
  /\ \A m \in Messages : WF_vars(FillCreated(m))
  /\ \A r \in Readers : WF_vars(Look(r))
  /\ \A p \in Actors : SF_vars(Lock(p)) /\ WF_vars(Lock(p) \/ GiveUp(p) \/ Continue(p))
-----------------------------------------------------------------------------
(* Type invariant. *)
TypeOK ==
  /\ setup \in Setups
  /\ file \in {Absent, Empty, Corrupt} \/ file \in Seq(Entry)
  /\ lock \in Actors \cup {None}
  /\ \A p \in Actors :
       /\ loc[p].pc \in {"idle", "create", "lock", "read", "open", "write", "release", "done", "crashed"}
       /\ loc[p].new \in Seq(Entry) /\ loc[p].index \in Nat
       /\ loc[p].pc \in {"open", "write"} => loc[p].msgs \in Seq(Entry) /\ loc[p].msgs # <<>>
  /\ handed \in [Messages -> 0..2]
  /\ sent \subseteq Messages /\ crashes \in 0..MaxCrashes /\ damage \subseteq {"crash", "creation"}

(* What the inbox holds, or is about to hold again. *)
Held ==
  UNION ({Ids(Content)} \cup {Ids(loc[p].msgs) : p \in {q \in Actors : At(q, "write")}})

(* A message that was written stays in the inbox, whoever rewrites it       *)
(* meanwhile (teammateMailbox.ts: every writer reads the file again under  *)
(* the lock), until the file becomes unreadable: then the next writer      *)
(* takes it for an empty inbox.                                            *)
MessagesAreKept == damage = {} => sent \subseteq Held

(* "Uses file locking to prevent race conditions when multiple agents      *)
(* write concurrently" (writeToMailbox): only a crash in the middle of     *)
(* writing may cost messages.                                              *)
OnlyCrashesLoseMessages == "crash" \notin damage => sent \subseteq Held

Handing(m) == \E r \in Readers : m \in Ids(loc[r].new)
ReadIsHanded ==
  \A e \in ToSet(Content) : e.read => handed[e.id] > 0 \/ Handing(e.id)

Teammate == \A r \in Readers : Kind(r) \in {"teammate", "off"}

(* A teammate's message is marked as read only when it is handed over,      *)
(* though the index it is marked by was found before the lock was taken.   *)
ReadMeansHanded == Teammate /\ damage = {} => ReadIsHanded

(* No message is lost, neither from the file nor by being marked unseen.   *)
MessagesAreSafe == MessagesAreKept /\ ReadMeansHanded

(* A teammate gets the messages of one sender in the order in which they    *)
(* are in the inbox, but for requests to shut down, which may come first.  *)
HandedInOrder ==
  [][Teammate /\ damage = {} =>
       \A i, j \in DOMAIN Content :
         LET m == Content[i].id
             n == Content[j].id
         IN i < j /\ From[m] = From[n] /\ n \notin setup.shutdown /\ handed[n] = 0 /\ handed'[n] = 1
            => handed[m] > 0]_vars

(* A teammate gets every message at last, however often marking fails and  *)
(* whatever crashed writers left behind.                                   *)
EveryMessageIsHanded ==
  \A m \in Messages :
    Teammate /\ m \in sent ~>
      handed[m] > 0 \/ damage # {} \/ \E r \in Readers : At(r, "crashed") \/ m \in Ids(loc[r].new)
=============================================================================
