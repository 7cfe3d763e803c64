---------------------------- MODULE SchedulerLock ----------------------------
(***************************************************************************)
(* The lock that makes one session of a project its scheduler              *)
(* (src/src/utils/cronTasksLock.ts), with the part of                      *)
(* src/src/utils/cronScheduler.ts that acquires it, probes it and gives it *)
(* up.  The lock is a file that names a session and a process; an owner    *)
(* never looks at it again.                                                *)
(*                                                                         *)
(* One step for every access to the file system: a file is created, or     *)
(* emptied, in one step and filled in another.  What is written through a  *)
(* descriptor goes to the file that was opened, removed or not.            *)
(***************************************************************************)
EXTENDS Naturals, FiniteSets

CONSTANTS
  Processes,
  Session,      \* [Processes -> sessions]: a resumed session has another process
  Untouchable,  \* the processes of other users: a signal to them fails
  MaxDeaths,    \* bound
  MaxStarts,    \* bound: how often a scheduler is started
  Nobody

ASSUME LockAssumption ==
  /\ Nobody \notin Processes
  /\ Untouchable \subseteq Processes
  /\ MaxDeaths \in Nat /\ MaxStarts \in Nat

VARIABLES
  lockFile,  \* the lock file: who may still fill it, and whom it names
  pc,        \* where each process stands
  stopped,   \* the schedulers stopped while they acquire the lock
  robbed,    \* those whose lock file another process removed or overwrote (history)
  deaths,
  starts

lockVars == <<lockFile, pc, stopped, robbed, deaths, starts>>

NoFile == [there |-> FALSE, writers |-> {}, names |-> Nobody]
Made(p) == [there |-> TRUE, writers |-> {p}, names |-> Nobody]

LockInit ==
  /\ lockFile = NoFile
  /\ pc = [p \in Processes |-> "off"]
  /\ stopped = {} /\ robbed = {}
  /\ deaths = 0 /\ starts = 0

Moves(p, where) == pc' = [pc EXCEPT ![p] = where]

(* isProcessRunning, as p sees it. *)
Running(p, q) == pc[q] # "dead" /\ (q = p \/ q \notin Untouchable)

(* Those whose lock goes when p removes or empties the file. *)
Victims(p) == (lockFile.writers \cup {lockFile.names}) \ {p, Nobody}
Rob(p) == robbed' = robbed \cup Victims(p)

Owners == {p \in Processes : pc[p] = "owner"}

-----------------------------------------------------------------------------
(* tryAcquireSchedulerLock and what its caller does with the answer. *)

(* It returned true: the scheduler was stopped meanwhile, or it owns. *)
Acquired(p) ==
  /\ Moves(p, IF p \in stopped THEN "release" ELSE "owner")
  /\ stopped' = stopped \ {p}

(* It returned false: the scheduler probes again later. *)
Blocked(p) ==
  /\ Moves(p, IF p \in stopped THEN "off" ELSE "passive")
  /\ stopped' = stopped \ {p}

(* start, then enable. *)
StartScheduler(p) ==
  /\ pc[p] = "off"
  /\ starts < MaxStarts /\ starts' = starts + 1
  /\ Moves(p, "create")
  /\ UNCHANGED <<lockFile, stopped, robbed, deaths>>

(* The probe timer. *)
Probe(p) ==
  /\ pc[p] = "passive"
  /\ Moves(p, "create")
  /\ UNCHANGED <<lockFile, stopped, robbed, deaths, starts>>

(* Mutant: the file is opened whether or not it is there. *)
CreateAnyway(p) ==
  /\ pc[p] \in {"create", "again"}
  /\ lockFile' = Made(p) /\ Moves(p, "fill")
  /\ robbed' = robbed \ {p}
  /\ UNCHANGED <<stopped, deaths, starts>>

(* tryCreateExclusive, before and after a stale lock is removed. *)
TryCreate(p) ==
  /\ pc[p] \in {"create", "again"}
  /\ IF lockFile.there
     THEN /\ UNCHANGED <<lockFile, robbed>>
          /\ IF pc[p] = "create" THEN Moves(p, "read") /\ UNCHANGED stopped ELSE Blocked(p)
     ELSE /\ lockFile' = Made(p) /\ Moves(p, "fill")
          /\ robbed' = robbed \ {p}
          /\ UNCHANGED stopped
  /\ UNCHANGED <<deaths, starts>>

(* The content is written, unless the file that was opened is gone. *)
Fill(p) ==
  /\ pc[p] = "fill"
  /\ IF p \in lockFile.writers
     THEN /\ lockFile' = [lockFile EXCEPT !.writers = @ \ {p}, !.names = p]
          /\ robbed' = robbed \cup ({lockFile.names} \ {p, Nobody})
     ELSE UNCHANGED <<lockFile, robbed>>
  /\ Acquired(p)
  /\ UNCHANGED <<deaths, starts>>

(* The existing lock: our own, a former process of our session, a live     *)
(* other, or stale; an empty file counts as stale.                         *)
Read(p) ==
  /\ pc[p] = "read"
  /\ LET q == lockFile.names IN
     CASE q = p -> Acquired(p)
       [] q \notin {p, Nobody} /\ Session[q] = Session[p] -> Moves(p, "adopt") /\ UNCHANGED stopped
       [] q # Nobody /\ Session[q] # Session[p] /\ Running(p, q) -> Blocked(p)
       [] OTHER -> Moves(p, "unlink") /\ UNCHANGED stopped
  /\ UNCHANGED <<lockFile, robbed, deaths, starts>>

(* The lock of our session is overwritten; the file is opened, and made     *)
(* when it is gone.                                                        *)
Adopt(p) ==
  /\ pc[p] = "adopt"
  /\ lockFile' = [there |-> TRUE, writers |-> lockFile.writers \cup {p}, names |-> Nobody]
  /\ Rob(p)
  /\ Moves(p, "fill")
  /\ UNCHANGED <<stopped, deaths, starts>>

(* A stale lock is removed, whatever the file is by now. *)
Unlink(p) ==
  /\ pc[p] = "unlink"
  /\ lockFile' = NoFile
  /\ Rob(p)
  /\ Moves(p, "again")
  /\ UNCHANGED <<stopped, deaths, starts>>

-----------------------------------------------------------------------------
(* Mutant: every stop waits for an acquisition to end. *)
StopLate(p) ==
  /\ pc[p] \notin {"off", "dead", "release", "remove"} /\ p \notin stopped
  /\ stopped' = stopped \cup {p}
  /\ UNCHANGED <<lockFile, pc, robbed, deaths, starts>>

(* stop, or the cleanup when the process ends in order. *)
Stop(p) ==
  /\ pc[p] \notin {"off", "dead", "release", "remove"} /\ p \notin stopped
  /\ CASE pc[p] = "owner" -> Moves(p, "release") /\ UNCHANGED stopped
       [] pc[p] = "passive" -> Moves(p, "off") /\ UNCHANGED stopped
       [] OTHER -> stopped' = stopped \cup {p} /\ UNCHANGED pc
  /\ UNCHANGED <<lockFile, robbed, deaths, starts>>

(* releaseSchedulerLock: the file is read, *)
ReleaseLock(p) ==
  /\ pc[p] = "release"
  /\ Moves(p, IF lockFile.names # Nobody /\ Session[lockFile.names] = Session[p]
              THEN "remove" ELSE "off")
  /\ UNCHANGED <<lockFile, stopped, robbed, deaths, starts>>

(* Mutant: the file stays. *)
RemoveNothing(p) ==
  /\ pc[p] = "remove"
  /\ Moves(p, "off")
  /\ UNCHANGED <<lockFile, robbed, stopped, deaths, starts>>

(* and removed. *)
RemoveLock(p) ==
  /\ pc[p] = "remove"
  /\ lockFile' = NoFile
  /\ Rob(p)
  /\ Moves(p, "off")
  /\ UNCHANGED <<stopped, deaths, starts>>

Die(p) ==
  /\ pc[p] # "dead"
  /\ deaths < MaxDeaths /\ deaths' = deaths + 1
  /\ Moves(p, "dead")
  /\ lockFile' = [lockFile EXCEPT !.writers = @ \ {p}]
  /\ stopped' = stopped \ {p}
  /\ UNCHANGED <<robbed, starts>>

Proceed(p) ==
  \/ Probe(p) \/ TryCreate(p) \/ Fill(p) \/ Read(p) \/ Adopt(p) \/ Unlink(p)
  \/ ReleaseLock(p) \/ RemoveLock(p)

LockNext == \E p \in Processes : StartScheduler(p) \/ Proceed(p) \/ Stop(p) \/ Die(p)

LockSpec == LockInit /\ [][LockNext]_lockVars

(* File operations return and the probe timer fires. *)
FairLockSpec == LockSpec /\ \A p \in Processes : WF_lockVars(Proceed(p))
-----------------------------------------------------------------------------
(* Type invariant. *)
LockTypeOK ==
  /\ lockFile \in [there: BOOLEAN, writers: SUBSET Processes, names: Processes \cup {Nobody}]
  /\ lockFile.names # Nobody \/ lockFile.writers # {} => lockFile.there
  /\ pc \in [Processes -> {"off", "create", "fill", "read", "adopt", "unlink", "again",
                           "passive", "owner", "release", "remove", "dead"}]
  /\ stopped \subseteq
       {p \in Processes : pc[p] \in {"create", "fill", "read", "adopt", "unlink", "again"}}
  /\ robbed \subseteq Processes
  /\ deaths \in 0..MaxDeaths /\ starts \in 0..MaxStarts

(* Two schedulers own the lock together only when the lock file of one was  *)
(* removed or overwritten under it, by a recovery or a release that began   *)
(* when the file was another's, or by its own session resumed.             *)
OwnersAreAlone ==
  \A p, q \in Owners : p # q => p \in robbed \/ q \in robbed

Wanting ==
  {p \in Processes : pc[p] \notin {"off", "owner", "release", "remove", "dead"}}

(* While a scheduler is on, one owns the lock in the end, whatever crashes  *)
(* and half-written locks were left behind.                                *)
SomebodyOwns == Wanting # {} ~> Owners # {} \/ Wanting = {}
=============================================================================
