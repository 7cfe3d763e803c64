----------------------------- MODULE QueryGuard -----------------------------
(***************************************************************************)
(* The guard of the query lifecycle (src/src/utils/QueryGuard.ts): whether *)
(* the conversation of the terminal is free, is being dispatched to, or    *)
(* runs a query, and the generation that tells a query from the ones that  *)
(* were started, or ended by force, after it.  The operations are          *)
(* synchronous.  None says who calls it: a caller that lost its            *)
(* reservation cancels, or starts on, that of another.                     *)
(***************************************************************************)
EXTENDS Naturals

VARIABLES
  status,      \* _status
  generation   \* _generation

guardVars == <<status, generation>>

GuardTypeOK ==
  /\ status \in {"idle", "dispatching", "running"}
  /\ generation \in Nat

GuardInit == status = "idle" /\ generation = 0

Active == status # "idle"

(* reserve: its result is not looked at by the caller. *)
Reserve ==
  /\ status' = IF Active THEN status ELSE "dispatching"
  /\ UNCHANGED generation

(* cancelReservation: whoever holds the reservation. *)
CancelReservation ==
  /\ status' = IF status = "dispatching" THEN "idle" ELSE status
  /\ UNCHANGED generation

(* tryStart, when it returns a generation and when it returns null. *)
CanStart == status # "running"
TryStart == CanStart /\ status' = "running" /\ generation' = generation + 1

(* Mutant: whatever query runs. *)
IsRunning(gen) == status = "running"

(* end *)
IsCurrent(gen) == gen = generation /\ status = "running"

End(gen) ==
  /\ status' = IF IsCurrent(gen) THEN "idle" ELSE status
  /\ UNCHANGED generation

(* The end of a query in onQuery's finally, then the one of                *)
(* executeUserInput, which cancels whatever reservation there is.          *)
EndAndRelease(gen) ==
  /\ status' = IF IsCurrent(gen) \/ status = "dispatching" THEN "idle" ELSE status
  /\ UNCHANGED generation

(* forceEnd: nothing happens to a guard that is idle. *)
ForceEnd ==
  /\ status' = "idle"
  /\ generation' = IF Active THEN generation + 1 ELSE generation
=============================================================================
