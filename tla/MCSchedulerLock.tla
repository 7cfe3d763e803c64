-------------------------- MODULE MCSchedulerLock --------------------------
(* Three processes: two sessions, one of which is resumed by a third.       *)
EXTENDS SchedulerLock, TLC

CONSTANTS p1, p2, p3

Sessions == (p1 :> "s1" @@ p2 :> "s2" @@ p3 :> "s1")
=============================================================================
