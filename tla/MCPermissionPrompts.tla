------------------------- MODULE MCPermissionPrompts -------------------------
(* Two prompts: a Bash command of the turn on the screen, and a tool of an *)
(* agent beside it.                                                        *)
EXTENDS PermissionPrompts, TLC

CONSTANTS p1, p2

AllRace == p1 :> {"hook", "classifier", "bridge", "channel"} @@ p2 :> {"hook", "bridge"}
TwoTurns == p1 :> "main" @@ p2 :> "agent"
SomeAlike == p1 :> {p1, p2} @@ p2 :> {p2}
=============================================================================
