------------------------------- MODULE MCTurns -------------------------------
(* An instance of Turns: a prompt, a slash command that asks for another   *)
(* prompt, notes of background tasks for the main thread and for a          *)
(* subagent, and a message of a teammate, three or four in a run.            *)
EXTENDS Turns

CONSTANTS prompt, slash, second, note, subnote, mate

ModeOf == [c \in Commands |-> CASE c = slash -> "slash"
                              [] c \in {note, subnote} -> "note"
                              [] OTHER -> "prompt"]
PrioOf == [c \in Commands |-> IF c = note THEN 2 ELSE 1]
FollowOf == [c \in Commands |-> IF c = slash THEN second ELSE None]
Subagents == {subnote}
Mates == {mate}
SmallCasts ==
  {{prompt, slash, second, mate}, {prompt, note, subnote, mate}, {prompt, slash, second, note},
   {slash, second, note, subnote}}
=============================================================================
