----------------------- MODULE MCStreamingToolExecutor -----------------------
(* Instances of StreamingToolExecutor for TLC: the tools a response calls. *)
EXTENDS StreamingToolExecutor

Read == [safe |-> TRUE, bash |-> FALSE, known |-> TRUE, slow |-> TRUE,
         talks |-> FALSE, cancellable |-> TRUE, modifies |-> FALSE]
BashRead == [Read EXCEPT !.bash = TRUE, !.cancellable = FALSE]
Bash == [BashRead EXCEPT !.safe = FALSE, !.talks = TRUE]
Skill == [Read EXCEPT !.safe = FALSE, !.cancellable = FALSE, !.modifies = TRUE]
\* A call whose input does not parse: exclusive, and answered without waiting.
Invalid == [Read EXCEPT !.safe = FALSE, !.slow = FALSE]
\* A call to a tool that does not exist.
Unknown == [Invalid EXCEPT !.safe = TRUE, !.known = FALSE]

Known == {BashRead, Bash, Invalid}
Most == {Read, BashRead, Bash, Skill, Unknown}
=============================================================================
