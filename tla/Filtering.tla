------------------------------ MODULE Filtering ------------------------------
(***************************************************************************)
(* Array.prototype.filter, where it takes some elements out of a queue:    *)
(* SelectSeq with a set for its test, written as a function so that what   *)
(* it computes can be proved (FilteringProofs).                            *)
(***************************************************************************)
EXTENDS Naturals, Sequences

(* What is left of s without the elements of S, in its order. *)
Dropping(s, S) ==
  LET kept[n \in 0..Len(s)] ==
        IF n = 0 THEN <<>>
        ELSE IF s[n] \in S THEN kept[n - 1] ELSE Append(kept[n - 1], s[n])
  IN kept[Len(s)]
=============================================================================
