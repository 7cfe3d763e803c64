---------------------------- MODULE EventChannel ----------------------------
(***************************************************************************)
(* What src/src/cli/transports/SerialBatchEventUploader.ts promises the    *)
(* two ends of an upload, with batches, retries and waiting callers left   *)
(* out: events come out in the order in which they went in, each once as   *)
(* the server sees it (it drops events it already has), and some may be    *)
(* given up.                                                               *)
(***************************************************************************)
EXTENDS Naturals, Sequences, SequencesExt, Filtering

VARIABLES queue,     \* the events on their way, in order
          received   \* the events that came out

channel == <<queue, received>>

Init == queue = <<>> /\ received = <<>>

Send ==
  /\ IsStrictPrefix(queue, queue')
  /\ UNCHANGED received

\* Any number of events at the front come out together.
Deliver ==
  \E n \in 1..Len(queue) :
    /\ received' = received \o SubSeq(queue, 1, n)
    /\ queue' = SubSeq(queue, n + 1, Len(queue))

\* Events are given up; the others keep their order.
GiveUp ==
  /\ \E given \in SUBSET ToSet(queue) : queue' = Dropping(queue, given)
  /\ UNCHANGED received

Next == Send \/ Deliver \/ GiveUp

Spec == Init /\ [][Next]_channel
=============================================================================
