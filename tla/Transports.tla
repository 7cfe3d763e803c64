----------------------------- MODULE Transports -----------------------------
(***************************************************************************)
(* The owners of event uploaders and their callers:                        *)
(* src/src/cli/transports/HybridTransport.ts ("hybrid") and the event      *)
(* uploader of src/src/cli/transports/ccrClient.ts with the batch writes   *)
(* of src/src/bridge/replBridgeTransport.ts ("ccr") hold stream events     *)
(* back for a moment and promise to keep their order with other messages;  *)
(* the internal-event and delivery uploaders of CCRClient ("plain") take   *)
(* every event as it comes.                                                *)
(***************************************************************************)
EXTENDS EventUploader

CONSTANTS Clock,     \* the timers' own calls
          Patient,   \* the callers that await their writes
          MaxBatch   \* bound: messages written by one call of writeBatch

ASSUME CallersAssumption ==
  Clock \in Callers /\ Patient \subseteq Callers \ {Clock} /\ MaxBatch \in Nat

\* Events are numbered as they are written.
ASSUME EventsAssumption == Events \subseteq Nat \ {0} /\ \A e \in Events : 1..e \subseteq Events

VARIABLES buffer,   \* this.streamEventBuffer
          timer,    \* this.streamEventTimer is set
          closing,  \* close has been called
          author    \* author[e]: who wrote event e; events are numbered as written

transport == <<buffer, timer, closing, author>>
vars == <<uvars, transport>>

TransportInit == Init /\ buffer = <<>> /\ timer = FALSE /\ closing = FALSE /\ author = <<>>

Users == Callers \ {Clock}
Written == DOMAIN author

\* The calls of a caller that have not returned.
Busy(p) ==
  \/ \E i \in DOMAIN blocked : blocked[i].by = p
  \/ \E i \in DOMAIN micro : micro[i].call.by = p
  \/ \E f \in flushers : f.by = p

MayCall(p) == p \in Patient => ~Busy(p)

\* The next n events, written by p.
Fresh(n) == [i \in 1..n |-> Len(author) + i]
Writes(p, n) ==
  /\ MayCall(p) /\ Len(author) + n \in Events
  /\ author' = author \o [i \in 1..n |-> p]

NewCall(p, items, then, hops, rest) ==
  [by |-> p, items |-> items, then |-> then, hops |-> hops, rest |-> rest]

\* takeStreamEvents and the head of flushStreamEventBuffer
TakeBuffer == buffer' = <<>> /\ timer' = FALSE

-----------------------------------------------------------------------------
\* Both classes hold stream events back and set a timer.
WriteStream(p) ==
  /\ config.client # "plain"
  /\ Writes(p, 1)
  /\ buffer' = buffer \o Fresh(1) /\ timer' = TRUE
  /\ UNCHANGED <<uvars, closing>>

TimerFires ==
  /\ timer /\ Idle
  /\ Enqueue(NewCall(Clock, buffer, "nothing", 0, <<>>), micro)
  /\ TakeBuffer
  /\ UNCHANGED <<closing, author>>

\* writeInternalEvent, reportDelivery
WritePlain(p) ==
  /\ config.client = "plain"
  /\ Writes(p, 1)
  /\ Enqueue(NewCall(p, Fresh(1), "nothing", 0, <<>>), micro)
  /\ UNCHANGED <<buffer, timer, closing>>

\* Mutant: the messages go before the stream events held back.
WriteHybridFirst(p, n) ==
  /\ config.client = "hybrid"
  /\ Writes(p, n)
  /\ Enqueue(NewCall(p, Fresh(n) \o buffer, "flush", 1, <<>>), micro)
  /\ TakeBuffer /\ UNCHANGED closing

\* HybridTransport.write, writeBatch: one enqueue, then flush.
WriteHybrid(p, n) ==
  /\ config.client = "hybrid"
  /\ Writes(p, n)
  /\ Enqueue(NewCall(p, buffer \o Fresh(n), "flush", 1, <<>>), micro)
  /\ TakeBuffer /\ UNCHANGED closing

\* CCRClient.writeEvent of the first of ms: what is held back is queued first,
\* and the message two turns later; or one turn later when nothing is held back.
StartEvent(p, ms, m) ==
  IF buffer = <<>>
  THEN /\ micro' = Append(m, Continuation(NewCall(p, <<>>, "nothing", 0, ms), 1, "message"))
       /\ UNCHANGED <<config, pending, batch, drain, failures, closed, blocked, flushers,
                      server, lost, buffer, timer>>
  ELSE Enqueue(NewCall(p, buffer, "message", 2, ms), m) /\ TakeBuffer

\* replBridgeTransport's writeBatch: one writeEvent after the other.
WriteCcr(p, n) ==
  /\ config.client = "ccr"
  /\ Writes(p, n)
  /\ StartEvent(p, Fresh(n), micro)
  /\ UNCHANGED closing

Message ==
  /\ Runs("message")
  /\ LET call == Head(micro).call IN
     Enqueue(NewCall(call.by, <<Head(call.rest)>>, "event", 2, Tail(call.rest)), Tail(micro))
  /\ UNCHANGED transport

\* The loop of writeBatch ends early when the transport is closed.
NextEvent ==
  /\ Runs("event")
  /\ LET call == Head(micro).call IN
     IF call.rest = <<>> \/ closing
     THEN /\ micro' = Tail(micro)
          /\ lost' = lost \cup ToSet(call.rest)
          /\ UNCHANGED <<config, pending, batch, drain, failures, closed, blocked, flushers,
                         server, buffer, timer>>
     ELSE StartEvent(call.by, call.rest, Tail(micro))
  /\ UNCHANGED <<closing, author>>

\* flush of the transport: what is held back is queued, then flush is called.
\* (HybridTransport calls it at once; the continuations before it change
\* nothing it looks at.)  Bound: by a caller with no other call.
FlushAll(p) ==
  /\ ~Busy(p)
  /\ LET hops == IF config.client = "ccr" /\ buffer # <<>> THEN 2 ELSE 1 IN
     Enqueue(NewCall(p, buffer, "flush", hops, <<>>), micro)
  /\ TakeBuffer /\ UNCHANGED <<closing, author>>

FlushCalled ==
  /\ Runs("flush")
  /\ Flush(Head(micro).call.by, Tail(micro))
  /\ UNCHANGED transport

\* HybridTransport.close: the uploader is closed when it has drained or the
\* grace period is over, whichever comes first.
CloseHybrid ==
  /\ config.client = "hybrid" /\ ~closing
  /\ closing' = TRUE
  /\ TakeBuffer /\ lost' = lost \cup ToSet(buffer)
  /\ UNCHANGED <<uploader, server, author>>

GraceEnds ==
  /\ config.client = "hybrid" /\ closing /\ Idle
  /\ Close({})
  /\ UNCHANGED transport

\* CCRClient.close
CloseCcr ==
  /\ config.client # "hybrid" /\ ~closing
  /\ closing' = TRUE
  /\ Close(ToSet(buffer))
  /\ TakeBuffer
  /\ UNCHANGED author

-----------------------------------------------------------------------------
Calls(p) ==
  \/ WriteStream(p) \/ WritePlain(p) \/ FlushAll(p)
  \/ \E n \in 1..MaxBatch : WriteHybrid(p, n) \/ WriteCcr(p, n)

Closes == CloseHybrid \/ CloseCcr

Continue ==
  \/ (Turn \/ Recheck) /\ UNCHANGED transport
  \/ Message \/ NextEvent \/ FlushCalled

Arrives == Arrive /\ UNCHANGED transport
Returns == SendReturns /\ UNCHANGED transport
Fails == SendFails /\ UNCHANGED transport
Wakes == WakeUp /\ UNCHANGED transport

Next ==
  \/ \E p \in Users : Calls(p)
  \/ Closes \/ Continue \/ TimerFires \/ GraceEnds
  \/ Arrives \/ Returns \/ Fails \/ Wakes

Spec == TransportInit /\ [][Next]_vars

\* Continuations and timers run; a server that is asked again and again takes
\* a batch and answers in the end.
Fairness ==
  /\ WF_vars(Continue) /\ WF_vars(TimerFires) /\ WF_vars(GraceEnds) /\ WF_vars(Wakes)
  /\ SF_vars(Arrives) /\ SF_vars(Returns)

FairSpec == Spec /\ Fairness

-----------------------------------------------------------------------------
\* Type invariant.
TypeOK ==
  /\ config \in Configs
  /\ pending \in Seq(Events) /\ batch \in Seq(Events) /\ Len(batch) <= config.batch
  /\ drain \in {"idle", "send", "sleep"}
  /\ drain = "send" <=> batch # <<>>
  /\ failures \in Nat /\ (failures = 0 \/ failures < config.retries)
  /\ closed \in BOOLEAN /\ arrived \in BOOLEAN
  /\ blocked \in Seq(Call)
  /\ micro \in Seq([call: Call, hops: Nat \ {0},
                    then: {"enqueue", "flush", "message", "event"}])
  /\ flushers \subseteq [by: Callers, owed: SUBSET Events]
  /\ received \in Seq(Events)
  /\ lost \subseteq Events
  /\ buffer \in Seq(Events) /\ timer \in BOOLEAN /\ closing \in BOOLEAN
  /\ author \in Seq(Users) /\ Written \subseteq Events

\* Whenever an event is pending a drain is there to send it.
DrainRuns == pending # <<>> => drain # "idle" \/ closed

\* While the uploader is open, a flush returns only when all that was to be
\* sent when it was called has been: so does write of HybridTransport.
FlushMeansSent ==
  [][/\ \A f \in flushers \ flushers' : closed' \/ f.owed \subseteq ToSet(received') \cup lost'
     /\ FlushCalled /\ ~closed =>
          \/ \E f \in flushers' : f.by = Head(micro).call.by
          \/ ToSet(pending \o batch) \subseteq ToSet(received) \cup lost]_vars

Whereabouts ==
  UNION {ToSet(s) : s \in {received, pending, batch, buffer}
           \cup {c.items : c \in ToSet(blocked)} \cup {c.rest : c \in ToSet(blocked)}
           \cup {c.call.items : c \in {c \in ToSet(micro) : c.then = "enqueue"}}
           \cup {c.call.rest : c \in ToSet(micro)}}

MayLose == closing \/ config.retries # 0 \/ config.refuses

\* Every event is somewhere, none is given up without a reason, and none is
\* pending without a drain that sends it.
NothingVanishes ==
  /\ DrainRuns
  /\ Written \subseteq Whereabouts \cup lost
  /\ lost \subseteq (IF MayLose THEN Written ELSE config.bad)

\* The queue has room for all events.
Roomy == \A e \in Events : e <= config.queue

\* While the queue has room for all events, or nothing is held back, an event
\* written later overtakes an earlier one only if the writes of CCRClient take
\* turns, and never one of the same caller when it awaits its writes.
ArriveInOrder ==
  \A i, j \in DOMAIN received : i < j /\ received[i] > received[j] =>
    /\ config.client = "hybrid" => ~Roomy
    /\ Roomy \/ config.client = "plain" =>
         author[received[i]] # author[received[j]] \/ author[received[j]] \notin Patient

\* The uploader is a channel that keeps the order of what is queued.
Channel == INSTANCE EventChannel WITH
  queue <- Dropping(batch \o pending, config.bad \cup ToSet(received))
ChannelSpec == Channel!Spec

Waiting == UNION ({ToSet(c.items) : c \in ToSet(blocked)}
                  \cup {ToSet(c.call.items) : c \in {c \in ToSet(micro) : c.then = "enqueue"}})

\* A call that waits for room gets it or is released by close, when everything
\* can be serialized, and a flush that is called before close returns.
CallsReturn ==
  /\ Waiting # {} /\ config.bad = {} ~> Waiting = {}
  /\ flushers # {} /\ ~closed ~> flushers = {}
=============================================================================
