---------------------------- MODULE EventUploader ----------------------------
(***************************************************************************)
(* src/src/cli/transports/SerialBatchEventUploader.ts: a queue of events   *)
(* that one drain loop at a time sends in batches, with retries, callers   *)
(* that wait for room, flush and close; and the server it posts to.        *)
(*                                                                         *)
(* One JavaScript thread.  `micro` is the queue of continuations of        *)
(* promises; it is empty when the answer to a POST or a timer is handled   *)
(* (Idle).  Who calls the uploader is the matter of other modules.         *)
(***************************************************************************)
EXTENDS Naturals, Sequences, SequencesExt, Filtering

CONSTANTS Configs,  \* the configurations uploaders are made with
          Callers,
          Events

\* batch, queue, measured, retries: maxBatchSize, maxQueueSize, whether there
\* is a maxBatchBytes, maxConsecutiveFailures (0: none); refuses: send returns
\* normally when the server turns a batch down for good; bad: the events that
\* cannot be serialized.  client: the class that owns the uploader.
Config == [batch: Nat \ {0}, queue: Nat \ {0}, measured: BOOLEAN, retries: Nat,
           refuses: BOOLEAN, bad: SUBSET Events, client: {"hybrid", "ccr", "plain"}]

ASSUME ConstantsAssumption ==
  /\ Configs \subseteq Config
  /\ \A c \in Configs : c.measured \/ c.bad = {}

VARIABLES config,
          pending,    \* this.pending
          batch,      \* the batch of the request in flight
          drain,      \* where the drain loop stands; "idle": not this.draining
          failures,   \* its consecutive failures, when they are limited
          closed,     \* this.closed
          blocked,    \* the calls behind this.backpressureResolvers
          micro,      \* continuations: a call, how many turns of the queue it
                      \* still takes, and what it goes on with
          flushers,   \* the flushes behind this.flushResolvers, with what was
                      \* still to be sent when they were called
          arrived,    \* the server has the batch in flight
          received,   \* what the server took, in order
          lost        \* the events that were given up

uploader == <<config, pending, batch, drain, failures, closed, blocked, micro, flushers>>
server == <<arrived, received>>
uvars == <<uploader, server, lost>>

Init ==
  /\ config \in Configs
  /\ pending = <<>> /\ batch = <<>> /\ drain = "idle" /\ failures = 0
  /\ closed = FALSE /\ blocked = <<>> /\ micro = <<>> /\ flushers = {}
  /\ arrived = FALSE /\ received = <<>>
  /\ lost = {}

\* Timers and answers are handled when no continuation is left.
Idle == micro = <<>>

-----------------------------------------------------------------------------
\* What is left of a batch when its unserializable events are dropped.
Sendable(s) == Dropping(s, config.bad)

\* takeBatch looks at this many events of p.  How many fit in maxBatchBytes is
\* left open; one always does.
Takes(p) ==
  IF ~config.measured
  THEN {IF Len(p) < config.batch THEN Len(p) ELSE config.batch}
  ELSE {m \in 1..Len(p) :
          LET n == Len(Sendable(SubSeq(p, 1, m))) IN
          \/ n = config.batch /\ p[m] \notin config.bad
          \/ n \in 1..(config.batch - 1) /\ (m = Len(p) \/ p[m + 1] \notin config.bad)
          \/ n = 0 /\ m = Len(p)}

\* The end of drain: flushes return when nothing is pending.
Exit(rest) ==
  /\ pending' = rest /\ batch' = <<>> /\ drain' = "idle"
  /\ flushers' = IF rest = <<>> THEN {} ELSE flushers

\* Goes round the loop of drain with p pending, up to its next request; gone
\* are the events given up just before.
Loop(p, gone) ==
  /\ arrived' = FALSE
  /\ IF p = <<>> \/ closed
     THEN Exit(p) /\ lost' = lost \cup gone
     ELSE \E m \in Takes(p) :
            LET taken == SubSeq(p, 1, m)
                rest == SubSeq(p, m + 1, Len(p)) IN
            /\ lost' = lost \cup gone \cup (ToSet(taken) \ ToSet(Sendable(taken)))
            /\ IF Sendable(taken) = <<>>
               THEN Exit(rest)
               ELSE /\ pending' = rest /\ batch' = Sendable(taken) /\ drain' = "send"
                    /\ UNCHANGED flushers

\* Mutant: nobody looks whether a drain already runs.
KickAlways(p) == Loop(p, {}) /\ failures' = 0

\* A call of drain with p pending: it does nothing while another one runs.
Kick(p) ==
  IF drain = "idle"
  THEN Loop(p, {}) /\ failures' = 0
  ELSE pending' = p /\ UNCHANGED <<batch, drain, failures, flushers, arrived, lost>>

-----------------------------------------------------------------------------
\* A call of enqueue: who calls it with which events, and what the caller goes
\* on with, how many turns after it returns, with which messages.
Call == [by: Callers, items: Seq(Events), then: {"nothing", "flush", "message", "event"},
         hops: Nat, rest: Seq(Events)]

Continuation(call, hops, then) == [call |-> call, hops |-> hops, then |-> then]

Return(call) ==
  IF call.then = "nothing" THEN <<>> ELSE <<Continuation(call, call.hops, call.then)>>

Fits(items) == Len(pending) + Len(items) <= config.queue

\* enqueue, from its start or from where it waited for room; m is what the
\* queue of continuations holds by then.
Enqueue(call, m) ==
  /\ IF call.items = <<>> \/ closed
     THEN /\ micro' = m \o Return(call)
          /\ lost' = lost \cup ToSet(call.items)
          /\ UNCHANGED <<pending, batch, drain, failures, blocked, flushers, arrived>>
     ELSE IF ~Fits(call.items)
     THEN /\ blocked' = Append(blocked, call) /\ micro' = m
          /\ UNCHANGED <<pending, batch, drain, failures, flushers, arrived, lost>>
     ELSE /\ micro' = m \o Return(call)
          /\ Kick(pending \o call.items)
          /\ UNCHANGED blocked
  /\ UNCHANGED <<config, closed, received>>

\* Mutant: it looks only at what is pending.
FlushPending(by, m) ==
  /\ micro' = m
  /\ flushers' = IF pending = <<>> THEN flushers
                 ELSE flushers \cup {[by |-> by, owed |-> ToSet(pending) \cup ToSet(batch)]}
  /\ UNCHANGED <<config, pending, batch, drain, failures, closed, blocked, server, lost>>

\* flush returns at once when there is nothing to wait for.  Its own call of
\* drain does nothing: whenever something is pending a drain runs, or the
\* uploader is closed (DrainRuns).
Flush(by, m) ==
  /\ micro' = m
  /\ flushers' = IF pending = <<>> /\ drain = "idle" THEN flushers
                 ELSE flushers \cup {[by |-> by, owed |-> ToSet(pending) \cup ToSet(batch)]}
  /\ UNCHANGED <<config, pending, batch, drain, failures, closed, blocked, server, lost>>

\* releaseBackpressure: those that wait look again, in their order.
Released == [i \in DOMAIN blocked |-> Continuation(blocked[i], 1, "enqueue")]

\* Mutant: those that wait for room are not woken.
CloseQuietly(gone) ==
  /\ ~closed
  /\ closed' = TRUE
  /\ lost' = lost \cup gone \cup (ToSet(pending) \ ToSet(received))
  /\ pending' = <<>> /\ flushers' = {}
  /\ UNCHANGED <<config, batch, drain, failures, blocked, micro, server>>

\* close; gone are the events its caller drops.  It also cuts the sleep of the
\* drain short, which may end at any time.
Close(gone) ==
  /\ ~closed
  /\ closed' = TRUE
  /\ lost' = lost \cup gone \cup (ToSet(pending) \ ToSet(received))
  /\ pending' = <<>> /\ flushers' = {}
  /\ micro' = micro \o Released /\ blocked' = <<>>
  /\ UNCHANGED <<config, batch, drain, failures, server>>

-----------------------------------------------------------------------------
\* The server takes the request in flight; of events it already has nothing
\* happens.
Arrive ==
  /\ drain = "send" /\ ~arrived
  /\ arrived' = TRUE
  /\ received' = received \o Dropping(batch, ToSet(received))
  /\ UNCHANGED <<uploader, lost>>

\* send returns: the server has the batch, or has turned it down for good.
SendReturns ==
  /\ drain = "send" /\ Idle
  /\ arrived \/ config.refuses
  /\ failures' = 0
  /\ micro' = Released /\ blocked' = <<>>
  /\ Loop(pending, ToSet(batch) \ ToSet(received))
  /\ UNCHANGED <<config, closed, received>>

\* Mutant: the batch goes to the end of the queue.
RequeuedLast == pending \o batch

Requeued == batch \o pending

\* Mutant: one failure too many.
LastFailureLate == config.retries # 0 /\ failures + 1 > config.retries

LastFailure == config.retries # 0 /\ failures + 1 >= config.retries

\* send fails, whether or not the server has the batch: it is given up after
\* too many failures in a row, or queued again in front of the rest.
SendFails ==
  /\ drain = "send" /\ Idle
  /\ IF LastFailure
     THEN /\ failures' = 0
          /\ micro' = Released /\ blocked' = <<>>
          /\ Loop(pending, ToSet(batch) \ ToSet(received))
     ELSE /\ failures' = IF config.retries = 0 THEN 0 ELSE failures + 1
          /\ pending' = Requeued /\ batch' = <<>> /\ drain' = "sleep" /\ arrived' = FALSE
          /\ UNCHANGED <<blocked, micro, flushers, lost>>
  /\ UNCHANGED <<config, closed, received>>

WakeUp ==
  /\ drain = "sleep" /\ Idle
  /\ Loop(pending, {})
  /\ UNCHANGED <<config, failures, closed, blocked, micro, received>>

\* The first continuation has more turns to wait.
Turn ==
  /\ micro # <<>> /\ Head(micro).hops > 1
  /\ micro' = Append(Tail(micro), [Head(micro) EXCEPT !.hops = @ - 1])
  /\ UNCHANGED <<config, pending, batch, drain, failures, closed, blocked, flushers, server, lost>>

\* The first continuation runs.
Runs(then) == micro # <<>> /\ Head(micro).hops = 1 /\ Head(micro).then = then

Recheck == Runs("enqueue") /\ Enqueue(Head(micro).call, Tail(micro))
=============================================================================
