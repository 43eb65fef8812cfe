-------------------------- MODULE DecisionLogPlugin --------------------------
(***************************************************************************)
(* The decision-log plugin (plugins/manager.py): a bounded buffer that     *)
(* record() fills and _flush() empties, a periodic task that flushes it,   *)
(* and stop() and reconfigure(), which cancel that task and flush once     *)
(* more.  A flush copies and clears the buffer before it awaits the POST,  *)
(* so decisions are recorded, and the plugin is stopped, while a batch is  *)
(* on its way.                                                             *)
(***************************************************************************)
EXTENDS Naturals, Sequences, FiniteSets

CONSTANTS
  Decisions,      \* the decisions callers record, each once
  MaxBuffer,      \* _max_buffer
  InitConfig,     \* "remote" (reporting.url is set) or "console"
  MaxReconfigs    \* bound on reconfigurations

Configs == {"remote", "console"}

ASSUME MaxBufferAssumption == MaxBuffer \in Nat \ {0}
ASSUME ConfigAssumption    == InitConfig \in Configs
ASSUME ReconfigsAssumption == MaxReconfigs \in Nat

VARIABLES
  config,      \* _config
  phase,       \* "new", "running", "stopping" (stop awaits its flush), "stopped"
  next,        \* the configuration reconfigure() will start with
  reconfigs,   \* reconfigurations so far
  task,        \* the periodic task: "none", "sleeping" or "flushing"
  post,        \* the flush of the task and the flush of stop()
  buffer,      \* _buffer
  recorded,    \* decisions passed to record()
  delivered    \* decisions the endpoint has accepted

lifecycle == <<config, phase, next, reconfigs>>
vars == <<lifecycle, task, post, buffer, recorded, delivered>>

Flushers == {"task", "stop"}
Batch == Seq(Decisions)
NoPost == [state |-> "idle", batch |-> <<>>]
Elements(s) == {s[i] : i \in DOMAIN s}

\* The values of the attributes are of the kinds the code gives them.
TypeOK ==
  /\ config \in Configs
  /\ phase \in {"new", "running", "stopping", "stopped"}
  /\ next \in Configs \cup {"none"}
  /\ reconfigs \in 0..MaxReconfigs
  /\ task \in {"none", "sleeping", "flushing"}
  /\ post \in [Flushers -> [state : {"idle", "sent", "accepted", "refused"}, batch : Batch]]
  /\ buffer \in Batch
  /\ recorded \in SUBSET Decisions
  /\ delivered \in SUBSET Decisions

Init ==
  /\ config = InitConfig
  /\ phase = "new"
  /\ next = "none"
  /\ reconfigs = 0
  /\ task = "none"
  /\ post = [f \in Flushers |-> NoPost]
  /\ buffer = <<>>
  /\ recorded = {}
  /\ delivered = {}

-----------------------------------------------------------------------------
\* A full buffer drops the new decision.
Record(d) ==
  /\ d \notin recorded
  /\ recorded' = recorded \cup {d}
  /\ buffer' = IF Len(buffer) < MaxBuffer THEN Append(buffer, d) ELSE buffer
  /\ UNCHANGED <<lifecycle, task, post, delivered>>

\* Mutant: the periodic task is started without an endpoint.
StartTaskAlways(cfg) ==
  /\ config' = cfg
  /\ phase' = "running"
  /\ next' = "none"
  /\ task' = "sleeping"

\* start(): the periodic task exists only when there is an endpoint.
StartWith(cfg) ==
  /\ config' = cfg
  /\ phase' = "running"
  /\ next' = "none"
  /\ task' = IF cfg = "remote" THEN "sleeping" ELSE "none"

Start ==
  /\ phase = "new"
  /\ StartWith(config)
  /\ UNCHANGED <<reconfigs, post, buffer, recorded, delivered>>

-----------------------------------------------------------------------------
(* Flushing *)

\* Mutant: the buffer is not cleared when the batch is taken.
FlushKeepingBuffer ==
  /\ task = "sleeping"
  /\ buffer # <<>>
  /\ task' = "flushing"
  /\ post' = [post EXCEPT !["task"] = [state |-> "sent", batch |-> buffer]]
  /\ UNCHANGED <<lifecycle, buffer, recorded, delivered>>

\* The sleep is over and there is something to send.
FlushPeriodically ==
  /\ task = "sleeping"
  /\ buffer # <<>>
  /\ task' = "flushing"
  /\ post' = [post EXCEPT !["task"] = [state |-> "sent", batch |-> buffer]]
  /\ buffer' = <<>>
  /\ UNCHANGED <<lifecycle, recorded, delivered>>

\* Mutant: stop() is always followed by start().
AfterFlushStart(f) ==
  IF f = "task"
  THEN task' = "sleeping" /\ UNCHANGED lifecycle
  ELSE StartWith(next) /\ UNCHANGED reconfigs

\* What follows the await in the coroutine that flushed: the next round of the
\* periodic task; the end of stop(), and in reconfigure() the start.
AfterFlush(f) ==
  IF f = "task"
  THEN task' = "sleeping" /\ UNCHANGED lifecycle
  ELSE /\ IF next = "none"
          THEN phase' = "stopped" /\ UNCHANGED <<config, next, task>>
          ELSE StartWith(next)
       /\ UNCHANGED reconfigs

\* The endpoint takes the batch, or answers with an error status.
Accept(f) ==
  /\ post[f].state = "sent"
  /\ post' = [post EXCEPT ![f].state = "accepted"]
  /\ delivered' = delivered \cup Elements(post[f].batch)
  /\ UNCHANGED <<lifecycle, task, buffer, recorded>>

Refuse(f) ==
  /\ post[f].state = "sent"
  /\ post' = [post EXCEPT ![f].state = "refused"]
  /\ UNCHANGED <<lifecycle, task, buffer, recorded, delivered>>

\* The answer arrives; its status is not looked at.
PostReturns(f) ==
  /\ post[f].state \in {"accepted", "refused"}
  /\ post' = [post EXCEPT ![f] = NoPost]
  /\ AfterFlush(f)
  /\ UNCHANGED <<buffer, recorded, delivered>>

\* Mutants: the limit is not applied; nothing is put back.
RebufferedAll(batch) == buffer \o batch
RebufferedNothing(batch) == buffer

\* Re-buffer failed entries (up to limit)
Rebuffered(batch) ==
  LET remaining == MaxBuffer - Len(buffer)
  IN buffer \o SubSeq(batch, 1, IF remaining < Len(batch) THEN remaining ELSE Len(batch))

\* Mutant: the exception ends the periodic task once the batch is back.
PostFailureEndsTask(f) ==
  /\ post[f].state \in {"sent", "accepted"}
  /\ post' = [post EXCEPT ![f] = NoPost]
  /\ buffer' = Rebuffered(post[f].batch)
  /\ IF f = "task" THEN task' = "none" /\ UNCHANGED lifecycle ELSE AfterFlush(f)
  /\ UNCHANGED <<recorded, delivered>>

\* No connection, or a timeout, which does not tell whether the batch arrived.
PostFails(f) ==
  /\ post[f].state \in {"sent", "accepted"}
  /\ post' = [post EXCEPT ![f] = NoPost]
  /\ buffer' = Rebuffered(post[f].batch)
  /\ AfterFlush(f)
  /\ UNCHANGED <<recorded, delivered>>

-----------------------------------------------------------------------------
(* Stopping.  CancelledError is no Exception: the batch of a cancelled flush *)
(* is not put back.                                                          *)

\* stop() up to the await in its flush, followed by nxt ("none": no restart).
StopThen(nxt) ==
  IF buffer = <<>> \/ config = "console"
  THEN /\ buffer' = <<>>
       /\ post' = [post EXCEPT !["task"] = NoPost]
       /\ IF nxt = "none"
          THEN phase' = "stopped" /\ task' = "none" /\ UNCHANGED <<config, next>>
          ELSE StartWith(nxt)
  ELSE /\ buffer' = <<>>
       /\ post' = [f \in Flushers |->
                     IF f = "stop" THEN [state |-> "sent", batch |-> buffer] ELSE NoPost]
       /\ phase' = "stopping"
       /\ next' = nxt
       /\ task' = "none"
       /\ UNCHANGED config

Stop ==
  /\ phase \in {"running", "stopped"}
  /\ StopThen("none")
  /\ UNCHANGED <<reconfigs, recorded, delivered>>

\* A plugin that was stopped knows its manager and is started again.
Reconfigure(cfg) ==
  /\ phase \in {"running", "stopped"}
  /\ reconfigs < MaxReconfigs
  /\ reconfigs' = reconfigs + 1
  /\ StopThen(cfg)
  /\ UNCHANGED <<recorded, delivered>>

\* The discovery task that awaits reconfigure() is itself cancelled.
CancelReconfigure ==
  /\ phase = "stopping"
  /\ next # "none"
  /\ phase' = "stopped"
  /\ next' = "none"
  /\ post' = [post EXCEPT !["stop"] = NoPost]
  /\ UNCHANGED <<config, reconfigs, task, buffer, recorded, delivered>>

-----------------------------------------------------------------------------
Flush(f) == Accept(f) \/ Refuse(f) \/ PostReturns(f) \/ PostFails(f)

Next ==
  \/ \E d \in Decisions : Record(d)
  \/ Start
  \/ FlushPeriodically
  \/ \E f \in Flushers : Flush(f)
  \/ Stop
  \/ \E cfg \in Configs : Reconfigure(cfg)
  \/ CancelReconfigure

\* The event loop runs the periodic task, a POST that was answered returns,
\* and an endpoint that is tried again and again accepts in the end.
Fairness ==
  /\ WF_vars(FlushPeriodically)
  /\ \A f \in Flushers : WF_vars(PostReturns(f)) /\ SF_vars(Accept(f))
                         /\ WF_vars(Accept(f) \/ Refuse(f) \/ PostFails(f))

Spec == Init /\ [][Next]_vars /\ Fairness

-----------------------------------------------------------------------------
(* Properties *)

InFlight == Elements(post["task"].batch) \cup Elements(post["stop"].batch)
Held == Elements(buffer) \cup InFlight

\* The limit holds although a failed batch comes back to a buffer that was
\* refilled while it was away.
BufferBounded == Len(buffer) <= MaxBuffer

\* The plugin holds a decision once: in the buffer or in one batch.
HeldOnce ==
  LET total == Len(buffer) + Len(post["task"].batch) + Len(post["stop"].batch)
  IN Cardinality(Held) = total

\* The periodic task lives exactly while the plugin runs with an endpoint, and
\* the flush of stop() exactly while stop() awaits it.
OnePeriodicTask ==
  /\ task # "none" <=> phase = "running" /\ config = "remote"
  /\ post["task"].state # "idle" <=> task = "flushing"
  /\ post["stop"].state # "idle" <=> phase = "stopping"

\* The batch that carried d was answered with an error status.
WasRefused(d) ==
  \E f \in Flushers : post[f].state = "refused" /\ d \in Elements(post[f].batch)

\* A decision the plugin holds is let go only when it was delivered, when the
\* endpoint refused it, when the buffer is full, by the cancellation of the POST
\* that carries it, or by a stop that has no endpoint to flush to.
LostOnlyWhen ==
  [][\A d \in Held \ Held' :
       \/ d \in delivered'
       \/ WasRefused(d)
       \/ Len(buffer') = MaxBuffer
       \/ phase = "running" /\ d \in Elements(post["task"].batch)
            /\ (phase' # "running" \/ reconfigs' # reconfigs)
       \/ phase = "stopping" /\ next # "none" /\ d \in Elements(post["stop"].batch)
            /\ phase' = "stopped"
       \/ config = "console" /\ d \in Elements(buffer)]_vars

\* No decision is stuck while the plugin runs with an endpoint: whatever POSTs
\* fail or time out, it is delivered or let go in one of the ways above.
EventuallyDelivered ==
  \A d \in Decisions :
    (d \in Held) ~> (d \in delivered \/ d \notin Held
                     \/ phase # "running" \/ config = "console")
=============================================================================
