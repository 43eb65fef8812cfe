---------------------------- MODULE PluginManager ----------------------------
(***************************************************************************)
(* PluginManager, DiscoveryPlugin and the life cycle of the plug-ins it    *)
(* reconfigures (plugins/manager.py).  Discovery's poll task fetches a     *)
(* configuration and reconfigures the plug-ins it names, one after the     *)
(* other; stop_all may find it anywhere.  A plug-in's reconfigure runs     *)
(* without suspension, except that the decision log's stop awaits a flush  *)
(* when it holds entries and has an endpoint.  A configuration that names  *)
(* discovery itself cancels the task that is applying it.                  *)
(***************************************************************************)
EXTENDS Sequences, SequencesExt

CONSTANTS Plugins,         \* names, in the order of their registration
          Configs, Initial,\* configurations the server may serve, and the one of the start
          Sections,        \* the plug-ins each names, in the order of its keys
          Malformed,       \* the plug-ins that each makes raise in start
          Silent,          \* configurations that name no endpoint for decisions
          Undirected,      \* configurations whose discovery section names no server
          Tagged           \* configurations served with an ETag

VARIABLES phase,           \* off, up, stopping, flushing (stop_all in the log's flush), down
          toStop,          \* plug-ins stop_all has still to stop
          running, status, config,   \* _running, _status.state and _config of each plug-in
          held,            \* whether the decision log's buffer has entries
          poll,            \* discovery's task: where it is, sections left, their configuration
          etag, served     \* discovery's _etag, and the configuration on the server

vars == <<phase, toStop, running, status, config, held, poll, etag, served>>
plugins == <<running, status, config>>

Names == Range(Plugins)
NoTag == "no tag"
Tag(c) == IF c \in Tagged THEN c ELSE NoTag

Task(at) == [at |-> at, rest |-> <<>>, conf |-> Initial, cancelled |-> FALSE]

Init ==
  /\ phase = "off" /\ toStop = <<>> /\ held = FALSE
  /\ running = [p \in Names |-> FALSE] /\ status = [p \in Names |-> "NOT_READY"]
  /\ config = [p \in Names |-> Initial]
  /\ poll = Task("none") /\ etag = NoTag /\ served \in Configs

\* What the decision log's stop does with a buffer that has entries: it raises when
\* reporting is no object, clears the buffer without an endpoint, awaits a flush otherwise.
Unflushable(c) == c # Initial /\ "decision_log" \in Malformed[c]
StopRaises == held /\ Unflushable(config["decision_log"])
StopAwaits == held /\ ~Unflushable(config["decision_log"]) /\ config["decision_log"] \notin Silent

\* Code that runs without suspension: between sections, and in stop_all.
Busy == poll.at = "apply" \/ phase = "stopping"

StartAll ==
  /\ phase = "off" /\ phase' = "up"
  /\ running' = [p \in Names |-> TRUE] /\ status' = [p \in Names |-> "OK"]
  /\ poll' = Task("ready")
  /\ UNCHANGED <<toStop, config, held, etag, served>>

\* DecisionLogPlugin.record, which does not ask whether the plug-in runs
Record ==
  /\ ~Busy /\ ~held /\ held' = TRUE
  /\ UNCHANGED <<phase, toStop, plugins, poll, etag, served>>

\* _periodic_flush; a batch that fails comes back as if it were recorded
PeriodicFlush ==
  /\ ~Busy /\ running["decision_log"] /\ StopAwaits /\ held' = FALSE
  /\ UNCHANGED <<phase, toStop, plugins, poll, etag, served>>

Publish(c) ==
  /\ ~Busy /\ served' = c
  /\ UNCHANGED <<phase, toStop, plugins, held, poll, etag>>

-----------------------------------------------------------------------------
\* DiscoveryPlugin's task
Fetch ==
  /\ ~Busy /\ poll.at = "ready" /\ poll' = Task("fetch")
  /\ UNCHANGED <<phase, toStop, plugins, held, etag, served>>

\* The tag is kept as soon as the response is good, and before anything is applied.
Respond ==
  /\ ~Busy /\ poll.at = "fetch"
  /\ IF etag # NoTag /\ etag = Tag(served)
     THEN poll' = Task("ready") /\ UNCHANGED etag
     ELSE poll' = [at |-> "apply", rest |-> Sections[served], conf |-> served, cancelled |-> FALSE]
          /\ etag' = Tag(served)
  /\ UNCHANGED <<phase, toStop, plugins, held, served>>

\* Mutant: the tag is kept before the status of the response is looked at.
FetchFailsKeepsTag ==
  /\ ~Busy /\ poll.at = "fetch" /\ poll' = Task("ready") /\ etag' = Tag(served)
  /\ status' = [status EXCEPT !["discovery"] = "ERROR"]
  /\ UNCHANGED <<phase, toStop, running, config, held, served>>

\* The error stays in the status until discovery is started again.
FetchFails ==
  /\ ~Busy /\ poll.at = "fetch" /\ poll' = Task("ready")
  /\ status' = [status EXCEPT !["discovery"] = "ERROR"]
  /\ UNCHANGED <<phase, toStop, running, config, held, etag, served>>

Section(p) == poll.at = "apply" /\ poll.rest # <<>> /\ Head(poll.rest) = p

\* The application ends; discovery's new task, if its section makes one, takes over from
\* a task that is cancelled.
Left(cancelled) ==
  LET taskless == poll.conf \in Undirected \/ "discovery" \in Malformed[poll.conf]
  IN Task(IF cancelled /\ taskless THEN "none" ELSE "ready")

\* The new configuration, and start, which has set _running when it reads the section: when
\* that raises, the sections that follow are skipped.  Discovery's own section cancels this
\* task, which goes on until it suspends.
Restarted(p) ==
  LET raises == p \in Malformed[poll.conf]
      cancelled == poll.cancelled \/ p = "discovery"
  IN /\ running' = [running EXCEPT ![p] = TRUE]
     /\ config' = [config EXCEPT ![p] = poll.conf]
     /\ status' = IF raises THEN [status EXCEPT ![p] = "OK", !["discovery"] = "ERROR"]
                  ELSE [status EXCEPT ![p] = "OK"]
     /\ poll' = IF raises THEN Left(cancelled)
                ELSE [poll EXCEPT !.at = "apply", !.rest = Tail(@), !.cancelled = cancelled]

ApplyAtOnce(p) ==
  /\ Section(p) /\ (p = "decision_log" => ~StopAwaits /\ ~StopRaises)
  /\ Restarted(p)
  /\ held' = (held /\ p # "decision_log")
  /\ UNCHANGED <<phase, toStop, etag, served>>

\* The decision log stays stopped, with its configuration and its buffer.
ApplyRaises ==
  /\ Section("decision_log") /\ StopRaises
  /\ running' = [running EXCEPT !["decision_log"] = FALSE]
  /\ status' = [status EXCEPT !["discovery"] = "ERROR"]
  /\ poll' = Left(poll.cancelled)
  /\ UNCHANGED <<phase, toStop, config, held, etag, served>>

\* DecisionLogPlugin.stop takes the batch and awaits its delivery.  A task that is
\* cancelled ends there: the batch is lost, and the log stays stopped.
ApplySuspends ==
  /\ Section("decision_log") /\ StopAwaits
  /\ running' = [running EXCEPT !["decision_log"] = FALSE] /\ held' = FALSE
  /\ poll' = IF poll.cancelled THEN Left(TRUE) ELSE [poll EXCEPT !.at = "flush"]
  /\ UNCHANGED <<phase, toStop, status, config, etag, served>>

\* Delivered, or put back into the buffer.
ApplyResumes ==
  /\ ~Busy /\ poll.at = "flush"
  /\ Restarted("decision_log")
  /\ \E failed \in BOOLEAN : held' = (held \/ failed)
  /\ UNCHANGED <<phase, toStop, etag, served>>

Applied ==
  /\ poll.at = "apply" /\ poll.rest = <<>> /\ poll' = Left(poll.cancelled)
  /\ UNCHANGED <<phase, toStop, plugins, held, etag, served>>

-----------------------------------------------------------------------------
\* stop_all
\* Mutant: in the order of the start.
StopOrderOfStart == Plugins

StopOrder == Reverse(Plugins)

StopAll ==
  /\ phase = "up" /\ ~Busy /\ phase' = "stopping" /\ toStop' = StopOrder
  /\ UNCHANGED <<plugins, held, poll, etag, served>>

Stopped(p) ==
  /\ running' = [running EXCEPT ![p] = FALSE]
  /\ status' = [status EXCEPT ![p] = "NOT_READY"]

\* Discovery's stop cancels its task, wherever it is suspended.
StopNext ==
  /\ phase = "stopping" /\ toStop # <<>>
  /\ (Head(toStop) = "decision_log" => ~StopAwaits /\ ~StopRaises)
  /\ Stopped(Head(toStop)) /\ toStop' = Tail(toStop)
  /\ poll' = IF Head(toStop) = "discovery" THEN Task("none") ELSE poll
  /\ held' = (held /\ Head(toStop) # "decision_log")
  /\ UNCHANGED <<phase, config, etag, served>>

\* stop_all goes on; the status is what it was.
StopFails ==
  /\ phase = "stopping" /\ toStop # <<>> /\ Head(toStop) = "decision_log" /\ StopRaises
  /\ running' = [running EXCEPT !["decision_log"] = FALSE] /\ toStop' = Tail(toStop)
  /\ UNCHANGED <<phase, status, config, held, poll, etag, served>>

StopSuspends ==
  /\ phase = "stopping" /\ toStop # <<>> /\ Head(toStop) = "decision_log" /\ StopAwaits
  /\ phase' = "flushing" /\ held' = FALSE
  /\ running' = [running EXCEPT !["decision_log"] = FALSE]
  /\ UNCHANGED <<toStop, status, config, poll, etag, served>>

StopResumes ==
  /\ phase = "flushing" /\ ~Busy
  /\ phase' = "stopping" /\ toStop' = Tail(toStop)
  /\ status' = [status EXCEPT !["decision_log"] = "NOT_READY"]
  /\ \E failed \in BOOLEAN : held' = (held \/ failed)
  /\ UNCHANGED <<running, config, poll, etag, served>>

StopEnds ==
  /\ phase = "stopping" /\ toStop = <<>> /\ phase' = "down"
  /\ UNCHANGED <<toStop, plugins, held, poll, etag, served>>

-----------------------------------------------------------------------------
Stop == StopNext \/ StopFails \/ StopSuspends \/ StopResumes \/ StopEnds
Apply == ApplyRaises \/ ApplySuspends \/ ApplyResumes \/ Applied \/ \E p \in Names : ApplyAtOnce(p)
Next ==
  \/ StartAll \/ StopAll \/ Stop
  \/ Record \/ PeriodicFlush \/ \E c \in Configs : Publish(c)
  \/ Fetch \/ Respond \/ FetchFails \/ Apply

\* The event loop resumes every task whose await ends, sleeps and requests end, and a
\* server that is asked again and again answers well again and again.
Fairness == WF_vars(Fetch) /\ WF_vars(Apply) /\ WF_vars(Stop) /\ SF_vars(Respond)

Spec == Init /\ [][Next]_vars /\ Fairness

-----------------------------------------------------------------------------
\* A plug-in whose status says that it is not ready does not run (a stop that was suspended
\* does not overwrite the status of a start that came after it), and once stop_all has
\* returned none runs and all say so, although discovery may have been about to start any
\* of them again while stop_all awaited the decision log's flush; only a decision log
\* whose stop raised keeps the status it had.
NothingRunsAfterStop ==
  /\ \A p \in Names : status[p] = "NOT_READY" => ~running[p]
  /\ phase = "down" =>
       /\ poll.at = "none"
       /\ \A p \in Names : /\ ~running[p]
                           /\ (status[p] = "NOT_READY" \/ (p = "decision_log" /\ StopRaises))

\* A configuration that stays published reaches every plug-in it names and stays there,
\* whatever fetches failed and whatever was being applied, unless applying it raises or
\* interrupts itself: the ETag never stands for a configuration that was not applied.
\* Two things an earlier configuration leaves behind stand in its way for good: a decision
\* log with entries whose reporting is no object, which raises in every later stop, and a
\* discovery without a task.
Whole(c) == Range(Sections[c]) \cap (Malformed[c] \cup {"discovery"}) = {}
Obstructed == StopRaises \/ poll.at = "none"
Converges ==
  \A c \in Configs : Whole(c) =>
    (<>[](served = c /\ phase = "up" /\ ~Obstructed) =>
      \A p \in Range(Sections[c]) : <>[](config[p] = c) /\ []<>running[p])
=============================================================================
