----------------------------- MODULE AgentProofs -----------------------------
(***************************************************************************)
(* stop_all, the sessions and the decision ring of a server process, for   *)
(* any plug-ins registered with discovery last, any configurations it may  *)
(* fetch, any number of sessions, and any size of the ring and its pages.  *)
(***************************************************************************)
EXTENDS Agent, SequenceTheorems, TLAPS

-----------------------------------------------------------------------------
\* Plug-ins

Places == {"none", "ready", "fetch", "apply", "flush"}
Polls == [at : Places, rest : Seq(STRING), conf : Configs \cup {Initial}, cancelled : BOOLEAN]

TypeInv ==
  /\ running \in [Manager!Names -> BOOLEAN]
  /\ status \in [Manager!Names -> {"NOT_READY", "OK", "ERROR"}]
  /\ poll \in Polls /\ served \in Configs
  /\ poll.at = "flush" => poll.rest # <<>>
  /\ phase \in {"off", "up", "stopping", "flushing", "down"}
  /\ toStop \in Seq(Manager!Names)

\* The status of a plug-in that runs is never that of one that was stopped.
ReadyRuns == \A p \in Manager!Names : status[p] = "NOT_READY" => ~running[p]

\* Discovery is stopped first: then its task is gone, and nothing is started again.
TaskInTime ==
  poll.at # "none" =>
    \/ phase = "up"
    \/ phase = "stopping" /\ toStop = Manager!StopOrder /\ poll.at # "apply"

\* What stop_all has passed is stopped, and says so unless its stop raised.
Passed(p) ==
  /\ ~running[p]
  /\ status[p] = "NOT_READY" \/ (p = "decision_log" /\ Manager!StopRaises)

PassedStopped ==
  /\ phase \in {"stopping", "flushing", "down"} =>
       \A p \in Manager!Names \ Manager!Range(toStop) : Passed(p)
  /\ phase = "flushing" => toStop # <<>> /\ Head(toStop) = "decision_log"
                           /\ ("decision_log" \in Manager!Names => ~running["decision_log"])
  /\ phase = "down" => toStop = <<>>

StopInv == TypeInv /\ ReadyRuns /\ TaskInTime /\ PassedStopped

\* Reverse of a registration without repetition: discovery comes first, and not again.
LEMMA DiscoveryFirst ==
  /\ Manager!StopOrder \in Seq(Manager!Names) /\ Manager!StopOrder # <<>>
  /\ Head(Manager!StopOrder) = "discovery"
  /\ Tail(Manager!StopOrder) # Manager!StopOrder
  /\ Manager!Range(Manager!StopOrder) = Manager!Names
<1> DEFINE n == Len(Plugins)
<1>1. n \in Nat \ {0} /\ DOMAIN Plugins = 1..n
  BY PluginsAssumption, EmptySeq
<1>2. Manager!StopOrder = [i \in 1..n |-> Plugins[n - i + 1]]
  BY DEF Manager!StopOrder, Manager!Reverse
<1>3. Manager!Names = {Plugins[i] : i \in 1..n}
  BY <1>1 DEF Manager!Names, Manager!Range
<1> HIDE DEF n
<1>4. \A i \in 1..n : n - i + 1 \in 1..n /\ n - (n - i + 1) + 1 = i
  BY <1>1
<1>5. Manager!StopOrder \in [1..n -> Manager!Names]
  BY <1>2, <1>3, <1>4
<1>6. Manager!StopOrder \in Seq(Manager!Names) /\ Len(Manager!StopOrder) = n
  BY <1>1, <1>5, SeqDef
<1>7. Head(Manager!StopOrder) = "discovery"
  BY <1>1, <1>2, <1>6, PluginsAssumption DEF n
<1>8. Manager!Range(Manager!StopOrder) = Manager!Names
  BY <1>1, <1>2, <1>3, <1>4 DEF Manager!Range
<1>9. Len(Tail(Manager!StopOrder)) = n - 1
  BY <1>1, <1>6
<1> QED BY <1>1, <1>6, <1>7, <1>8, <1>9

\* What is left of toStop is what toStop holds beside its head.
LEMMA RangeOfTail ==
  ASSUME NEW S, NEW s \in Seq(S), s # <<>>
  PROVE  /\ Head(s) \in S /\ Tail(s) \in Seq(S)
         /\ Manager!Range(s) = {Head(s)} \cup Manager!Range(Tail(s))
<1>1. /\ Len(s) \in Nat \ {0} /\ DOMAIN s = 1..Len(s) /\ Head(s) = s[1]
      /\ Tail(s) \in Seq(S) /\ Len(Tail(s)) = Len(s) - 1
      /\ \A i \in 1..Len(Tail(s)) : Tail(s)[i] = s[i + 1]
  BY EmptySeq, HeadTailProperties
<1>2. DOMAIN Tail(s) = 1..(Len(s) - 1)
  BY <1>1
<1>3. ASSUME NEW i \in 1..Len(s) PROVE s[i] \in {Head(s)} \cup Manager!Range(Tail(s))
  <2>1. CASE i = 1
    BY <2>1, <1>1
  <2>2. CASE i # 1
    <3>1. i - 1 \in DOMAIN Tail(s) /\ Tail(s)[i - 1] = s[i]
      BY <2>2, <1>1, <1>2
    <3> QED BY <3>1 DEF Manager!Range
  <2> QED BY <2>1, <2>2
<1>4. ASSUME NEW i \in DOMAIN Tail(s) PROVE Tail(s)[i] \in Manager!Range(s)
  <2>1. i + 1 \in DOMAIN s /\ s[i + 1] = Tail(s)[i]
    BY <1>1, <1>2
  <2> QED BY <2>1 DEF Manager!Range
<1> QED BY <1>1, <1>3, <1>4 DEF Manager!Range

\* The states of discovery's task: a fresh one, and the steps through the sections.
LEMMA FreshTask == \A at \in Places : Manager!Task(at) \in Polls /\ Manager!Task(at).at = at
BY EmptySeq DEF Polls, Manager!Task

LEMMA Moved ==
  ASSUME poll \in Polls, NEW at \in Places
  PROVE  /\ [poll EXCEPT !.at = at] \in Polls /\ [poll EXCEPT !.at = at].at = at
         /\ [poll EXCEPT !.at = at].rest = poll.rest
BY DEF Polls

\* An application that ends leaves a fresh task or none; a section that is done leaves the
\* sections after it.
LEMMA AfterSection ==
  ASSUME poll \in Polls, NEW p, Manager!Restarted(p), poll.rest # <<>>
  PROVE  poll' \in Polls /\ poll'.at \in {"none", "ready", "apply"}
<1>1. Tail(poll.rest) \in Seq(STRING)
  BY HeadTailProperties DEF Polls
<1> DEFINE cancelled == poll.cancelled \/ p = "discovery"
           next == [poll EXCEPT !.at = "apply", !.rest = Tail(@), !.cancelled = cancelled]
<1>2. poll' = next \/ poll' = Manager!Left(cancelled)
  BY DEF Manager!Restarted
<1>3. cancelled \in BOOLEAN
  OBVIOUS
<1> HIDE DEF cancelled
<1>4. next \in Polls /\ next.at = "apply"
  BY <1>1, <1>3 DEF Polls, Places
<1> HIDE DEF next
<1> QED BY <1>2, <1>4, FreshTask DEF Manager!Left, Places

LEMMA InitStopInv == Init => StopInv
BY EmptySeq, FreshTask
   DEF Init, Manager!Init, StopInv, TypeInv, ReadyRuns, TaskInTime, PassedStopped, Places

\* Discovery's task reconfigures plug-ins only while stop_all has not begun.
LEMMA ApplyKeepsStopInv == ASSUME StopInv, Manager!Apply PROVE StopInv'
<1> USE DEF StopInv, TypeInv, ReadyRuns, TaskInTime, PassedStopped
<1>1. poll.at \in {"apply", "flush"} /\ phase = "up" /\ poll.at \in Places /\ poll \in Polls
  BY DEF Polls, Places, Manager!Apply, Manager!ApplyRaises, Manager!ApplySuspends, Manager!ApplyResumes,
         Manager!Applied, Manager!ApplyAtOnce, Manager!Section, Manager!Busy
<1>2. \A c : Manager!Left(c) \in Polls /\ Manager!Left(c).at \in {"none", "ready"}
  BY FreshTask DEF Manager!Left, Places
<1>3. CASE Manager!ApplyRaises
  BY <1>1, <1>2, <1>3 DEF Manager!ApplyRaises
<1>4. CASE Manager!ApplySuspends
  <2>1. /\ poll' \in Polls /\ poll'.at \in {"none", "ready", "flush"}
        /\ poll'.at = "flush" => poll'.rest # <<>>
    BY <1>1, <1>2, <1>4, Moved DEF Manager!ApplySuspends, Manager!Section, Places
  <2> QED BY <1>1, <1>4, <2>1 DEF Manager!ApplySuspends
<1>5. CASE Manager!ApplyResumes
  <2>1. poll.rest # <<>> /\ Manager!Restarted("decision_log")
    BY <1>5 DEF Manager!ApplyResumes
  <2>2. poll' \in Polls /\ poll'.at \in {"none", "ready", "apply"}
    <3>1. poll \in Polls
      BY <1>1
    <3> QED BY <2>1, <3>1, AfterSection, Zenon
  <2> QED BY <1>1, <1>5, <2>2 DEF Manager!ApplyResumes, Manager!Restarted
<1>6. CASE Manager!Applied
  BY <1>1, <1>2, <1>6 DEF Manager!Applied, Manager!plugins
<1>7. ASSUME NEW p \in Manager!Names, Manager!ApplyAtOnce(p) PROVE StopInv'
  <2>1. poll' \in Polls /\ poll'.at \in {"none", "ready", "apply"}
    BY <1>1, <1>7, AfterSection DEF Manager!ApplyAtOnce, Manager!Section
  <2> QED BY <1>1, <1>7, <2>1 DEF Manager!ApplyAtOnce, Manager!Restarted
<1> QED BY <1>3, <1>4, <1>5, <1>6, <1>7 DEF Manager!Apply

\* stop_all goes through the plug-ins in its order; the flush of the decision log, which
\* lets other tasks run, comes when discovery's task is gone.
LEMMA StopKeepsStopInv == ASSUME StopInv, Manager!Stop PROVE StopInv'
<1> USE DEF StopInv, TypeInv, ReadyRuns, TaskInTime, PassedStopped
<1>1. CASE Manager!StopNext
  <2>1. /\ toStop # <<>> /\ phase = "stopping" /\ phase' = phase /\ toStop' = Tail(toStop)
        /\ served' = served /\ config' = config
        /\ held' = (held /\ Head(toStop) # "decision_log")
        /\ running' = [running EXCEPT ![Head(toStop)] = FALSE]
        /\ status' = [status EXCEPT ![Head(toStop)] = "NOT_READY"]
        /\ poll' = IF Head(toStop) = "discovery" THEN Manager!Task("none") ELSE poll
    BY <1>1 DEF Manager!StopNext, Manager!Stopped
  <2>2. /\ Head(toStop) \in Manager!Names /\ Tail(toStop) \in Seq(Manager!Names)
        /\ Manager!Range(toStop) = {Head(toStop)} \cup Manager!Range(Tail(toStop))
    BY <2>1, RangeOfTail
  <2>3. poll'.at = "none" /\ poll' \in Polls
    BY <2>1, DiscoveryFirst, FreshTask DEF Places
  <2>4. ASSUME NEW p \in Manager!Names \ Manager!Range(toStop') PROVE Passed(p)'
    <3>1. CASE p = Head(toStop)
      BY <2>1, <3>1 DEF Passed
    <3>2. CASE p # Head(toStop)
      <4>1. Passed(p)
        BY <2>1, <2>2, <3>2
      <4> QED BY <2>1, <3>2, <4>1 DEF Passed, Manager!StopRaises
    <3> QED BY <3>1, <3>2
  <2> QED BY <2>1, <2>2, <2>3, <2>4
<1>2. CASE Manager!StopSuspends
  <2>1. poll.at = "none"
    BY <1>2, DiscoveryFirst DEF Manager!StopSuspends
  <2>2. ASSUME NEW p \in Manager!Names \ Manager!Range(toStop') PROVE Passed(p)'
    BY <1>2 DEF Passed, Manager!StopSuspends, Manager!StopAwaits, Manager!StopRaises
  <2> QED BY <1>2, <2>1, <2>2 DEF Manager!StopSuspends
<1>3. CASE Manager!StopResumes
  <2>1. /\ toStop # <<>> /\ phase = "flushing" /\ phase' = "stopping" /\ toStop' = Tail(toStop)
        /\ status' = [status EXCEPT !["decision_log"] = "NOT_READY"]
        /\ Head(toStop) = "decision_log" /\ poll.at = "none" /\ poll' = poll
        /\ running' = running /\ served' = served /\ config' = config
        /\ held => held'
    BY <1>3 DEF Manager!StopResumes
  <2>2. /\ Head(toStop) \in Manager!Names /\ Tail(toStop) \in Seq(Manager!Names)
        /\ Manager!Range(toStop) = {Head(toStop)} \cup Manager!Range(Tail(toStop))
    BY <2>1, RangeOfTail
  <2>3. ASSUME NEW p \in Manager!Names \ Manager!Range(toStop') PROVE Passed(p)'
    BY <2>1, <2>2 DEF Passed, Manager!StopRaises
  <2> QED BY <2>1, <2>2, <2>3
<1>4. CASE Manager!StopEnds
  BY <1>4, DiscoveryFirst DEF Manager!StopEnds, Manager!plugins, Passed, Manager!StopRaises
<1>5. CASE Manager!StopFails
  <2>1. /\ toStop # <<>> /\ phase = "stopping" /\ phase' = phase /\ toStop' = Tail(toStop)
        /\ Head(toStop) = "decision_log" /\ Manager!StopRaises
        /\ running' = [running EXCEPT !["decision_log"] = FALSE]
        /\ UNCHANGED <<status, config, held, poll, served>>
    BY <1>5 DEF Manager!StopFails
  <2>2. /\ Head(toStop) \in Manager!Names /\ Tail(toStop) \in Seq(Manager!Names)
        /\ Manager!Range(toStop) = {Head(toStop)} \cup Manager!Range(Tail(toStop))
    BY <2>1, RangeOfTail
  <2>3. ASSUME NEW p \in Manager!Names \ Manager!Range(toStop') PROVE Passed(p)'
    BY <2>1, <2>2 DEF Passed, Manager!StopRaises
  <2>4. poll.at = "none"
    BY <2>1, DiscoveryFirst
  <2> QED BY <2>1, <2>2, <2>3, <2>4
<1> QED BY <1>1, <1>2, <1>3, <1>4, <1>5 DEF Manager!Stop

LEMMA NextStopInv == StopInv /\ [Next]_vars => StopInv'
<1> SUFFICES ASSUME StopInv, [Next]_vars PROVE StopInv'
  OBVIOUS
<1> USE DEF StopInv, TypeInv, ReadyRuns, TaskInTime, PassedStopped
<1>1. CASE Manager!StartAll
  BY <1>1, FreshTask DEF Manager!StartAll, Places
<1>2. CASE Manager!StopAll
  BY <1>2, DiscoveryFirst DEF Manager!StopAll, Manager!Busy, Manager!plugins
<1>3. CASE Manager!Record \/ Manager!PeriodicFlush \/ \E c \in Configs : Manager!Publish(c)
  <2>1. ASSUME NEW p \in Manager!Names, Passed(p) PROVE Passed(p)'
    BY <1>3, <2>1 DEF Passed, Manager!StopRaises, Manager!StopAwaits,
                      Manager!Record, Manager!PeriodicFlush, Manager!Publish, Manager!plugins
  <2> QED BY <1>3, <2>1 DEF Manager!Record, Manager!PeriodicFlush, Manager!Publish, Manager!plugins
<1>4. CASE Manager!Fetch \/ Manager!Respond
  <2> DEFINE applied == [at |-> "apply", rest |-> Sections[served], conf |-> served, cancelled |-> FALSE]
  <2>1. applied \in Polls /\ applied.at = "apply"
    BY SectionsAssumption DEF Polls, Places
  <2>4. poll' \in {Manager!Task("ready"), Manager!Task("fetch"), applied}
    BY <1>4 DEF Manager!Fetch, Manager!Respond
  <2> HIDE DEF applied
  <2>5. poll' \in Polls /\ poll'.at # "flush" /\ poll'.at # "none"
    BY <2>1, <2>4, FreshTask DEF Places
  <2>2. poll.at \in {"ready", "fetch"}
    BY <1>4 DEF Manager!Fetch, Manager!Respond
  <2>3. phase = "up"
    BY <1>4, <2>2 DEF Manager!Fetch, Manager!Respond, Manager!Busy
  <2> QED BY <1>4, <2>5, <2>3 DEF Manager!Fetch, Manager!Respond, Manager!plugins
<1>5. CASE Manager!FetchFails
  BY <1>5, FreshTask DEF Manager!FetchFails, Manager!Busy, Places
<1>6. CASE UNCHANGED managerVars
  BY <1>6 DEF managerVars, Passed, Manager!StopRaises
<1> QED BY <1>1, <1>2, <1>3, <1>4, <1>5, <1>6, ApplyKeepsStopInv, StopKeepsStopInv
        DEF Next, ManagerStep, Manager!Next, vars

\* When stop_all has returned, no plug-in runs and discovery's task is gone, wherever the
\* task was and however often the decision log's flush let other code run.
THEOREM StopIsFinal == Spec => []NothingRunsAfterStop
<1>1. StopInv => NothingRunsAfterStop
  <2> SUFFICES ASSUME StopInv PROVE NothingRunsAfterStop
    OBVIOUS
  <2> USE DEF StopInv, TypeInv, ReadyRuns, TaskInTime, PassedStopped
  <2>1. Manager!Range(<<>>) = {}
    BY DEF Manager!Range
  <2> QED BY <2>1 DEF NothingRunsAfterStop, Manager!NothingRunsAfterStop, Passed
<1> QED BY <1>1, InitStopInv, NextStopInv, PTL DEF Spec

-----------------------------------------------------------------------------
\* Sessions

\* A token that was logged out or refused was handed out, and has no session any more.
SessionInv == ended \cup DOMAIN sessions \subseteq used /\ ended \cap DOMAIN sessions = {}

LEMMA NextSessionInv == SessionInv /\ [Next]_vars => SessionInv'
<1> SUFFICES ASSUME SessionInv, [Next]_vars PROVE SessionInv'
  OBVIOUS
<1> USE DEF SessionInv
<1>1. CASE UI!Tick
  BY <1>1 DEF UI!Tick
<1>2. ASSUME NEW t \in Tokens, UI!Login(t) PROVE SessionInv'
  <2>1. DOMAIN sessions' = {t} \cup DOMAIN sessions
    BY <1>2 DEF UI!Login
  <2> QED BY <1>2, <2>1 DEF UI!Login
<1>3. ASSUME NEW t \in Tokens, UI!Validate(t) PROVE SessionInv'
  BY <1>3 DEF UI!Validate, UI!Valid, UI!Without
<1>4. ASSUME NEW t \in Tokens, UI!Logout(t) PROVE SessionInv'
  BY <1>4 DEF UI!Logout, UI!Without
<1>5. CASE UNCHANGED <<sessions, used, ended>>
  BY <1>5
<1> QED BY <1>1, <1>2, <1>3, <1>4, <1>5
        DEF Next, ManagerStep, UI!SessionNext, UI!RingNext, UI!Record, UI!Clear, UI!Page,
            UI!PageAgain, UI!sessionVars, uiVars, vars

\* A token that was logged out or refused once stays invalid, whatever the clock does and
\* whoever else logs in.
THEOREM SessionsAlwaysEnd == Spec => []SessionsEnd
<1>1. Init => SessionInv
  BY DEF Init, UI!Init, SessionInv
<1>2. SessionInv => SessionsEnd
  BY DEF SessionInv, SessionsEnd, UI!SessionsEnd, UI!Valid
<1> QED BY <1>1, <1>2, NextSessionInv, PTL DEF Spec

-----------------------------------------------------------------------------
\* The ring of decisions and the client that reads it

\* The ids are those the counter has given out, newer than all the client knew when it
\* began; what the client has not seen yet is behind its offset.
RingInv ==
  /\ counter \in Nat /\ ring \in Seq(1..counter) /\ Len(ring) <= RingSize
  /\ pager.offset \in Nat /\ pager.limit \in Nat /\ pager.first \subseteq 1..counter
  /\ ~pager.reading => pager.offset = 0
  /\ pager.limit <= MaxLimit /\ ~pager.done =>
       \A i \in 1..Len(ring) : ring[i] \in pager.first \ pager.seen => i > pager.offset
  /\ pager.limit <= MaxLimit /\ pager.done =>
       \A i \in 1..Len(ring) : ring[i] \in pager.first => ring[i] \in pager.seen

\* The smaller of two numbers.
LEMMA MinOfTwo ==
  ASSUME NEW a \in Nat, NEW b \in Nat
  PROVE  UI!Min({a, b}) = IF a <= b THEN a ELSE b
<1>1. \E m \in {a, b} : \A y \in {a, b} : m <= y
  OBVIOUS
<1>2. UI!Min({a, b}) \in {a, b} /\ \A y \in {a, b} : UI!Min({a, b}) <= y
  BY <1>1 DEF UI!Min
<1> QED BY <1>2

\* A page is what lies between two offsets.
LEMMA PageHolds ==
  ASSUME NEW S, NEW r \in Seq(S), NEW offset \in Nat, NEW size \in Nat \ {0}, NEW page,
         page = SubSeq(r, offset + 1, UI!Min({offset + size, Len(r)}))
  PROVE  /\ page = <<>> <=> offset >= Len(r)
         /\ \A i \in 1..Len(r) : offset < i /\ i <= offset + size => r[i] \in UI!Range(page)
<1> DEFINE len == Len(r)
           last == UI!Min({offset + size, len})
<1>1. len \in Nat
  OBVIOUS
<1>2. last = IF offset + size <= len THEN offset + size ELSE len
  BY <1>1, MinOfTwo
<1>3. page = SubSeq(r, offset + 1, last) /\ \A i \in 1..len : r[i] \in S
  OBVIOUS
<1> HIDE DEF last, len
<1> DEFINE from == offset + 1
           n == last - from + 1
<1>4. from \in Int /\ last \in Int
  BY <1>1, <1>2
<1>5. page = SubSeq(r, from, last)
  BY <1>3, Zenon
<1>6. CASE offset >= len
  <2>1. last < from
    BY <1>1, <1>2, <1>6
  <2> HIDE DEF from
  <2>2. page = <<>>
    BY <1>4, <1>5, <2>1, SubSeqEmpty, Zenon
  <2>3. \A i \in 1..len : ~(offset < i)
    BY <1>1, <1>6
  <2> QED BY <1>1, <1>6, <2>2, <2>3 DEF len
<1>7. CASE offset < len
  <2>1. last \in 1..len /\ from \in 1..len /\ from <= last /\ n \in Nat \ {0}
    BY <1>1, <1>2, <1>7
  <2>2. \A i \in from..last : r[i] \in S
    BY <1>1, <1>3, <2>1
  <2>3. \A i \in 1..len : offset < i /\ i <= offset + size =>
          \E j \in 1..n : from + j - 1 = i
    <3> SUFFICES ASSUME NEW i \in 1..len, offset < i, i <= offset + size
                 PROVE  i - offset \in 1..n /\ from + (i - offset) - 1 = i
      OBVIOUS
    <3> QED BY <1>1, <1>2, <1>7
  <2> HIDE DEF from
  <2>4. /\ page \in Seq(S) /\ Len(page) = n
        /\ \A j \in 1..n : page[j] = r[from + j - 1]
    <3>1. /\ SubSeq(r, from, last) \in Seq(S)
          /\ Len(SubSeq(r, from, last)) = IF from <= last THEN last - from + 1 ELSE 0
          /\ \A j \in 1..(last - from + 1) : SubSeq(r, from, last)[j] = r[from + j - 1]
      BY <1>4, <2>2, SubSeqProperties
    <3>2. page \in Seq(S) /\ Len(page) = IF from <= last THEN last - from + 1 ELSE 0
      BY <1>5, <3>1, Zenon
    <3>3. Len(page) = n
      BY <2>1, <3>2
    <3>4. \A j \in 1..n : page[j] = r[from + j - 1]
      BY <1>5, <3>1, Zenon
    <3> QED BY <3>2, <3>3, <3>4, Zenon
  <2> HIDE DEF n
  <2>5. page # <<>>
    BY <2>1, <2>4
  <2>6. ASSUME NEW i \in 1..len, offset < i, i <= offset + size PROVE r[i] \in UI!Range(page)
    <3>1. PICK j \in 1..n : from + j - 1 = i
      BY <2>3, <2>6
    <3>2. DOMAIN page = 1..n
      BY <2>4
    <3>3. page[j] = r[i]
      BY <2>4, <3>1, Zenon
    <3> QED BY <3>1, <3>2, <3>3, Zenon DEF UI!Range
  <2>7. ~(offset >= len)
    BY <1>1, <1>7
  <2> QED BY <1>7, <2>5, <2>6, <2>7 DEF len
<1>8. offset >= len \/ offset < len
  BY <1>1
<1> QED BY <1>6, <1>7, <1>8, Zenon

\* A record moves every entry further back, and its id is newer than the client's.
LEMMA RecordKeepsRingInv == ASSUME RingInv, UI!Record PROVE RingInv'
<1> DEFINE len == Len(ring)
           last == UI!Min({RingSize, len + 1})
           all == <<counter'>> \o ring
<1>1. /\ counter' = counter + 1 /\ pager' = pager /\ counter \in Nat
      /\ ring \in Seq(1..counter) /\ len \in Nat /\ len <= RingSize
  BY DEF RingInv, UI!Record
<1>2. ring' = SubSeq(all, 1, last)
  BY Zenon DEF UI!Record, UI!Appended
<1>3. last = IF RingSize <= len + 1 THEN RingSize ELSE len + 1
  BY <1>1, MinOfTwo, DashboardAssumption
<1>4. ring \in Seq(1..counter') /\ counter' \in 1..counter'
  BY <1>1
<1>5. /\ all \in Seq(1..counter') /\ Len(all) = len + 1 /\ all[1] = counter'
      /\ \A i \in 2..(len + 1) : all[i] = ring[i - 1]
  BY <1>1, <1>4
<1> HIDE DEF all, last, len
<1>6. last \in 1..(len + 1) /\ last <= RingSize
  BY <1>1, <1>3, DashboardAssumption
<1>7. /\ ring' \in Seq(1..counter') /\ Len(ring') = last
      /\ \A i \in 1..last : ring'[i] = all[i]
  <2>1. \A i \in 1..last : all[i] \in 1..counter'
    <3>1. Len(all) = len + 1 /\ len \in Nat
      BY <1>1, <1>5
    <3>2. \A i \in 1..last : i \in 1..(len + 1)
      <4>1. last \in Int /\ last <= len + 1
        BY <1>6, <3>1
      <4>2. QED
        BY <4>1, <3>1
    <3>3. \A i \in 1..Len(all) : all[i] \in 1..counter'
      <4> DEFINE Ids == 1..counter'
      <4>1. all \in Seq(Ids)
        BY <1>5
      <4> HIDE DEF Ids
      <4>2. \A i \in 1..Len(all) : all[i] \in Ids
        BY <4>1
      <4>3. QED
        BY <4>2 DEF Ids
    <3>4. QED
      BY <3>1, <3>2, <3>3
  <2>2. /\ SubSeq(all, 1, last) \in Seq(1..counter')
        /\ Len(SubSeq(all, 1, last)) = IF 1 <= last THEN last - 1 + 1 ELSE 0
        /\ \A i \in 1..(last - 1 + 1) : SubSeq(all, 1, last)[i] = all[1 + i - 1]
    BY <1>6, <2>1, SubSeqProperties
  <2>3. last - 1 + 1 = last /\ 1 <= last /\ \A i \in 1..last : 1 + i - 1 = i
    BY <1>1, <1>6
  <2> QED BY <1>2, <2>2, <2>3
<1>8. pager.first \subseteq 1..counter
  BY DEF RingInv
<1>9. ASSUME NEW i \in 1..Len(ring'), ring'[i] \in pager.first
      PROVE  i - 1 \in 1..Len(ring) /\ ring[i - 1] = ring'[i]
  <2>1. i \in 1..last /\ ring'[i] = all[i] /\ ring'[i] \in 1..counter
    BY <1>7, <1>8, <1>9
  <2>2. i # 1
    BY <1>1, <1>5, <2>1
  <2>3. i \in 2..(len + 1) /\ i - 1 \in 1..len
    BY <1>1, <1>6, <2>1, <2>2
  <2> QED BY <1>5, <2>1, <2>3 DEF len
<1>10. pager.limit <= MaxLimit /\ ~pager.done =>
         \A i \in 1..Len(ring') : ring'[i] \in pager.first \ pager.seen => i > pager.offset
  <2> SUFFICES ASSUME NEW i \in 1..Len(ring'), ring'[i] \in pager.first \ pager.seen,
                      pager.limit <= MaxLimit, ~pager.done
               PROVE  i > pager.offset
    OBVIOUS
  <2>1. i - 1 \in 1..Len(ring) /\ ring[i - 1] = ring'[i]
    BY <1>9
  <2>2. i - 1 > pager.offset /\ pager.offset \in Nat
    BY <2>1 DEF RingInv
  <2>3. i \in Int
    BY <1>1, <1>7, <1>6
  <2> QED BY <2>2, <2>3
<1>11. pager.limit <= MaxLimit /\ pager.done =>
         \A i \in 1..Len(ring') : ring'[i] \in pager.first => ring'[i] \in pager.seen
  BY <1>9 DEF RingInv
<1> QED BY <1>1, <1>6, <1>7, <1>8, <1>10, <1>11 DEF RingInv

\* A page that is read is seen; an empty one is read only behind the last entry.
LEMMA PageKeepsRingInv == ASSUME RingInv, NEW limit \in Limits, UI!Page(limit) PROVE RingInv'
<1> DEFINE size == UI!Min({limit, MaxLimit})
           page == SubSeq(ring, pager.offset + 1, UI!Min({pager.offset + size, Len(ring)}))
           first == IF pager.reading THEN pager.first ELSE UI!Range(ring)
<1>1. /\ ring' = ring /\ counter' = counter /\ ~pager.done
      /\ pager' = [reading |-> TRUE, done |-> page = <<>>, limit |-> limit,
                   offset |-> pager.offset + limit,
                   seen |-> pager.seen \cup UI!Range(page), first |-> first]
      /\ pager.reading => limit = pager.limit
  BY DEF UI!Page
<1>2. /\ limit \in Nat \ {0} /\ size \in Nat \ {0}
      /\ limit <= MaxLimit => size = limit
  BY MinOfTwo, DashboardAssumption
<1> HIDE DEF size
<1>3. /\ page = <<>> <=> pager.offset >= Len(ring)
      /\ \A i \in 1..Len(ring) : pager.offset < i /\ i <= pager.offset + size =>
           ring[i] \in UI!Range(page)
  BY <1>2, PageHolds DEF RingInv
<1>4. first \subseteq 1..counter
  BY DEF RingInv, UI!Range
<1> HIDE DEF page
<1>5. pager.offset \in Nat /\ pager.offset + limit \in Nat
  BY <1>2 DEF RingInv
<1>6. ASSUME limit <= MaxLimit, NEW i \in 1..Len(ring), ring[i] \in first \ pager.seen
      PROVE  i > pager.offset
  BY <1>1, <1>6 DEF RingInv
<1> HIDE DEF first
<1>7. limit <= MaxLimit =>
        \A i \in 1..Len(ring) : ring[i] \in pager'.first \ pager'.seen => i > pager'.offset
  <2> SUFFICES ASSUME limit <= MaxLimit, NEW i \in 1..Len(ring), ring[i] \in first,
                      ring[i] \notin pager.seen \cup UI!Range(page)
               PROVE  i > pager.offset + limit
    BY <1>1
  <2>1. i > pager.offset /\ ~(i <= pager.offset + limit)
    BY <1>2, <1>3, <1>5, <1>6
  <2> QED BY <1>5, <2>1
<1>8. limit <= MaxLimit /\ pager'.done =>
        \A i \in 1..Len(ring) : ring[i] \in pager'.first => ring[i] \in pager'.seen
  <2> SUFFICES ASSUME limit <= MaxLimit, page = <<>>, NEW i \in 1..Len(ring), ring[i] \in first
               PROVE  ring[i] \in pager.seen \cup UI!Range(page)
    BY <1>1, Zenon
  <2>1. ~(i > pager.offset)
    BY <1>3, <1>5
  <2> QED BY <1>6, <2>1
<1>9. pager'.limit = limit /\ pager'.offset = pager.offset + limit /\ pager'.reading
      /\ pager'.first = first
  BY <1>1
<1> QED BY <1>1, <1>2, <1>4, <1>5, <1>7, <1>8, <1>9 DEF RingInv

LEMMA NextRingInv == RingInv /\ [Next]_vars => RingInv'
<1> SUFFICES ASSUME RingInv, [Next]_vars PROVE RingInv'
  OBVIOUS
<1>1. CASE UI!Clear
  BY <1>1, EmptySeq, DashboardAssumption DEF UI!Clear, RingInv
<1>2. CASE UI!PageAgain
  BY <1>2, DashboardAssumption DEF UI!PageAgain, UI!NoPager, RingInv
<1>3. CASE UNCHANGED UI!ringVars
  BY <1>3 DEF UI!ringVars, RingInv
<1> QED BY <1>1, <1>2, <1>3, RecordKeepsRingInv, PageKeepsRingInv
        DEF Next, ManagerStep, UI!SessionNext, UI!RingNext, UI!Tick, UI!Login, UI!Validate,
            UI!Logout, UI!ringVars, uiVars, vars

\* A client that asks for page after page until one is empty has seen every decision that
\* was in the ring when it began and still is, however many are recorded meanwhile.
THEOREM PagingNeverMisses == Spec => []PagingMissesNothing
<1>1. Init => RingInv
  BY EmptySeq, DashboardAssumption DEF Init, UI!Init, UI!NoPager, RingInv
<1>2. RingInv => PagingMissesNothing
  <2> SUFFICES ASSUME RingInv, pager.done, pager.limit <= MaxLimit, NEW x \in pager.first \cap UI!Range(ring)
               PROVE  x \in pager.seen
    BY DEF PagingMissesNothing, UI!PagingMissesNothing
  <2>1. PICK i \in 1..Len(ring) : ring[i] = x
    BY DEF RingInv, UI!Range
  <2> QED BY <2>1 DEF RingInv
<1> QED BY <1>1, <1>2, NextRingInv, PTL DEF Spec
=============================================================================
