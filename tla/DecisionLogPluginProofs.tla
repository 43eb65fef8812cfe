----------------------- MODULE DecisionLogPluginProofs -----------------------
(* The buffer limit, the single flusher and the whereabouts of every decision  *)
(* of DecisionLogPlugin, for every buffer size, set of decisions and number of *)
(* reconfigurations.                                                           *)
EXTENDS DecisionLogPlugin, SequenceTheorems, FiniteSetTheorems, TLAPS

\* What _flush puts back makes a buffer within the limit again.
LEMMA RebufferedBounded ==
  ASSUME buffer \in Batch, Len(buffer) <= MaxBuffer, NEW batch \in Batch
  PROVE  Rebuffered(batch) \in Batch /\ Len(Rebuffered(batch)) <= MaxBuffer
<1> DEFINE remaining == MaxBuffer - Len(buffer)
           k == IF remaining < Len(batch) THEN remaining ELSE Len(batch)
           back == SubSeq(batch, 1, k)
<1>1. Len(buffer) \in Nat /\ Len(batch) \in Nat /\ MaxBuffer \in Nat
  BY MaxBufferAssumption DEF Batch
<1>2. k \in 0..Len(batch) /\ k <= remaining
  BY <1>1
<1>3. back \in Seq(Decisions) /\ Len(back) = k
  <2>1. CASE k = 0
    BY <2>1, EmptySeq, <1>1 DEF Batch
  <2>2. CASE k # 0
    BY <1>1, <1>2, <2>2, SubSeqProperties DEF Batch
  <2>3. QED
    BY <2>1, <2>2
<1> HIDE DEF k, back
<1>4. buffer \o back \in Seq(Decisions) /\ Len(buffer \o back) = Len(buffer) + Len(back)
  BY <1>3, ConcatProperties DEF Batch
<1>5. Rebuffered(batch) = buffer \o back
  BY DEF Rebuffered, back, k
<1>6. QED
  BY <1>1, <1>2, <1>3, <1>4, <1>5 DEF Batch

-----------------------------------------------------------------------------
\* The limit and the accounting of flushers need each other's types only; the
\* accounting is inductive because stop() ends the task it may have to wait for.
Inv == TypeOK /\ BufferBounded /\ OnePeriodicTask

\* The plug-in begins with an empty buffer and nobody flushing.
LEMMA InitInv == Init => Inv
  BY EmptySeq, MaxBufferAssumption, ConfigAssumption, ReconfigsAssumption
  DEF Init, Inv, TypeOK, BufferBounded, OnePeriodicTask, Configs, Flushers, NoPost, Batch

\* start() keeps the invariant if no flush is under way.
LEMMA StartWithInv ==
  ASSUME Inv, NEW cfg \in Configs, StartWith(cfg),
         reconfigs' \in 0..MaxReconfigs, UNCHANGED <<recorded, delivered>>,
         buffer' \in Batch, Len(buffer') <= MaxBuffer,
         post' = [f \in Flushers |-> NoPost]
  PROVE  Inv'
  BY EmptySeq
  DEF Inv, TypeOK, BufferBounded, OnePeriodicTask, StartWith, Configs, Flushers, NoPost, Batch

\* The end of a flush keeps it, whatever is in the buffer then.
LEMMA AfterFlushInv ==
  ASSUME Inv, NEW f \in Flushers, post[f].state # "idle",
         post' = [post EXCEPT ![f] = NoPost], AfterFlush(f),
         buffer' \in Batch, Len(buffer') <= MaxBuffer, UNCHANGED <<recorded, delivered>>
  PROVE  Inv'
<1>1. CASE f = "task"
  BY <1>1, EmptySeq
  DEF Inv, TypeOK, BufferBounded, OnePeriodicTask, AfterFlush, lifecycle, Flushers, NoPost, Batch
<1>2. CASE f = "stop" /\ next = "none"
  BY <1>2, EmptySeq
  DEF Inv, TypeOK, BufferBounded, OnePeriodicTask, AfterFlush, Flushers, NoPost, Batch
<1>3. CASE f = "stop" /\ next # "none"
  <2>1. StartWith(next) /\ UNCHANGED reconfigs /\ next \in Configs
    BY <1>3 DEF AfterFlush, Inv, TypeOK
  <2>2. post["task"].state = "idle"
    BY <1>3 DEF Inv, OnePeriodicTask
  <2>3. QED
    BY <1>3, <2>1, <2>2, EmptySeq
    DEF Inv, TypeOK, BufferBounded, OnePeriodicTask, StartWith, Configs, Flushers, NoPost, Batch
<1>4. QED
  BY <1>1, <1>2, <1>3 DEF Flushers

\* stop() keeps it from a plugin that is not in the middle of one.
LEMMA StopThenInv ==
  ASSUME Inv, phase \in {"running", "stopped"}, NEW nxt \in Configs \cup {"none"},
         StopThen(nxt), reconfigs' \in 0..MaxReconfigs, UNCHANGED <<recorded, delivered>>
  PROVE  Inv'
<1>1. /\ post["stop"].state = "idle"
      /\ MaxBuffer \in Nat /\ <<>> \in Batch /\ Len(<<>>) = 0
  BY EmptySeq, MaxBufferAssumption DEF Inv, OnePeriodicTask, Batch
<1>2. CASE (buffer = <<>> \/ config = "console") /\ nxt = "none"
  BY <1>1, <1>2
  DEF Inv, TypeOK, BufferBounded, OnePeriodicTask, StopThen, Flushers, NoPost
<1>3. CASE (buffer = <<>> \/ config = "console") /\ nxt # "none"
  BY <1>1, <1>3
  DEF Inv, TypeOK, BufferBounded, OnePeriodicTask, StopThen, StartWith, Configs, Flushers, NoPost
<1>4. CASE ~(buffer = <<>> \/ config = "console")
  BY <1>1, <1>4
  DEF Inv, TypeOK, BufferBounded, OnePeriodicTask, StopThen, Configs, Flushers, NoPost
<1>5. QED
  BY <1>2, <1>3, <1>4

\* The state of the buffer, the periodic task and both flushes stays consistent.
THEOREM InvCorrect == Spec => []Inv
<1>1. Inv /\ [Next]_vars => Inv'
  <2> SUFFICES ASSUME Inv, [Next]_vars
               PROVE  Inv'
    OBVIOUS
  <2>1. ASSUME NEW d \in Decisions, Record(d)
        PROVE  Inv'
    <3>1. buffer' \in Batch /\ Len(buffer') <= MaxBuffer
      BY <2>1, AppendProperties, MaxBufferAssumption
      DEF Record, Inv, TypeOK, BufferBounded, Batch
    <3>2. QED
      BY <2>1, <3>1 DEF Record, lifecycle, Inv, TypeOK, BufferBounded, OnePeriodicTask
  <2>2. CASE Start
    BY <2>2 DEF Start, StartWith, Inv, TypeOK, BufferBounded, OnePeriodicTask, Configs
  <2>3. CASE FlushPeriodically
    BY <2>3, EmptySeq, MaxBufferAssumption
    DEF FlushPeriodically, lifecycle, Inv, TypeOK, BufferBounded, OnePeriodicTask, Flushers, Batch
  <2>4. ASSUME NEW f \in Flushers, Accept(f)
        PROVE  Inv'
    <3>1. Elements(post[f].batch) \subseteq Decisions
      BY DEF Elements, Inv, TypeOK, Batch
    <3>2. QED
      BY <2>4, <3>1
      DEF Accept, lifecycle, Inv, TypeOK, BufferBounded, OnePeriodicTask, Flushers
  <2>5. ASSUME NEW f \in Flushers, Refuse(f)
        PROVE  Inv'
    BY <2>5 DEF Refuse, lifecycle, Inv, TypeOK, BufferBounded, OnePeriodicTask, Flushers
  <2>6. ASSUME NEW f \in Flushers, PostReturns(f)
        PROVE  Inv'
    BY <2>6, AfterFlushInv DEF PostReturns, Inv, TypeOK, BufferBounded
  <2>7. ASSUME NEW f \in Flushers, PostFails(f)
        PROVE  Inv'
    <3>1. post[f].batch \in Batch
      BY DEF Inv, TypeOK
    <3>2. buffer' \in Batch /\ Len(buffer') <= MaxBuffer
      BY <2>7, <3>1, RebufferedBounded DEF PostFails, Inv, TypeOK, BufferBounded
    <3>3. QED
      BY <2>7, <3>2, AfterFlushInv DEF PostFails
  <2>8. CASE Stop
    BY <2>8, StopThenInv DEF Stop, Inv, TypeOK
  <2>9. ASSUME NEW cfg \in Configs, Reconfigure(cfg)
        PROVE  Inv'
    <3>1. reconfigs' \in 0..MaxReconfigs
      BY <2>9, ReconfigsAssumption DEF Reconfigure, Inv, TypeOK
    <3>2. QED
      BY <2>9, <3>1, StopThenInv DEF Reconfigure
  <2>10. CASE CancelReconfigure
    BY <2>10, EmptySeq
    DEF CancelReconfigure, Inv, TypeOK, BufferBounded, OnePeriodicTask, Flushers, NoPost, Batch
  <2>11. CASE UNCHANGED vars
    BY <2>11 DEF vars, lifecycle, Inv, TypeOK, BufferBounded, OnePeriodicTask
  <2>12. QED
    BY <2>1, <2>2, <2>3, <2>4, <2>5, <2>6, <2>7, <2>8, <2>9, <2>10, <2>11 DEF Next, Flush
<1>2. QED
  BY <1>1, InitInv, PTL DEF Spec

\* The buffer never holds more than _max_buffer decisions.
THEOREM BufferAlwaysBounded == Spec => []BufferBounded
<1>1. Inv => BufferBounded
  BY DEF Inv
<1>2. QED
  BY <1>1, InvCorrect, PTL

\* The periodic task lives exactly while the plugin runs with an endpoint, and
\* at most one batch is on its way for it and one for stop().
THEOREM OneTaskAlways == Spec => []OnePeriodicTask
<1>1. Inv => OnePeriodicTask
  BY DEF Inv
<1>2. QED
  BY <1>1, InvCorrect, PTL

\* The attributes keep their kinds.
THEOREM TypeCorrect == Spec => []TypeOK
<1>1. Inv => TypeOK
  BY DEF Inv
<1>2. QED
  BY <1>1, InvCorrect, PTL

-----------------------------------------------------------------------------
(* Where the plugin holds a decision.  A batch that failed comes back to a      *)
(* buffer that was filled meanwhile, so no decision may be in two places there. *)

Distinct(s) == \A i, j \in DOMAIN s : s[i] = s[j] => i = j

\* What Append adds to the elements.
LEMMA ElementsAppend ==
  ASSUME NEW s \in Batch, NEW d \in Decisions
  PROVE  /\ Elements(Append(s, d)) = Elements(s) \cup {d}
         /\ Distinct(s) /\ d \notin Elements(s) => Distinct(Append(s, d))
<1>1. /\ DOMAIN s = 1..Len(s) /\ DOMAIN Append(s, d) = 1..Len(s) + 1 /\ Len(s) \in Nat
      /\ \A i \in 1..Len(s) : Append(s, d)[i] = s[i]
      /\ Append(s, d)[Len(s) + 1] = d
  BY AppendProperties, LenProperties DEF Batch
<1>2. QED
  BY <1>1 DEF Elements, Distinct

\* What concatenation adds.
LEMMA ElementsConcat ==
  ASSUME NEW s \in Batch, NEW t \in Batch
  PROVE  /\ Elements(s \o t) = Elements(s) \cup Elements(t)
         /\ Distinct(s) /\ Distinct(t) /\ Elements(s) \cap Elements(t) = {} => Distinct(s \o t)
<1> DEFINE all == s \o t
           m == Len(s)
           n == Len(t)
<1>1. /\ m \in Nat /\ n \in Nat /\ DOMAIN s = 1..m /\ DOMAIN t = 1..n
  BY LenProperties DEF Batch
<1>2. /\ all \in Seq(Decisions) /\ Len(all) = m + n
      /\ \A i \in 1..m + n : all[i] = IF i <= m THEN s[i] ELSE t[i - m]
  BY ConcatProperties DEF Batch
<1> HIDE DEF all, m, n
<1>3. DOMAIN all = 1..m + n
  BY <1>2, LenProperties
<1>4. /\ \A i \in 1..m : i \in DOMAIN all /\ all[i] = s[i]
      /\ \A i \in 1..n : i + m \in DOMAIN all /\ all[i + m] = t[i]
  BY <1>1, <1>2, <1>3
<1>5. \A i \in DOMAIN all : \/ i \in 1..m /\ all[i] = s[i]
                            \/ i - m \in 1..n /\ all[i] = t[i - m]
  BY <1>1, <1>2, <1>3
<1>6. Elements(all) = Elements(s) \cup Elements(t)
  BY <1>1, <1>4, <1>5 DEF Elements
<1>7. ASSUME Distinct(s), Distinct(t), Elements(s) \cap Elements(t) = {},
             NEW i \in DOMAIN all, NEW j \in DOMAIN all, all[i] = all[j]
      PROVE  i = j
  <2>1. CASE i \in 1..m /\ j \in 1..m
    BY <2>1, <1>1, <1>4, <1>7 DEF Distinct
  <2>2. CASE i - m \in 1..n /\ j - m \in 1..n
    <3>1. i - m = j - m
      BY <2>2, <1>1, <1>2, <1>3, <1>7 DEF Distinct
    <3>2. QED
      BY <3>1, <1>1, <1>3
  <2>3. CASE i \in 1..m /\ j - m \in 1..n
    <3>1. s[i] \in Elements(s) /\ t[j - m] \in Elements(t)
      BY <2>3, <1>1 DEF Elements
    <3>2. all[i] = s[i] /\ all[j] = t[j - m]
      BY <2>3, <1>1, <1>2, <1>3, <1>7
    <3>3. QED
      BY <3>1, <3>2, <1>7
  <2>4. CASE i - m \in 1..n /\ j \in 1..m
    <3>1. t[i - m] \in Elements(t) /\ s[j] \in Elements(s)
      BY <2>4, <1>1 DEF Elements
    <3>2. all[i] = t[i - m] /\ all[j] = s[j]
      BY <2>4, <1>1, <1>2, <1>3, <1>7
    <3>3. QED
      BY <3>1, <3>2, <1>7
  <2>5. QED
    BY <2>1, <2>2, <2>3, <2>4, <1>5
<1>8. QED
  BY <1>6, <1>7 DEF all, Distinct

\* What a prefix keeps.
LEMMA ElementsPrefix ==
  ASSUME NEW s \in Batch, NEW k \in 0..Len(s)
  PROVE  /\ SubSeq(s, 1, k) \in Batch /\ Len(SubSeq(s, 1, k)) = k
         /\ Elements(SubSeq(s, 1, k)) \subseteq Elements(s)
         /\ Distinct(s) => Distinct(SubSeq(s, 1, k))
         /\ k = Len(s) => SubSeq(s, 1, k) = s
<1> DEFINE p == SubSeq(s, 1, k)
<1>1. Len(s) \in Nat /\ DOMAIN s = 1..Len(s) /\ \A i \in 1..k : s[i] \in Decisions
  BY LenProperties, ElementOfSeq DEF Batch
<1>2. p \in Seq(Decisions) /\ Len(p) = k /\ \A i \in 1..k : p[i] = s[i]
  BY <1>1, SubSeqProperties
<1>3. k = Len(s) => p = s
  BY SubSeqFull DEF Batch
<1> HIDE DEF p
<1>4. DOMAIN p = 1..k
  BY <1>2, LenProperties
<1>5. Elements(p) \subseteq Elements(s) /\ (Distinct(s) => Distinct(p))
  BY <1>1, <1>2, <1>4 DEF Elements, Distinct
<1>6. QED
  BY <1>2, <1>3, <1>5 DEF p, Batch

\* A batch goes back behind the buffer: whole, or as much of it as fills the buffer.
LEMMA RebufferedElements ==
  ASSUME buffer \in Batch, Len(buffer) <= MaxBuffer, NEW batch \in Batch
  PROVE  /\ Elements(buffer) \subseteq Elements(Rebuffered(batch))
         /\ Elements(Rebuffered(batch)) \subseteq Elements(buffer) \cup Elements(batch)
         /\ Elements(batch) \subseteq Elements(Rebuffered(batch)) \/ Len(Rebuffered(batch)) = MaxBuffer
         /\ Distinct(buffer) /\ Distinct(batch) /\ Elements(buffer) \cap Elements(batch) = {}
              => Distinct(Rebuffered(batch))
<1> DEFINE remaining == MaxBuffer - Len(buffer)
           k == IF remaining < Len(batch) THEN remaining ELSE Len(batch)
           back == SubSeq(batch, 1, k)
<1>1. Len(buffer) \in Nat /\ Len(batch) \in Nat /\ MaxBuffer \in Nat
  BY MaxBufferAssumption, LenProperties DEF Batch
<1>2. k \in 0..Len(batch) /\ (k = Len(batch) \/ Len(buffer) + k = MaxBuffer)
  BY <1>1
<1> HIDE DEF k
<1>3. /\ back \in Batch /\ Len(back) = k /\ Elements(back) \subseteq Elements(batch)
      /\ Distinct(batch) => Distinct(back)
      /\ k = Len(batch) => back = batch
  BY <1>2, ElementsPrefix
<1> HIDE DEF back
<1>4. /\ Elements(buffer \o back) = Elements(buffer) \cup Elements(back)
      /\ Distinct(buffer) /\ Distinct(back) /\ Elements(buffer) \cap Elements(back) = {}
           => Distinct(buffer \o back)
  BY <1>3, ElementsConcat
<1>5. Len(buffer \o back) = Len(buffer) + k
  BY <1>3, ConcatProperties DEF Batch
<1>6. Rebuffered(batch) = buffer \o back
  BY DEF Rebuffered, k, back
<1>7. QED
  BY <1>2, <1>3, <1>4, <1>5, <1>6

\* A sequence without repetition has as many elements as places.
LEMMA CountedOnce ==
  ASSUME NEW s \in Batch, Distinct(s)
  PROVE  IsFiniteSet(Elements(s)) /\ Cardinality(Elements(s)) = Len(s)
<1>1. Len(s) \in Nat /\ DOMAIN s = 1..Len(s) /\ s \in [1..Len(s) -> Elements(s)]
  BY LenProperties DEF Batch, Elements
<1>2. s \in Bijection(1..Len(s), Elements(s))
  BY <1>1 DEF Bijection, Injection, Surjection, IsInjective, Distinct, Elements
<1>3. ExistsBijection(1..Len(s), Elements(s))
  BY <1>2 DEF ExistsBijection
<1>4. IsFiniteSet(1..Len(s)) /\ Cardinality(1..Len(s)) = Len(s)
  BY <1>1, FS_Interval
<1>5. QED
  BY <1>3, <1>4, FS_Bijection

\* Nothing is on its way twice, nothing is held that was not recorded, and what
\* the endpoint has accepted is delivered.
Apart ==
  /\ Distinct(buffer) /\ \A f \in Flushers : Distinct(post[f].batch)
  /\ Elements(buffer) \cap InFlight = {}
  /\ Held \subseteq recorded
  /\ \A f \in Flushers : post[f].state = "idle" => post[f].batch = <<>>
  /\ \A f \in Flushers : post[f].state = "accepted" => Elements(post[f].batch) \subseteq delivered

IInv == Inv /\ Apart

\* An empty sequence holds nothing, once.
LEMMA NothingIn == <<>> \in Batch /\ Elements(<<>>) = {} /\ Distinct(<<>>) /\ Len(<<>>) = 0
  BY EmptySeq DEF Batch, Elements, Distinct

\* At most one flush is under way: stop() ends the task's before it begins its own.
LEMMA OneFlush ==
  ASSUME IInv
  PROVE  /\ post["task"].state = "idle" \/ post["stop"].state = "idle"
         /\ post["task"].batch = <<>> \/ post["stop"].batch = <<>>
  BY DEF IInv, Inv, OnePeriodicTask, Apart, Flushers

\* A flush that ends, with what it puts back, leaves every decision in one place.
LEMMA FlushEndsApart ==
  ASSUME IInv, NEW f \in Flushers, post' = [post EXCEPT ![f] = NoPost],
         Distinct(buffer'), Elements(buffer') \subseteq Elements(buffer) \cup Elements(post[f].batch),
         UNCHANGED <<recorded, delivered>>
  PROVE  Apart'
<1>1. post'[f] = NoPost /\ \A g \in Flushers \ {f} : post'[g] = post[g]
  BY DEF IInv, Inv, TypeOK
<1>2. \A g \in Flushers : Distinct(post'[g].batch)
  BY <1>1, NothingIn DEF NoPost, IInv, Apart
<1>3. InFlight' = UNION {Elements(post[g].batch) : g \in Flushers \ {f}}
  BY <1>1, NothingIn DEF InFlight, Flushers, NoPost
<1>4. \A g \in Flushers \ {f} : Elements(post[f].batch) \cap Elements(post[g].batch) = {}
  BY OneFlush, NothingIn DEF Flushers
<1>5. Elements(buffer') \cap InFlight' = {}
  BY <1>3, <1>4 DEF IInv, Apart, InFlight, Flushers
<1>6. Held' \subseteq recorded'
  BY <1>3 DEF IInv, Apart, Held, InFlight, Flushers
<1>7. (\A g \in Flushers : post[g].state = "idle" => post[g].batch = <<>>)'
  BY <1>1 DEF NoPost, IInv, Apart
<1>8. (\A g \in Flushers : post[g].state = "accepted" => Elements(post[g].batch) \subseteq delivered)'
  BY <1>1 DEF NoPost, IInv, Apart
<1>9. Distinct(buffer)' /\ (\A g \in Flushers : Distinct(post[g].batch))'
  BY <1>2
<1>10. QED
  BY <1>5, <1>6, <1>7, <1>8, <1>9 DEF Apart

\* stop() empties the buffer: into the batch it sends, or for nothing.
LEMMA StopApart ==
  ASSUME IInv, NEW nxt, StopThen(nxt), UNCHANGED <<recorded, delivered>>,
         phase \in {"running", "stopped"}
  PROVE  Apart'
<1>1. post["stop"] = [state |-> "idle", batch |-> <<>>]
  BY DEF IInv, Inv, TypeOK, OnePeriodicTask, Apart, Flushers
<1>2. CASE buffer = <<>> \/ config = "console"
  <2>1. buffer' = <<>> /\ \A f \in Flushers : post'[f] = NoPost
    BY <1>1, <1>2 DEF StopThen, NoPost, Flushers, IInv, Inv, TypeOK
  <2>2. QED
    BY <2>1, NothingIn DEF Apart, InFlight, Held, NoPost, Flushers
<1>3. CASE ~(buffer = <<>> \/ config = "console")
  <2>1. /\ buffer' = <<>> /\ post'["task"] = NoPost
        /\ post'["stop"] = [state |-> "sent", batch |-> buffer]
    BY <1>3 DEF StopThen, Flushers
  <2>2. QED
    BY <2>1, NothingIn DEF IInv, Apart, InFlight, Held, NoPost, Flushers
<1>4. QED
  BY <1>2, <1>3

\* Every decision that is held is in one place, in every state.
THEOREM ApartCorrect == Spec => []IInv
<1>1. Init => Apart
  BY NothingIn DEF Init, Apart, InFlight, Held, NoPost, Flushers
<1>2. IInv /\ [Next]_vars => Apart'
  <2> SUFFICES ASSUME IInv, [Next]_vars
               PROVE  Apart'
    OBVIOUS
  <2>0. /\ buffer \in Batch /\ Len(buffer) <= MaxBuffer /\ Distinct(buffer)
        /\ \A f \in Flushers : post[f].batch \in Batch /\ Distinct(post[f].batch)
        /\ \A f \in Flushers : Elements(buffer) \cap Elements(post[f].batch) = {}
    BY DEF IInv, Inv, TypeOK, BufferBounded, Apart, InFlight, Flushers
  <2>1. ASSUME NEW d \in Decisions, Record(d)
        PROVE  Apart'
    <3>1. d \notin Held /\ UNCHANGED post /\ InFlight' = InFlight
      BY <2>1 DEF IInv, Apart, Record, InFlight
    <3>2. Elements(buffer') \subseteq Elements(buffer) \cup {d} /\ Distinct(buffer')
      BY <2>0, <2>1, <3>1, ElementsAppend DEF Record, Held
    <3>3. QED
      BY <2>1, <3>1, <3>2 DEF IInv, Apart, Record, Held
  <2>2. CASE Start
    BY <2>2 DEF Start, IInv, Apart, Held, InFlight
  <2>3. CASE FlushPeriodically
    <3>1. post["task"].batch = <<>> /\ post["stop"].batch = <<>>
      BY <2>3 DEF FlushPeriodically, IInv, Inv, OnePeriodicTask, Apart, Flushers
    <3>2. /\ post'["task"] = [state |-> "sent", batch |-> buffer] /\ post'["stop"] = post["stop"]
          /\ buffer' = <<>>
      BY <2>3 DEF FlushPeriodically, IInv, Inv, TypeOK, Flushers
    <3>3. QED
      BY <2>3, <3>1, <3>2, NothingIn DEF FlushPeriodically, IInv, Apart, Held, InFlight, Flushers
  <2>4. ASSUME NEW f \in Flushers, Accept(f) \/ Refuse(f)
        PROVE  Apart'
    <3>1. /\ \A g \in Flushers : post'[g].batch = post[g].batch
          /\ \A g \in Flushers \ {f} : post'[g] = post[g]
          /\ post'[f].state \in {"accepted", "refused"}
          /\ post'[f].state = "accepted" => Elements(post[f].batch) \subseteq delivered'
          /\ delivered \subseteq delivered' /\ UNCHANGED <<buffer, recorded>>
      BY <2>4 DEF Accept, Refuse, IInv, Inv, TypeOK
    <3>2. InFlight' = InFlight
      BY <3>1 DEF InFlight, Flushers
    <3>3. QED
      BY <3>1, <3>2 DEF IInv, Apart, Held
  <2>5. ASSUME NEW f \in Flushers, PostReturns(f)
        PROVE  Apart'
    BY <2>0, <2>5, FlushEndsApart DEF PostReturns
  <2>6. ASSUME NEW f \in Flushers, PostFails(f)
        PROVE  Apart'
    <3>1. /\ Elements(buffer') \subseteq Elements(buffer) \cup Elements(post[f].batch)
          /\ Distinct(buffer')
      BY <2>0, <2>6, RebufferedElements DEF PostFails
    <3>2. QED
      BY <2>6, <3>1, FlushEndsApart DEF PostFails
  <2>7. CASE Stop \/ \E cfg \in Configs : Reconfigure(cfg)
    BY <2>7, StopApart DEF Stop, Reconfigure
  <2>8. CASE CancelReconfigure
    BY <2>0, <2>8, FlushEndsApart DEF CancelReconfigure, Flushers
  <2>9. CASE UNCHANGED vars
    BY <2>9 DEF vars, IInv, Apart, Held, InFlight
  <2>10. QED
    BY <2>1, <2>2, <2>3, <2>4, <2>5, <2>6, <2>7, <2>8, <2>9 DEF Next, Flush
<1>3. QED
  BY <1>1, <1>2, InvCorrect, PTL DEF Spec, IInv

\* The plugin holds a decision once: a batch that comes back never doubles one
\* that is in the buffer or on its way.  (What the endpoint has may be among
\* them: a POST that timed out after it was accepted puts its batch back.)
THEOREM AlwaysHeldOnce == Spec => []HeldOnce
<1>1. ASSUME IInv
      PROVE  HeldOnce
  <2>1. /\ buffer \in Batch /\ Distinct(buffer)
        /\ \A f \in Flushers : post[f].batch \in Batch /\ Distinct(post[f].batch)
    BY <1>1 DEF IInv, Inv, TypeOK, Apart, Flushers
  <2>2. PICK f \in Flushers : \A g \in Flushers \ {f} : post[g].batch = <<>>
    BY <1>1, OneFlush DEF Flushers
  <2> DEFINE n(g) == Len(post[g].batch)
  <2>3. n("task") + n("stop") = n(f) /\ n(f) \in Nat /\ Len(buffer) \in Nat
    <3>1. \A g \in Flushers : n(g) \in Nat /\ (g # f => n(g) = 0)
      BY <2>1, <2>2, LenProperties, NothingIn DEF Batch
    <3>2. Len(buffer) \in Nat
      BY <2>1, LenProperties DEF Batch
    <3> HIDE DEF n
    <3>3. QED
      BY <3>1, <3>2 DEF Flushers
  <2>4. /\ Held = Elements(buffer) \cup Elements(post[f].batch)
        /\ Elements(buffer) \cap Elements(post[f].batch) = {}
    BY <1>1, <2>2, NothingIn DEF Held, IInv, Apart, InFlight, Flushers
  <2>5. /\ IsFiniteSet(Elements(buffer)) /\ Cardinality(Elements(buffer)) = Len(buffer)
        /\ IsFiniteSet(Elements(post[f].batch))
        /\ Cardinality(Elements(post[f].batch)) = Len(post[f].batch)
    BY <2>1, CountedOnce
  <2>6. Cardinality(Held) = Len(buffer) + n(f)
    <3>1. Cardinality(Elements(buffer) \cap Elements(post[f].batch)) = 0
      BY <2>4, FS_EmptySet
    <3>2. Cardinality(Held) = Len(buffer) + n(f) - 0
      BY <2>4, <2>5, <3>1, FS_Union
    <3> HIDE DEF n
    <3>3. QED
      BY <2>3, <3>2
  <2>7. Len(buffer) + n("task") + n("stop") = Len(buffer) + n(f)
    <3>1. n("task") \in Nat /\ n("stop") \in Nat
      BY <2>1, LenProperties DEF Batch, Flushers
    <3> HIDE DEF n
    <3>2. QED
      BY <2>3, <3>1
  <2>8. QED
    BY <2>3, <2>6, <2>7 DEF HeldOnce
<1>2. QED
  BY <1>1, ApartCorrect, PTL
-----------------------------------------------------------------------------
(* How a decision is let go *)

\* The reasons of LostOnlyWhen, for one decision and one step.
Explained(d) ==
  \/ d \in delivered'
  \/ WasRefused(d)
  \/ Len(buffer') = MaxBuffer
  \/ phase = "running" /\ d \in Elements(post["task"].batch)
       /\ (phase' # "running" \/ reconfigs' # reconfigs)
  \/ phase = "stopping" /\ next # "none" /\ d \in Elements(post["stop"].batch)
       /\ phase' = "stopped"
  \/ config = "console" /\ d \in Elements(buffer)

\* When a flush ends, only decisions of its batch can be let go.
LEMMA FlushEndLoses ==
  ASSUME IInv, NEW f \in Flushers, post' = [post EXCEPT ![f] = NoPost],
         Elements(buffer) \subseteq Elements(buffer'),
         NEW d \in Held \ Held'
  PROVE  d \in Elements(post[f].batch) /\ d \notin Elements(buffer')
<1>1. \A g \in Flushers \ {f} : post'[g] = post[g]
  BY DEF IInv, Inv, TypeOK
<1>2. QED
  BY <1>1 DEF Held, InFlight, Flushers

\* stop() lets go what a cancelled task had sent, and a buffer that has no endpoint.
LEMMA StopLoses ==
  ASSUME IInv, NEW nxt \in Configs \cup {"none"}, StopThen(nxt), phase \in {"running", "stopped"},
         nxt # "none" => reconfigs' # reconfigs,
         NEW d \in Held \ Held'
  PROVE  Explained(d)
<1>1. /\ post["stop"].batch = <<>>
      /\ post["task"].batch # <<>> => phase = "running"
  BY DEF IInv, Inv, OnePeriodicTask, Apart, Flushers
<1>2. CASE d \in Elements(post["task"].batch)
  <2>1. phase = "running"
    BY <1>1, <1>2, NothingIn
  <2>2. nxt = "none" => phase' # "running"
    BY DEF StopThen
  <2>3. QED
    BY <1>2, <2>1, <2>2 DEF Explained
<1>3. CASE d \notin Elements(post["task"].batch)
  <2>1. d \in Elements(buffer) /\ buffer # <<>>
    BY <1>1, <1>3, NothingIn DEF Held, InFlight
  <2>2. CASE config = "console"
    BY <2>1, <2>2 DEF Explained
  <2>3. CASE config # "console"
    <3>1. post'["stop"].batch = buffer
      BY <2>1, <2>3 DEF StopThen, Flushers
    <3>2. QED
      BY <2>1, <3>1 DEF Held, InFlight
  <2>4. QED
    BY <2>2, <2>3
<1>4. QED
  BY <1>2, <1>3

\* No step lets a decision go that is held, unless the endpoint has it, the endpoint
\* answered its batch with an error status (which counts as sent: the status is not
\* looked at), the buffer is full, the POST that carries it is cancelled, or a stop has no
\* endpoint to flush to.
THEOREM LostOnlyWhenAllowed == Spec => LostOnlyWhen
<1>1. ASSUME IInv, [Next]_vars, NEW d \in Held \ Held'
      PROVE  Explained(d)
  <2>0. /\ buffer \in Batch /\ Len(buffer) <= MaxBuffer
        /\ \A f \in Flushers : post[f].batch \in Batch
    BY <1>1 DEF IInv, Inv, TypeOK, BufferBounded
  <2>1. ASSUME NEW e \in Decisions, Record(e)
        PROVE  FALSE
    <3>1. Elements(buffer) \subseteq Elements(buffer')
      BY <2>0, <2>1, ElementsAppend DEF Record
    <3>2. QED
      BY <1>1, <2>1, <3>1 DEF Record, Held, InFlight
  <2>2. CASE Start \/ UNCHANGED vars
    BY <1>1, <2>2 DEF Start, vars, Held, InFlight
  <2>3. CASE FlushPeriodically
    <3>1. /\ post'["task"].batch = buffer /\ post'["stop"] = post["stop"]
          /\ post["task"].batch = <<>>
      BY <1>1, <2>3
      DEF FlushPeriodically, IInv, Inv, TypeOK, OnePeriodicTask, Apart, Flushers
    <3>2. QED
      BY <1>1, <3>1, NothingIn DEF Held, InFlight
  <2>4. ASSUME NEW f \in Flushers, Accept(f) \/ Refuse(f)
        PROVE  FALSE
    <3>1. \A g \in Flushers : post'[g].batch = post[g].batch
      BY <1>1, <2>4 DEF Accept, Refuse, IInv, Inv, TypeOK
    <3>2. UNCHANGED buffer
      BY <2>4 DEF Accept, Refuse
    <3>3. QED
      BY <1>1, <3>1, <3>2 DEF Held, InFlight, Flushers
  <2>5. ASSUME NEW f \in Flushers, PostReturns(f)
        PROVE  Explained(d)
    <3>1. d \in Elements(post[f].batch)
      BY <1>1, <2>5, FlushEndLoses DEF PostReturns
    <3>2. CASE post[f].state = "accepted"
      BY <1>1, <2>5, <3>1, <3>2 DEF PostReturns, IInv, Apart, Explained
    <3>3. CASE post[f].state = "refused"
      BY <3>1, <3>3 DEF WasRefused, Explained
    <3>4. QED
      BY <2>5, <3>2, <3>3 DEF PostReturns
  <2>6. ASSUME NEW f \in Flushers, PostFails(f)
        PROVE  Explained(d)
    <3>1. /\ Elements(buffer) \subseteq Elements(buffer')
          /\ Elements(post[f].batch) \subseteq Elements(buffer') \/ Len(buffer') = MaxBuffer
      BY <2>0, <2>6, RebufferedElements DEF PostFails
    <3>2. d \in Elements(post[f].batch) /\ d \notin Elements(buffer')
      BY <1>1, <2>6, <3>1, FlushEndLoses DEF PostFails
    <3>3. QED
      BY <3>1, <3>2 DEF Explained
  <2>7. CASE Stop
    BY <1>1, <2>7, StopLoses DEF Stop
  <2>8. ASSUME NEW cfg \in Configs, Reconfigure(cfg)
        PROVE  Explained(d)
    <3>1. reconfigs' # reconfigs
      BY <1>1, <2>8, ReconfigsAssumption DEF Reconfigure, IInv, Inv, TypeOK
    <3>2. QED
      BY <1>1, <2>8, <3>1, StopLoses DEF Reconfigure
  <2>9. CASE CancelReconfigure
    <3>1. d \in Elements(post["stop"].batch)
      BY <1>1, <2>9, FlushEndLoses DEF CancelReconfigure, Flushers
    <3>2. QED
      BY <2>9, <3>1 DEF CancelReconfigure, Explained
  <2>10. QED
    BY <1>1, <2>1, <2>2, <2>3, <2>4, <2>5, <2>6, <2>7, <2>8, <2>9 DEF Next, Flush
<1>2. IInv /\ [Next]_vars => [\A d \in Held \ Held' : Explained(d)]_vars
  BY <1>1
<1>3. QED
  BY <1>2, ApartCorrect, PTL DEF Spec, LostOnlyWhen, Explained
=============================================================================
