-------------------------- MODULE BundlePluginProofs --------------------------
(* Types, one poll task per bundle, what the tasks may apply and what their    *)
(* tags stand for, for every configuration, number of starts and set of        *)
(* published bundles.                                                          *)
EXTENDS BundlePlugin, TLAPS

\* Applying a bundle leaves a document and a policy set.
LEMMA ApplyType ==
  ASSUME TypeOK, NEW b \in AllOffered, Apply(b)
  PROVE  data' \in Documents /\ modules' \in PolicySets
<1>1. b \in Bundle
  BY OfferedAssumption
<1>2. Parsed(b) \in PolicySets
  BY <1>1 DEF Parsed, Bundle, PolicySets
<1>3. Merged(modules, b) \in PolicySets
  BY <1>2 DEF Merged, TypeOK, PolicySets
<1>4. QED
  BY <1>1, <1>3 DEF Apply, Bundle, TypeOK

-----------------------------------------------------------------------------
(* Type correctness.  A task that has been answered holds an answer; without    *)
(* that a resumed task would deliver nothing.                                   *)

Answered(t) == t.pc = "answered" => t.answer \in {NotModified} \cup AllOffered

TypeInv == TypeOK /\ \A t \in tasks : Answered(t)

\* A well-formed iteration of a task keeps the tasks well formed.
LEMMA ReplaceType ==
  ASSUME TypeInv, NEW t \in tasks, NEW u \in Task, Answered(u), Replace(t, u)
  PROVE  tasks' \in SUBSET Task /\ \A v \in tasks' : Answered(v)
  BY DEF TypeInv, TypeOK, Replace

\* A task that ends leaves well-formed tasks.
LEMMA EndTaskType ==
  ASSUME TypeInv, NEW t \in tasks, EndTask(t)
  PROVE  tasks' \in SUBSET Task /\ \A v \in tasks' : Answered(v)
  BY DEF TypeInv, TypeOK, EndTask

\* One iteration's end: the bundle is applied and its tag kept, or the task ends.
LEMMA DeliverType ==
  ASSUME TypeInv, NEW t \in tasks, NEW b \in AllOffered, Deliver(t, b, b)
  PROVE  /\ tasks' \in SUBSET Task /\ \A v \in tasks' : Answered(v)
         /\ data' \in Documents /\ modules' \in PolicySets
<1>1. CASE b.fault = "none"
  <2> DEFINE u == [t EXCEPT !.pc = "sleeping", !.answer = NoAnswer, !.tag = b]
  <2>1. u \in Task /\ Answered(u)
    BY DEF TypeInv, TypeOK, Task, Answers, Answered
  <2>2. Replace(t, u) /\ Apply(b)
    BY <1>1 DEF Deliver
  <2>3. data' \in Documents /\ modules' \in PolicySets
    BY <2>2, ApplyType DEF TypeInv
  <2>4. QED
    BY <2>1, <2>2, <2>3, ReplaceType
<1>2. CASE b.fault # "none"
  <2>1. EndTask(t) /\ UNCHANGED <<data, modules>>
    BY <1>2 DEF Deliver
  <2>2. QED
    BY <2>1, EndTaskType DEF TypeInv, TypeOK
<1>3. QED
  BY <1>1, <1>2

\* "Not modified" puts a well-formed task to sleep.
LEMMA NothingNewType ==
  ASSUME TypeInv, NEW t \in tasks, NothingNew(t)
  PROVE  /\ tasks' \in SUBSET Task /\ \A v \in tasks' : Answered(v)
         /\ data' \in Documents /\ modules' \in PolicySets
<1> DEFINE u == [t EXCEPT !.pc = "sleeping", !.answer = NoAnswer]
<1>1. u \in Task /\ Answered(u)
  BY DEF TypeInv, TypeOK, Task, Answers, Answered
<1>2. Replace(t, u) /\ UNCHANGED <<data, modules>>
  BY DEF NothingNew
<1>3. QED
  BY <1>1, <1>2, ReplaceType DEF TypeInv, TypeOK

\* start() makes well-formed tasks.
LEMMA StartTasksType ==
  ASSUME TypeInv, starts < MaxStarts, NEW live \in SUBSET Task, \A v \in live : Answered(v),
         NEW names \in SUBSET Names
  PROVE  /\ StartTasks(live, names) \in SUBSET Task
         /\ \A v \in StartTasks(live, names) : Answered(v)
         /\ starts + 1 \in 0..MaxStarts
<1>1. starts + 1 \in 1..MaxStarts
  BY BoundsAssumption DEF TypeInv, TypeOK
<1>2. ASSUME NEW n \in Names
      PROVE  NewTask(n, starts + 1) \in Task /\ Answered(NewTask(n, starts + 1))
  BY <1>1 DEF NewTask, Task, Answers, Answered
<1>3. QED
  BY <1>1, <1>2 DEF StartTasks

\* The types, and answers for the answered, are kept by every step.
THEOREM TypesCorrect == Spec => []TypeInv
<1>1. Init => TypeInv
  <2> SUFFICES ASSUME Init
               PROVE  TypeInv
    OBVIOUS
  <2>1. 0 \in 0..MaxStarts /\ 0 \in 0..MaxPublished
    BY BoundsAssumption
  <2>2. data \in Documents /\ modules \in PolicySets /\ tasks = {}
    BY DEF Init, Documents, PolicySets
  <2>3. QED
    BY <2>1, <2>2, ConfigAssumption DEF Init, TypeInv, TypeOK
<1>2. TypeInv /\ [Next]_vars => TypeInv'
  <2> SUFFICES ASSUME TypeInv, [Next]_vars
               PROVE  TypeInv'
    OBVIOUS
  <2> DEFINE TasksOK == tasks' \in SUBSET Task /\ \A v \in tasks' : Answered(v)
  <2>1. CASE Start
    BY <2>1, StartTasksType DEF Start, TypeInv, TypeOK, Answered
  <2>2. CASE Stop
    BY <2>2 DEF Stop, CancelTasks, TypeInv, TypeOK
  <2>3. ASSUME NEW cfg \in Configs, Reconfigure(cfg)
        PROVE  TypeInv'
    <3>1. cfg \in SUBSET Names
      BY ConfigAssumption
    <3>2. CASE starts = 0
      BY <2>3, <3>1, <3>2 DEF Reconfigure, TypeInv, TypeOK, Answered
    <3>3. CASE starts # 0
      <4>1. tasks' = StartTasks({}, cfg) /\ starts < MaxStarts
        BY <2>3, <3>3 DEF Reconfigure, CancelTasks
      <4>2. TasksOK /\ starts + 1 \in 0..MaxStarts
        BY <4>1, <3>1, StartTasksType
      <4>3. QED
        BY <2>3, <3>1, <3>3, <4>2 DEF Reconfigure, TypeInv, TypeOK, Answered
    <3>4. QED
      BY <3>2, <3>3
  <2>4. ASSUME NEW t \in tasks, Fetch(t)
        PROVE  TypeInv'
    <3> DEFINE u == [t EXCEPT !.pc = "fetching"]
    <3>1. u \in Task /\ Answered(u) /\ Replace(t, u)
      BY <2>4 DEF Fetch, TypeInv, TypeOK, Task, Answered
    <3>2. TasksOK
      BY <3>1, ReplaceType
    <3>3. QED
      BY <2>4, <3>2 DEF Fetch, TypeInv, TypeOK, Answered
  <2>5. ASSUME NEW t \in tasks, Answer(t)
        PROVE  TypeInv'
    <3> DEFINE a == IF t.tag = remote[t.name] THEN NotModified ELSE remote[t.name]
               u == [t EXCEPT !.pc = "answered", !.answer = a]
    <3>1. a \in {NotModified} \cup AllOffered
      BY DEF TypeInv, TypeOK, Task
    <3>2. u \in Task /\ Answered(u)
      BY <3>1 DEF TypeInv, TypeOK, Task, Answers, Answered
    <3>3. TasksOK
      BY <2>5, <3>2, ReplaceType DEF Answer
    <3>4. QED
      BY <2>5, <3>3 DEF Answer, TypeInv, TypeOK, Answered
  <2>6. ASSUME NEW t \in tasks, FetchFails(t)
        PROVE  TypeInv'
    <3>1. TasksOK
      BY <2>6, EndTaskType DEF FetchFails
    <3>2. QED
      BY <2>6, <3>1 DEF FetchFails, TypeInv, TypeOK, Answered
  <2>7. ASSUME NEW t \in tasks, Resume(t)
        PROVE  TypeInv'
    <3>1. t.answer \in {NotModified} \cup AllOffered
      BY <2>7 DEF Resume, TypeInv, Answered
    <3>2. TasksOK /\ data' \in Documents /\ modules' \in PolicySets
      BY <2>7, <3>1, NothingNewType, DeliverType DEF Resume
    <3>3. QED
      BY <2>7, <3>2 DEF Resume, TypeInv, TypeOK, Answered
  <2>8. ASSUME NEW t \in tasks, LoadDir(t)
        PROVE  TypeInv'
    <3>1. remote[t.name] \in AllOffered
      BY DEF TypeInv, TypeOK, Task
    <3>2. TasksOK /\ data' \in Documents /\ modules' \in PolicySets
      BY <2>8, <3>1, NothingNewType, DeliverType DEF LoadDir
    <3>3. QED
      BY <2>8, <3>2 DEF LoadDir, TypeInv, TypeOK, Answered
  <2>9. ASSUME NEW t \in tasks, Wake(t)
        PROVE  TypeInv'
    <3> DEFINE u == [t EXCEPT !.pc = "ready"]
    <3>1. u \in Task /\ Answered(u) /\ Replace(t, u)
      BY <2>9 DEF Wake, TypeInv, TypeOK, Task, Answered
    <3>2. TasksOK
      BY <3>1, ReplaceType
    <3>3. QED
      BY <2>9, <3>2 DEF Wake, TypeInv, TypeOK, Answered
  <2>10. ASSUME NEW n \in Names, NEW b \in Offered(n), Publish(n, b)
         PROVE  TypeInv'
    <3>1. b \in AllOffered
      BY DEF AllOffered
    <3>2. remote' \in [Names -> AllOffered] /\ published' \in 0..MaxPublished
      BY <2>10, <3>1, BoundsAssumption DEF Publish, TypeInv, TypeOK
    <3>3. QED
      BY <2>10, <3>2 DEF Publish, pluginVars, TypeInv, TypeOK, Answered
  <2>11. CASE UNCHANGED vars
    BY <2>11 DEF vars, pluginVars, TypeInv, TypeOK, Answered
  <2>12. QED
    BY <2>1, <2>2, <2>3, <2>4, <2>5, <2>6, <2>7, <2>8, <2>9, <2>10, <2>11
    DEF Next, Lifecycle, Polling, Publishing
<1>3. QED
  BY <1>1, <1>2, PTL DEF Spec

\* The plugin's state stays well formed; in particular its status never is ERROR.
THEOREM TypeCorrect == Spec => []TypeOK
<1>1. TypeInv => TypeOK
  BY DEF TypeInv
<1>2. QED
  BY <1>1, TypesCorrect, PTL

-----------------------------------------------------------------------------
(* One task per bundle *)

\* start() after every earlier task is gone makes one task per name ...
LEMMA StartedTasks ==
  ASSUME NEW names
  PROVE  /\ \A t, u \in StartTasks({}, names) : t.name = u.name => t = u
         /\ {t.name : t \in StartTasks({}, names)} \subseteq names
  BY DEF StartTasks, NewTask

\* ... an iteration replaces a task by one of the same name ...
LEMMA ReplaceKeepsNames ==
  ASSUME OneTaskPerBundle, NEW t \in tasks, NEW u, u.name = t.name, Replace(t, u),
         UNCHANGED <<config, running>>
  PROVE  OneTaskPerBundle'
  BY DEF OneTaskPerBundle, Replace

\* ... or ends it.
LEMMA EndTaskKeepsNames ==
  ASSUME OneTaskPerBundle, NEW t \in tasks, EndTask(t), UNCHANGED <<config, running>>
  PROVE  OneTaskPerBundle'
  BY DEF OneTaskPerBundle, EndTask

\* A plugin that was never started has no manager: reconfiguring it keeps it off,
\* whatever names the new configuration has.
TaskInv == OneTaskPerBundle /\ (starts = 0 => ~running)

\* Every step keeps both.
LEMMA AlwaysTaskInv == Spec => []TaskInv
<1>1. Init => TaskInv
  BY DEF Init, TaskInv, OneTaskPerBundle
<1>2. TypeOK /\ TaskInv /\ [Next]_vars => (starts' = 0 => ~running')
  <2> SUFFICES ASSUME TypeOK, starts = 0 => ~running, [Next]_vars
               PROVE  starts' = 0 => ~running'
    BY DEF TaskInv
  <2>1. CASE Lifecycle
    BY <2>1 DEF Lifecycle, Start, Stop, Reconfigure, TypeOK
  <2>2. CASE Polling
    BY <2>2 DEF Polling, Fetch, Answer, FetchFails, Resume, LoadDir, Wake
  <2>3. CASE Publishing \/ UNCHANGED vars
    BY <2>3 DEF Publishing, Publish, vars, pluginVars
  <2>4. QED
    BY <2>1, <2>2, <2>3 DEF Next
<1>3. TypeOK /\ TaskInv /\ [Next]_vars => OneTaskPerBundle'
  <2> SUFFICES ASSUME TypeOK, TaskInv, [Next]_vars
               PROVE  OneTaskPerBundle'
    OBVIOUS
  <2>0. OneTaskPerBundle /\ (starts = 0 => ~running)
    BY DEF TaskInv
  <2> USE DEF TypeOK
  <2>1. CASE Start
    <3>1. tasks = {}
      BY <2>0, <2>1 DEF Start, OneTaskPerBundle
    <3>2. tasks' = StartTasks({}, config) /\ running' /\ config' = config
      BY <2>1, <3>1 DEF Start
    <3>3. QED
      BY <3>2, StartedTasks DEF OneTaskPerBundle
  <2>2. CASE Stop
    BY <2>2 DEF Stop, CancelTasks, OneTaskPerBundle
  <2>3. ASSUME NEW cfg \in Configs, Reconfigure(cfg)
        PROVE  OneTaskPerBundle'
    <3>1. CASE starts = 0
      BY <2>0, <2>3, <3>1 DEF Reconfigure, OneTaskPerBundle
    <3>2. CASE starts # 0
      <4>1. tasks' = StartTasks({}, cfg) /\ running' /\ config' = cfg
        BY <2>3, <3>2 DEF Reconfigure, CancelTasks
      <4>2. QED
        BY <4>1, StartedTasks DEF OneTaskPerBundle
    <3>3. QED
      BY <3>1, <3>2
  <2>4. ASSUME NEW t \in tasks, NothingNew(t), UNCHANGED <<config, running>>
        PROVE  OneTaskPerBundle'
    <3>1. [t EXCEPT !.pc = "sleeping", !.answer = NoAnswer].name = t.name
      BY DEF Task
    <3>2. QED
      BY <2>0, <2>4, <3>1, ReplaceKeepsNames DEF NothingNew
  <2>5. ASSUME NEW t \in tasks, NEW b, Deliver(t, b, b), UNCHANGED <<config, running>>
        PROVE  OneTaskPerBundle'
    <3>1. [t EXCEPT !.pc = "sleeping", !.answer = NoAnswer, !.tag = b].name = t.name
      BY DEF Task
    <3>2. QED
      BY <2>0, <2>5, <3>1, ReplaceKeepsNames, EndTaskKeepsNames DEF Deliver
  <2>6. ASSUME NEW t \in tasks, Fetch(t) \/ Wake(t)
        PROVE  OneTaskPerBundle'
    <3>1. /\ [t EXCEPT !.pc = "fetching"].name = t.name
          /\ [t EXCEPT !.pc = "ready"].name = t.name
      BY DEF Task
    <3>2. QED
      BY <2>0, <2>6, <3>1, ReplaceKeepsNames DEF Fetch, Wake
  <2>7. ASSUME NEW t \in tasks, Answer(t)
        PROVE  OneTaskPerBundle'
    <3> DEFINE a == IF t.tag = remote[t.name] THEN NotModified ELSE remote[t.name]
    <3>1. [t EXCEPT !.pc = "answered", !.answer = a].name = t.name
      BY DEF Task
    <3>2. QED
      BY <2>0, <2>7, <3>1, ReplaceKeepsNames DEF Answer
  <2>8. ASSUME NEW t \in tasks, FetchFails(t)
        PROVE  OneTaskPerBundle'
    BY <2>0, <2>8, EndTaskKeepsNames DEF FetchFails
  <2>9. ASSUME NEW t \in tasks, Resume(t)
        PROVE  OneTaskPerBundle'
    BY <2>4, <2>5, <2>9 DEF Resume
  <2>10. ASSUME NEW t \in tasks, LoadDir(t)
         PROVE  OneTaskPerBundle'
    BY <2>4, <2>5, <2>10 DEF LoadDir
  <2>11. CASE Publishing \/ UNCHANGED vars
    BY <2>0, <2>11 DEF Publishing, Publish, vars, pluginVars, OneTaskPerBundle
  <2>12. QED
    BY <2>1, <2>2, <2>3, <2>6, <2>7, <2>8, <2>9, <2>10, <2>11
    DEF Next, Lifecycle, Polling
<1>4. TypeOK /\ TaskInv /\ [Next]_vars => TaskInv'
  BY <1>2, <1>3 DEF TaskInv
<1>5. QED
  BY <1>1, <1>4, TypeCorrect, PTL DEF Spec

\* However the plugin is stopped, started and reconfigured while fetches are
\* under way, no bundle has two pollers and no bundle that is not configured one.
THEOREM OneTaskAlways == Spec => []OneTaskPerBundle
  BY AlwaysTaskInv, PTL DEF TaskInv

-----------------------------------------------------------------------------
(* Where bundles come from.  A task is about the bundle of its name from the     *)
(* request to the tag it keeps; stop() and reconfigure() leave no task that is   *)
(* about another.                                                                *)

OfItsName(t) ==
  /\ t.tag \in {NoTag} \cup Offered(t.name)
  /\ t.pc = "answered" => t.answer \in {NotModified} \cup Offered(t.name)

Origin ==
  /\ \A n \in Names : remote[n] \in Offered(n)
  /\ \A t \in tasks : OfItsName(t)

Known == TypeInv /\ TaskInv

\* The types and the number of tasks are known in every state.
LEMMA AlwaysKnown == Spec => []Known
  BY TypesCorrect, AlwaysTaskInv, PTL DEF Known

\* The tasks that start() makes have asked for nothing yet.
LEMMA NewTaskOrigin ==
  ASSUME NEW n, NEW k
  PROVE  OfItsName(NewTask(n, k))
  BY DEF NewTask, OfItsName

\* A task is replaced by one of the same name, and the others stay.
LEMMA ReplaceOrigin ==
  ASSUME Origin, NEW t \in tasks, NEW u, OfItsName(u), Replace(t, u), UNCHANGED remote
  PROVE  Origin'
  BY DEF Origin, Replace

\* The end of a task leaves the others.
LEMMA EndTaskOrigin ==
  ASSUME Origin, NEW t \in tasks, EndTask(t), UNCHANGED remote
  PROVE  Origin'
  BY DEF Origin, EndTask

\* "Not modified" leaves the tag; a bundle that is delivered becomes the tag.
LEMMA IterationOrigin ==
  ASSUME Known, Origin, NEW t \in tasks, UNCHANGED remote,
         \/ NothingNew(t)
         \/ \E b \in Offered(t.name) : Deliver(t, b, b)
  PROVE  Origin'
<1>1. t \in Task /\ OfItsName(t)
  BY DEF Known, TypeInv, TypeOK, Origin
<1>2. CASE NothingNew(t)
  <2> DEFINE u == [t EXCEPT !.pc = "sleeping", !.answer = NoAnswer]
  <2>1. OfItsName(u)
    BY <1>1 DEF Task, OfItsName
  <2>2. QED
    BY <1>2, <2>1, ReplaceOrigin DEF NothingNew
<1>3. ASSUME NEW b \in Offered(t.name), Deliver(t, b, b)
      PROVE  Origin'
  <2> DEFINE u == [t EXCEPT !.pc = "sleeping", !.answer = NoAnswer, !.tag = b]
  <2>1. OfItsName(u)
    BY <1>1 DEF Task, OfItsName
  <2>2. QED
    BY <1>3, <2>1, ReplaceOrigin, EndTaskOrigin DEF Deliver
<1>4. QED
  BY <1>2, <1>3

\* Every iteration of a task that gets an answer ends in one of two ways.
LEMMA Iterations ==
  ASSUME Known, Origin, NEW t \in tasks, Resume(t) \/ LoadDir(t)
  PROVE  /\ UNCHANGED <<remote, published, config, running, status, starts>>
         /\ \/ NothingNew(t)
            \/ \E b \in Offered(t.name) : Deliver(t, b, b)
<1>1. t.name \in Names /\ OfItsName(t)
  BY DEF Known, TypeInv, TypeOK, Task, Origin
<1>2. QED
  BY <1>1 DEF Resume, LoadDir, Origin, OfItsName

\* No task ever carries, as an answer or as a tag, the bundle of another name.
LEMMA AlwaysOrigin == Spec => []Origin
<1>1. Init => Origin
  BY DEF Init, Origin
<1>2. Known /\ Origin /\ [Next]_vars => Origin'
  <2> SUFFICES ASSUME Known, Origin, [Next]_vars
               PROVE  Origin'
    OBVIOUS
  <2>1. CASE Lifecycle
    BY <2>1, NewTaskOrigin
    DEF Lifecycle, Start, Stop, Reconfigure, CancelTasks, StartTasks, Origin
  <2>2. ASSUME NEW t \in tasks, Fetch(t) \/ Wake(t)
        PROVE  Origin'
    <3>1. /\ OfItsName([t EXCEPT !.pc = "fetching"])
          /\ OfItsName([t EXCEPT !.pc = "ready"])
      BY DEF Known, TypeInv, TypeOK, Task, Origin, OfItsName
    <3>2. QED
      BY <2>2, <3>1, ReplaceOrigin DEF Fetch, Wake
  <2>3. ASSUME NEW t \in tasks, Answer(t)
        PROVE  Origin'
    <3> DEFINE a == IF t.tag = remote[t.name] THEN NotModified ELSE remote[t.name]
    <3>1. a \in {NotModified} \cup Offered(t.name)
      BY DEF Known, TypeInv, TypeOK, Task, Origin
    <3>2. OfItsName([t EXCEPT !.pc = "answered", !.answer = a])
      BY <3>1 DEF Known, TypeInv, TypeOK, Task, Origin, OfItsName
    <3>3. QED
      BY <2>3, <3>2, ReplaceOrigin DEF Answer
  <2>4. ASSUME NEW t \in tasks, FetchFails(t)
        PROVE  Origin'
    BY <2>4, EndTaskOrigin DEF FetchFails
  <2>5. ASSUME NEW t \in tasks, Resume(t) \/ LoadDir(t)
        PROVE  Origin'
    BY <2>5, Iterations, IterationOrigin
  <2>6. ASSUME NEW n \in Names, NEW b \in Offered(n), Publish(n, b)
        PROVE  Origin'
    BY <2>6 DEF Publish, pluginVars, Known, TypeInv, TypeOK, Origin
  <2>7. CASE UNCHANGED vars
    BY <2>7 DEF vars, pluginVars, Origin
  <2>8. QED
    BY <2>1, <2>2, <2>3, <2>4, <2>5, <2>6, <2>7 DEF Next, Polling, Publishing
<1>3. QED
  BY <1>1, <1>2, AlwaysKnown, PTL DEF Spec

\* Whatever a step adds to the document or to the compiled policies comes from a bundle
\* that is offered under a name configured now: a fetch that was under way when the plugin
\* was stopped or reconfigured is never applied.
THEOREM OnlyConfiguredEverApply == Spec => OnlyConfiguredBundlesApply
<1> DEFINE FromConfigured ==
      /\ \A p \in Paths : modules'[p] # modules[p] =>
           running /\ \E n \in config : \E b \in Offered(n) : b.policies[p] = modules'[p]
      /\ data' # data => running /\ \E n \in config : \E b \in Offered(n) : b.data = data'
<1>1. ASSUME Known, Origin, [Next]_vars
      PROVE  FromConfigured \/ UNCHANGED vars
  <2>1. ASSUME UNCHANGED <<data, modules>>
        PROVE  FromConfigured
    BY <2>1
  <2>2. CASE Lifecycle \/ Publishing
    BY <2>1, <2>2 DEF Lifecycle, Start, Stop, Reconfigure, Publishing, Publish, pluginVars
  <2>3. ASSUME NEW t \in tasks, Resume(t) \/ LoadDir(t)
        PROVE  FromConfigured
    <3>1. running /\ t.name \in config
      BY <1>1 DEF Known, TaskInv, OneTaskPerBundle
    <3>2. CASE UNCHANGED <<data, modules>>
      BY <2>1, <3>2
    <3>3. ASSUME NEW b \in Offered(t.name), Apply(b)
          PROVE  FromConfigured
      <4>1. ASSUME NEW p \in Paths, modules'[p] # modules[p]
            PROVE  b.policies[p] = modules'[p]
        BY <3>3, <4>1 DEF Apply, Merged, Parsed
      <4>2. data' # data => b.data = data'
        BY <3>3 DEF Apply
      <4>3. QED
        BY <3>1, <4>1, <4>2
    <3>4. QED
      BY <1>1, <2>3, <3>2, <3>3, Iterations DEF NothingNew, Deliver
  <2>4. ASSUME NEW t \in tasks, Fetch(t) \/ Answer(t) \/ FetchFails(t) \/ Wake(t)
        PROVE  FromConfigured
    BY <2>1, <2>4 DEF Fetch, Answer, FetchFails, Wake
  <2>5. QED
    BY <1>1, <2>2, <2>3, <2>4 DEF Next, Polling
<1>2. QED
  BY <1>1, AlwaysKnown, AlwaysOrigin, PTL DEF Spec, OnlyConfiguredBundlesApply

-----------------------------------------------------------------------------
(* What a tag stands for *)

\* A policy of a bundle whose tag is kept, and the one compiled under its path, if
\* the configuration is cfg.
InForce(t, p, ms, cfg) ==
  \/ ms[p] = Parsed(t.tag)[p]
  \/ \E n \in cfg \ {t.name} : Ships(n, p, ms[p])

\* A task that will be answered "not modified" has its bundle compiled, however fetches,
\* starts and publications interleave, except for policies that another bundle configured
\* now has put its own in the place of: the tag is only kept together with the policies.
THEOREM TaggedAlwaysApplied == Spec => []TaggedBundleApplied
<1> DEFINE Compiled(t, ms, cfg) ==
      t.tag # NoTag /\ t.tag.fault = "none" =>
        \A p \in Paths : Parsed(t.tag)[p] # NoPolicy => InForce(t, p, ms, cfg)
<1>1. Init => TaggedBundleApplied
  BY DEF Init, TaggedBundleApplied
<1>2. Known /\ Origin /\ TaggedBundleApplied /\ [Next]_vars => TaggedBundleApplied'
  <2> SUFFICES ASSUME Known, Origin, TaggedBundleApplied, [Next]_vars
               PROVE  \A u \in tasks' : Compiled(u, modules', config')
    BY DEF TaggedBundleApplied, InForce
  <2>0. \A t \in tasks : t \in Task /\ OfItsName(t) /\ Compiled(t, modules, config)
    BY DEF Known, TypeInv, TypeOK, Origin, TaggedBundleApplied, InForce
  <2>1. ASSUME UNCHANGED <<modules, config>>, NEW u \in tasks',
               \/ u \in tasks
               \/ \E t \in tasks : u.tag = t.tag /\ u.name = t.name
        PROVE  Compiled(u, modules', config')
    BY <2>0, <2>1 DEF InForce
  <2>2. CASE Lifecycle
    <3>1. running \/ tasks = {}
      BY DEF Known, TaskInv, OneTaskPerBundle
    <3>2. ASSUME NEW u \in tasks'
          PROVE  u.tag = NoTag
      BY <2>2, <3>1, <3>2
      DEF Lifecycle, Start, Stop, Reconfigure, CancelTasks, StartTasks, NewTask, Known, TaskInv
    <3>3. QED
      BY <3>2
  <2>3. ASSUME NEW t \in tasks, NEW u, u.tag = t.tag, u.name = t.name, Replace(t, u),
               UNCHANGED <<modules, config>>
        PROVE  \A v \in tasks' : Compiled(v, modules', config')
    BY <2>1, <2>3 DEF Replace
  <2>4. ASSUME NEW t \in tasks, EndTask(t), UNCHANGED <<modules, config>>
        PROVE  \A v \in tasks' : Compiled(v, modules', config')
    BY <2>1, <2>4 DEF EndTask
  <2>5. ASSUME NEW t \in tasks, NothingNew(t), UNCHANGED config
        PROVE  \A v \in tasks' : Compiled(v, modules', config')
    <3>1. /\ [t EXCEPT !.pc = "sleeping", !.answer = NoAnswer].tag = t.tag
          /\ [t EXCEPT !.pc = "sleeping", !.answer = NoAnswer].name = t.name
      BY <2>0 DEF Task
    <3>2. QED
      BY <2>3, <2>5, <3>1 DEF NothingNew
  <2>6. ASSUME NEW t \in tasks, NEW b \in Offered(t.name), Deliver(t, b, b), UNCHANGED config
        PROVE  \A v \in tasks' : Compiled(v, modules', config')
    <3> DEFINE u == [t EXCEPT !.pc = "sleeping", !.answer = NoAnswer, !.tag = b]
    <3>1. CASE b.fault = "none"
      <4>1. /\ u.tag = b /\ tasks' = (tasks \ {t}) \cup {u}
            /\ modules' = Merged(modules, b) /\ config' = config
        BY <2>0, <2>6, <3>1 DEF Deliver, Replace, Apply, Task
      <4> HIDE DEF u
      <4>2. Compiled(u, modules', config')
        BY <4>1 DEF Merged, InForce
      <4>3. ASSUME NEW v \in tasks \ {t}, v.tag # NoTag, v.tag.fault = "none",
                   NEW p \in Paths, Parsed(v.tag)[p] # NoPolicy
            PROVE  InForce(v, p, modules', config')
        <5>1. v.name # t.name /\ t.name \in config
          BY <4>3 DEF Known, TaskInv, OneTaskPerBundle
        <5>2. CASE Parsed(b)[p] = NoPolicy
          <6>1. modules'[p] = modules[p]
            BY <4>1, <5>2 DEF Merged
          <6>2. InForce(v, p, modules, config)
            BY <2>0, <4>3
          <6>3. QED
            BY <4>1, <6>1, <6>2 DEF InForce
        <5>3. CASE Parsed(b)[p] # NoPolicy
          <6>1. modules'[p] = Parsed(b)[p]
            BY <4>1, <5>3 DEF Merged
          <6>2. Ships(t.name, p, modules'[p])
            BY <2>6, <5>3, <6>1 DEF Ships
          <6>3. QED
            BY <4>1, <5>1, <6>2 DEF InForce
        <5>4. QED
          BY <5>2, <5>3
      <4>4. QED
        BY <4>1, <4>2, <4>3
    <3>2. CASE b.fault # "none"
      BY <2>4, <2>6, <3>2 DEF Deliver
    <3>3. QED
      BY <3>1, <3>2
  <2>7. ASSUME NEW t \in tasks, Fetch(t) \/ Wake(t)
        PROVE  \A v \in tasks' : Compiled(v, modules', config')
    <3>1. /\ [t EXCEPT !.pc = "fetching"].tag = t.tag
          /\ [t EXCEPT !.pc = "ready"].tag = t.tag
          /\ [t EXCEPT !.pc = "fetching"].name = t.name
          /\ [t EXCEPT !.pc = "ready"].name = t.name
      BY <2>0 DEF Task
    <3>2. QED
      BY <2>3, <2>7, <3>1 DEF Fetch, Wake
  <2>8. ASSUME NEW t \in tasks, Answer(t)
        PROVE  \A v \in tasks' : Compiled(v, modules', config')
    <3> DEFINE a == IF t.tag = remote[t.name] THEN NotModified ELSE remote[t.name]
    <3>1. /\ [t EXCEPT !.pc = "answered", !.answer = a].tag = t.tag
          /\ [t EXCEPT !.pc = "answered", !.answer = a].name = t.name
      BY <2>0 DEF Task
    <3>2. QED
      BY <2>3, <2>8, <3>1 DEF Answer
  <2>9. ASSUME NEW t \in tasks, FetchFails(t)
        PROVE  \A v \in tasks' : Compiled(v, modules', config')
    BY <2>4, <2>9 DEF FetchFails
  <2>10. ASSUME NEW t \in tasks, Resume(t) \/ LoadDir(t)
         PROVE  \A v \in tasks' : Compiled(v, modules', config')
    BY <2>5, <2>6, <2>10, Iterations
  <2>11. CASE Publishing \/ UNCHANGED vars
    BY <2>0, <2>11 DEF Publishing, Publish, vars, pluginVars
  <2>12. QED
    BY <2>2, <2>7, <2>8, <2>9, <2>10, <2>11 DEF Next, Polling
<1>3. QED
  BY <1>1, <1>2, AlwaysKnown, AlwaysOrigin, PTL DEF Spec
=============================================================================
