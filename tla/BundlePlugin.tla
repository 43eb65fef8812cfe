---------------------------- MODULE BundlePlugin ----------------------------
(***************************************************************************)
(* The bundle plugin (plugins/manager.py) and the loader it polls with     *)
(* (bundle/loader.py): one asyncio task per configured bundle fetches the  *)
(* bundle, applies it to the store and to the plugin manager's compiler,   *)
(* and sleeps.  The remote sources publish, the network fails, and the     *)
(* plugin is stopped and reconfigured while fetches are under way.         *)
(*                                                                         *)
(* A bundle's identity stands for its ETag (HTTP) or content hash (local   *)
(* directory); a data document is the set of facts it holds.               *)
(***************************************************************************)
EXTENDS Naturals

CONSTANTS
  Names,         \* bundle names
  HttpNames,     \* those whose url is fetched; the others name a directory
  Paths,         \* paths of policy files
  Sources, Parsable,
  Facts,         \* entries of the data document
  Offered(_),    \* the bundles that may be published under a name
  InitConfig,    \* the names configured at startup
  Configs,       \* the configurations discovery may bring
  MaxStarts,     \* bound on starts of the plugin
  MaxPublished,  \* bound on publications
  NoPolicy, NoTag, NoAnswer, NotModified

Documents == SUBSET Facts
PolicySets == [Paths -> Sources \cup {NoPolicy}]
Bundle == [data : Documents, policies : PolicySets,
           fault : {"none", "bad_archive", "bad_content"}]
AllOffered == UNION {Offered(n) : n \in Names}

ASSUME NamesAssumption    == HttpNames \subseteq Names
ASSUME OfferedAssumption  == AllOffered \subseteq Bundle
ASSUME BoundsAssumption   == MaxStarts \in Nat /\ MaxPublished \in Nat
ASSUME ConfigAssumption   == InitConfig \subseteq Names /\ Configs \subseteq SUBSET Names

VARIABLES
  remote,      \* what each source serves now
  published,   \* publications so far
  config,      \* names under _config["bundles"]
  running,     \* _running
  status,      \* _status.state; ERROR is never reached, see EndTask
  starts,      \* starts so far; a task carries the one that made it
  tasks,       \* the live poll tasks, each with its own loader
  data,        \* the store's document
  modules      \* manager.compiler.modules

pluginVars == <<config, running, status, starts, tasks, modules>>
vars == <<remote, published, data, pluginVars>>

Answers == {NoAnswer, NotModified} \cup AllOffered
Task == [start : 1..MaxStarts, name : Names,
         pc : {"ready", "fetching", "answered", "sleeping"},
         tag : AllOffered \cup {NoTag}, answer : Answers]

\* The values of the attributes are of the kinds the code gives them.
TypeOK ==
  /\ remote \in [Names -> AllOffered]
  /\ published \in 0..MaxPublished
  /\ config \in SUBSET Names
  /\ running \in BOOLEAN
  /\ status \in {"NOT_READY", "OK"}
  /\ starts \in 0..MaxStarts
  /\ tasks \in SUBSET Task
  /\ data \in Documents
  /\ modules \in PolicySets

Init ==
  /\ remote \in [Names -> AllOffered]
  /\ \A n \in Names : remote[n] \in Offered(n)
  /\ published = 0
  /\ config = InitConfig
  /\ running = FALSE
  /\ status = "NOT_READY"
  /\ starts = 0
  /\ tasks = {}
  /\ data = {}
  /\ modules = [p \in Paths |-> NoPolicy]

-----------------------------------------------------------------------------
(* Lifecycle.  None of these coroutines suspends, so each is one step.      *)

NewTask(n, k) ==
  [start |-> k, name |-> n, pc |-> "ready", tag |-> NoTag, answer |-> NoAnswer]

StartTasks(live, names) == live \cup {NewTask(n, starts + 1) : n \in names}

\* Mutant: stop() forgets the tasks without cancelling them.
ForgetTasks == tasks

\* task.cancel() reaches a task at the await it is suspended in, so a
\* cancelled task never runs plugin code again.
CancelTasks == {}

Start ==
  /\ ~running
  /\ starts < MaxStarts
  /\ running' = TRUE
  /\ status' = "OK"
  /\ starts' = starts + 1
  /\ tasks' = StartTasks(tasks, config)
  /\ UNCHANGED <<remote, published, config, data, modules>>

Stop ==
  /\ running' = FALSE
  /\ status' = "NOT_READY"
  /\ tasks' = CancelTasks
  /\ UNCHANGED <<remote, published, config, starts, data, modules>>

\* stop, the new configuration and, once the plugin knows its manager, start.
Reconfigure(cfg) ==
  /\ config' = cfg
  /\ IF starts = 0
     THEN UNCHANGED <<running, status, starts, tasks>>
     ELSE /\ starts < MaxStarts
          /\ running' = TRUE
          /\ status' = "OK"
          /\ starts' = starts + 1
          /\ tasks' = StartTasks(CancelTasks, cfg)
  /\ UNCHANGED <<remote, published, data, modules>>

-----------------------------------------------------------------------------
(* Applying a bundle *)

Parsed(b) == [p \in Paths |-> IF b.policies[p] \in Parsable THEN b.policies[p] ELSE NoPolicy]

\* Mutant: {**modules, **existing}
MergedExistingLast(ms, b) == [p \in Paths |-> IF ms[p] # NoPolicy THEN ms[p] ELSE Parsed(b)[p]]

\* {**existing, **modules}
Merged(ms, b) == [p \in Paths |-> IF Parsed(b)[p] # NoPolicy THEN Parsed(b)[p] ELSE ms[p]]

Apply(b) ==
  /\ data' = IF b.data # {} THEN b.data ELSE data
  /\ modules' = Merged(modules, b)

Replace(t, u) == tasks' = (tasks \ {t}) \cup {u}

\* _poll_bundle's handler logs with extra={"name": ...}, a name of the log
\* record's own: logging answers with a KeyError, which leaves the handler
\* before it sets the status, and ends the task.
EndTask(t) == tasks' = tasks \ {t}

\* The rest of an iteration once the loader has got bundle b and keeps tag: the
\* bundle is refused by load_bundle_from_bytes, or by get_policies or get_data
\* before anything is stored, or it is applied.  (With DiskStorage a bundle
\* that has data fails like "bad_content": patch_data does not exist.)
Deliver(t, b, tag) ==
  IF b.fault = "none"
  THEN /\ Apply(b)
       /\ Replace(t, [t EXCEPT !.pc = "sleeping", !.answer = NoAnswer, !.tag = tag])
  ELSE EndTask(t) /\ UNCHANGED <<data, modules>>

NothingNew(t) ==
  /\ Replace(t, [t EXCEPT !.pc = "sleeping", !.answer = NoAnswer])
  /\ UNCHANGED <<data, modules>>

-----------------------------------------------------------------------------
(* One iteration of _poll_bundle *)

\* HTTP: the request goes out with the loader's ETag.
Fetch(t) ==
  /\ t.name \in HttpNames
  /\ t.pc = "ready"
  /\ running
  /\ Replace(t, [t EXCEPT !.pc = "fetching"])
  /\ UNCHANGED <<remote, published, config, running, status, starts, data, modules>>

\* The source answers it: 304 for the tag it still serves, else the bundle.
Answer(t) ==
  /\ t.pc = "fetching"
  /\ Replace(t, [t EXCEPT !.pc = "answered",
                          !.answer = IF t.tag = remote[t.name] THEN NotModified
                                     ELSE remote[t.name]])
  /\ UNCHANGED <<remote, published, config, running, status, starts, data, modules>>

\* A timeout, a refused connection or an error status.
FetchFails(t) ==
  /\ t.pc = "fetching"
  /\ EndTask(t)
  /\ UNCHANGED <<remote, published, config, running, status, starts, data, modules>>

\* Mutant: the ETag is taken from a 304 as well.
ResumeWithAnyTag(t) ==
  /\ t.pc = "answered"
  /\ IF t.answer = NotModified
     THEN /\ Replace(t, [t EXCEPT !.pc = "sleeping", !.answer = NoAnswer, !.tag = t.answer])
          /\ UNCHANGED <<data, modules>>
     ELSE Deliver(t, t.answer, t.answer)
  /\ UNCHANGED <<remote, published, config, running, status, starts>>

\* The task resumes; the loader stores the ETag before it looks at the body.
Resume(t) ==
  /\ t.pc = "answered"
  /\ IF t.answer = NotModified THEN NothingNew(t) ELSE Deliver(t, t.answer, t.answer)
  /\ UNCHANGED <<remote, published, config, running, status, starts>>

\* Mutant: whatever has been loaded once counts as unchanged.
LoadDirOnce(t) ==
  LET b == remote[t.name]
  IN /\ t.name \notin HttpNames
     /\ t.pc = "ready"
     /\ running
     /\ IF t.tag # NoTag THEN NothingNew(t) ELSE Deliver(t, b, b)
     /\ UNCHANGED <<remote, published, config, running, status, starts>>

\* A local directory is read without suspending; the last bundle is kept.
LoadDir(t) ==
  LET b == remote[t.name]
  IN /\ t.name \notin HttpNames
     /\ t.pc = "ready"
     /\ running
     /\ IF t.tag = b THEN NothingNew(t) ELSE Deliver(t, b, b)
     /\ UNCHANGED <<remote, published, config, running, status, starts>>

\* asyncio.sleep(interval) ends.
Wake(t) ==
  /\ t.pc = "sleeping"
  /\ Replace(t, [t EXCEPT !.pc = "ready"])
  /\ UNCHANGED <<remote, published, config, running, status, starts, data, modules>>

\* A source starts to serve another bundle.
Publish(n, b) ==
  /\ published < MaxPublished
  /\ b # remote[n]
  /\ published' = published + 1
  /\ remote' = [remote EXCEPT ![n] = b]
  /\ UNCHANGED <<data, pluginVars>>

-----------------------------------------------------------------------------
TaskOf(n, A(_)) == \E t \in tasks : t.name = n /\ A(t)

Lifecycle == Start \/ Stop \/ \E cfg \in Configs : Reconfigure(cfg)
Polling == \E t \in tasks : Fetch(t) \/ Answer(t) \/ FetchFails(t) \/ Resume(t)
                            \/ LoadDir(t) \/ Wake(t)
Publishing == \E n \in Names : \E b \in Offered(n) : Publish(n, b)

Next == Lifecycle \/ Polling \/ Publishing

\* The event loop runs every task that can run, a sleep ends, and a request is
\* answered or times out.
Fairness == \A n \in Names :
  /\ WF_vars(TaskOf(n, Fetch)) /\ WF_vars(TaskOf(n, Resume))
  /\ WF_vars(TaskOf(n, LoadDir)) /\ WF_vars(TaskOf(n, Wake))
  /\ WF_vars(TaskOf(n, Answer) \/ TaskOf(n, FetchFails))

Spec == Init /\ [][Next]_vars /\ Fairness

-----------------------------------------------------------------------------
(* Properties *)

\* However often the plugin is stopped and reconfigured, and whatever fetch
\* that interrupts, no bundle has two pollers and only configured ones have one.
OneTaskPerBundle ==
  /\ \A t, u \in tasks : t.name = u.name => t = u
  /\ {t.name : t \in tasks} \subseteq IF running THEN config ELSE {}

\* No fetch that was under way when the plugin was stopped or reconfigured is
\* applied later: what changes comes from a bundle configured now.
OnlyConfiguredBundlesApply ==
  [][/\ \A p \in Paths : modules'[p] # modules[p] =>
          running /\ \E n \in config : \E b \in Offered(n) : b.policies[p] = modules'[p]
     /\ data' # data => running /\ \E n \in config : \E b \in Offered(n) : b.data = data'
    ]_vars

Ships(n, p, s) == s # NoPolicy /\ \E b \in Offered(n) : Parsed(b)[p] = s

\* A loader that will be told "not modified" has handed its bundle over: a
\* policy of a well-formed bundle it holds the tag of is compiled, unless
\* another bundle configured now ships one under the same path, which then is.
TaggedBundleApplied ==
  \A t \in tasks :
    t.tag # NoTag /\ t.tag.fault = "none" =>
      \A p \in Paths : Parsed(t.tag)[p] # NoPolicy =>
        \/ modules[p] = Parsed(t.tag)[p]
        \/ \E n \in config \ {t.name} : Ships(n, p, modules[p])

Polled(n) == \E t \in tasks : t.name = n
OwnPath(n, p) == \A m \in Names \ {n} : \A b \in Offered(m) : Parsed(b)[p] = NoPolicy

\* As long as its task lives, a bundle whose source stops changing is compiled
\* in the end, whatever the source served before: each of its policies whose
\* path no other bundle ships one under.
PoliciesConverge ==
  \A n \in Names :
    <>[]Polled(n) =>
      <>[](\A p \in Paths :
             Parsed(remote[n])[p] # NoPolicy /\ OwnPath(n, p)
               => modules[p] = Parsed(remote[n])[p])

-----------------------------------------------------------------------------
(* What the documentation says *)

\* bundle/loader.py:3: the loader supports "retry logic", and manager.py:211
\* handles a failed fetch and goes on: every configured bundle of a running
\* plugin is polled.
EveryBundlePolled == running => \A n \in config : Polled(n)
=============================================================================
