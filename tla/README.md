# A TLA+ verification of NPA, the Next Policy Agent

NPA is an Open-Policy-Agent compatible policy server in Python: clients store Rego policies and
JSON data over HTTP, upload bundles of both, and ask for decisions.  This directory holds TLA+
models of its core (server, plugins, storage, evaluator, compiler, parser, formatter, bundles,
SDK, cache), the TLC configurations that check them on small instances, and TLAPS proofs of the
main safety properties for every instance.

Paths below are relative to `src/`; the implementation is `src/npa`.

## 1. The system

Everything runs in one process on one asyncio event loop.  A request handler or a plugin coroutine
runs undisturbed between two `await`s, so the atomic steps of the models are the pieces of code
between awaits.  Handlers and tasks do interleave at every await, clients disconnect, remote servers
fail, and the process restarts.

| Component | State it keeps | Operations | What makes it correct |
|---|---|---|---|
| Policy, data and bundle routes (`npa/server/routes/{policy,data,bundles}.py`, `npa/server/app.py`) | storage, `app.state.evaluator`, `app.state.compiler`, `app.state.bundle_status` | put/delete policy; put/patch/delete data; upload/delete bundle; decisions; restart | the evaluator always holds exactly the stored policies; a failed request leaves policies alone; the bundle registry tells the truth |
| Storage (`npa/storage`) | document and policies, in memory or in SQLite | read, patch, remove, upsert, transactions | isolation in memory; reads give what was written; policies survive a crash on disk |
| Bundle plugin and loader (`npa/plugins/manager.py`, `npa/bundle/loader.py`) | configuration, poll tasks, an ETag per loader, the plugin manager's compiler | start, stop, reconfigure, one poll loop per bundle | one poller per configured bundle; what is "not modified" has been applied; a source that settles is compiled in the end |
| Decision-log plugin (`npa/plugins/manager.py`) | bounded buffer, periodic task, POSTs under way | record, periodic flush, stop, reconfigure | the bound; nothing held twice; nothing lost except in the known ways; delivery in the end |
| Plugin manager, status and discovery plugins (`npa/plugins/manager.py`) | registered plugins, discovery's task and ETag | start_all, stop_all, poll the configuration and reconfigure others | nothing runs after the stop; a configuration reaches every plugin |
| Query evaluator (`npa/eval/topdown.py`, `unify.py`) | bindings with an undo log, the rule cache of one query | evaluation, unification, backtracking | the answer is what the policies mean; bindings undone exactly |
| Compiler and rule index (`npa/ast/compiler.py`) | rule tree, indices | compile, candidates | the index loses no rule that could apply |
| Partial evaluator (`npa/eval/partial.py`) | none | residuals of a query | the residual holds for the inputs the query holds for |
| Built-in functions (`npa/ast/builtins.py`) | none | some 190 functions | documents edited where they are named; graphs searched whole |
| Lexer, parser, formatter (`npa/ast/{lexer,parser}.py`, `npa/format/formatter.py`) | none | text to tree and back | precedence; what is printed parses back |
| Bundle format (`npa/bundle/bundle.py`, `sign.py`) | none | load, merge, build, delta patches | archive and directory agree; what is packed loads back; patches apply in order |
| Query cache (`npa/eval/cache.py`) | entries, recency, expiry | get, put, invalidate, evict | bounded, never stale, the least recent goes |
| SDK (`npa/sdk/sdk.py`) | modules, store, evaluator | load, remove, bundles, decide | never an engine of some of the policies |
| Dashboard (`npa/server/routes/ui_api.py`) | sessions, ring of recent decisions | login, validate, logout; record, page, clear | ended sessions stay ended; paging misses nothing |
| CLI, configuration, auth, health, metrics, front end | none that outlives a call | | views, I/O |

How they interact:

* The routes share `app.state`.  Every handler that changes policies rebuilds the evaluator from all
  the stored policies before it returns.  The decision handlers read `app.state.evaluator` and the
  storage; `POST /v1/data` reads the evaluator *before* it awaits its body.
* The evaluator reads data from the live storage, policies from the compiler it was built with.
* The bundle plugin writes to the same storage, but compiles into `PluginManager.compiler`, which no
  handler reads: a polled policy never answers a decision of the HTTP server.
* `create_app` registers the plugins; discovery reconfigures the others, itself included.  As
  shipped, the discovery and status plugins have no URL, so `reconfigure` is only called by a program
  that configures discovery or embeds the plugins; `DecisionLogPlugin.record` likewise has no caller
  inside `npa`.  Both are public operations of the plugins and modelled as such.

The hard behaviours, each at its line in `PROJECT.json` under `hazards`: state read before an await
and used after it, handlers that fail half-way, a restart that keeps the disk and loses
`app.state`, fetches interrupted by stop and reconfigure, a plugin that cancels the task it runs in,
ETags kept for bundles that were never applied, batches that come back to a full buffer, timeouts
that do not tell whether a batch arrived, one SQLite connection under all transactions, a search
that binds and takes back, and trees, documents and texts whose parts lie inside one another.

## 2. Modules

| Module | Models | Uses |
|---|---|---|
| `PolicyServer` | the routes over one storage | |
| `BundlePlugin` | the bundle plugin and its loaders | |
| `DecisionLogPlugin` | the decision-log plugin | |
| `PluginManager` | start_all, stop_all, discovery and the life cycles it drives | |
| `Dashboard` | sessions and the ring of decisions | |
| `Agent` | plugins and dashboard of one server | instantiates both |
| `Documents` | JSON documents as trees: walk, put, remove | |
| `SnapshotStore` | what the storage contract promises (abstract) | |
| `InMemoryStorage`, `DiskStorage` | the two backends | `SnapshotStore`; `Documents` |
| `Storage` | a server with either, and what its reads owe its writes | instantiates both |
| `Bundles` | the bundle format and delta bundles | `Documents` |
| `QueryCache` | `InterQueryCache` | |
| `Sdk` | the embedded engine | `Bundles`, instantiates `QueryCache` |
| `Ast` | terms, expressions, rules, values | |
| `GraphSearch` | the search of `graph.reachable` | |
| `Builtins`, `Compiler`, `Topdown`, `PartialEval` | the functions, the index, the evaluator, the partial evaluator, as operators | each the one before; `GraphSearch` |
| `Meaning` | what a set of policies means (reference definition) | `Topdown` |
| `Evaluation` | a query and a partial query of loaded policies | `Meaning`, `PartialEval` |
| `Lexer`, `Parser`, `Formatter` | as operators on characters and tokens | `Ast` |
| `Syntax` | a module printed and parsed again | `Parser`, `Formatter` |
| `Language` | either of the two, for one run about both | `Evaluation`, `Syntax` |
| `Environments` | what the evaluator expects of its bindings (abstract) | |
| `Bindings` | the bindings and their undo log | instantiates `Environments` |
| `PolicyServerProofs`, `BundlePluginProofs`, `DecisionLogPluginProofs`, `AgentProofs`, `BindingsProofs`, `DocumentsProofs`, `StorageProofs`, `SdkProofs` | theorems about the module they are named after | that module, `TLAPS`; the last two also `DocumentsProofs`, which is about `GraphSearch` too |
| `MC*` and `*.cfg` | instances for TLC | the module they are named after |

`PROJECT.json` maps every definition that models code to its lines.  Definitions marked *Mutant* are
plausible bugs: put in place of the definition that follows them, each makes some property fail.

### PolicyServer

`data` is the document: a function from top-level keys to values, a value the set of second-level
keys it holds.  Values deeper than that make no difference to the handlers.  `policies` maps ids to
texts, of which only "parses" and "does not" matter.  `evaluator` is the policy set the current
`TopdownEvaluator` was compiled from, or `NoEvaluator`.  `bundles` is `app.state.bundle_status`.
Ids are sequences of path segments, because `f"bundle/{name}/{path}"` runs a name and a path
together: two bundles may share an id, and a client may put or delete a policy under one.  `last` is
history: who stored or deleted a policy last, a bundle or `/v1/policies`.

One action per handler.  `PutData`, `PatchData`, `DeleteData`, `PutPolicy`, `DeletePolicy`,
`ActivateBundle` and `DeleteBundle` await nothing between their first read of shared state and their
last write, so each is one step with its rebuild.  `PutDataIfNoneMatch`/`PutDataBody` and
`PostData`/`PostDataBody` are the two halves of handlers with an await in the middle; `req[c]` keeps
what the first half read.  `ActivationFails` has the partial failures of `_activate_bundle`:
before anything is stored, or once the data is stored.  A body that is not JSON, or a policy that is
not UTF-8, raises in the handler (`RejectData`, `RejectDataBody`, `RejectPolicy`).  `backend` is chosen in `Init` and never
changes; `DiskStorage` implements neither `patch_data` nor `remove_data`, so with it every data
write ends in an error (`WriteFails`), and a bundle with data fails before its policies.  `Restart`
runs `create_app` again.

A text that parses always compiles: `Compiler.compile` raises only for recorded errors, and nothing
records one.  So a rebuild cannot fail.

### BundlePlugin

A task is a record: the start that made it, its bundle, where it is suspended, its loader's tag and
the answer that waits for it.  The tag stands for the ETag of an HTTP source or the content hash of
a directory, and is the bundle itself: a source that serves the same thing has the same tag.
`Fetch`/`Answer`/`Resume` are an HTTP round trip; the loader keeps the ETag before it looks at the
body.  `LoadDir` reads a directory without suspending.  `Stop` and `Reconfigure` cancel every task
wherever it is suspended.

`EndTask` is what really happens in the handler of a failed fetch: `logger.exception(..., extra={"name":
name})` names an attribute of the log record, for which `logging` raises `KeyError`; the exception
leaves the handler and ends the task, and the status `ERROR` is never set.  The success path logs
with the same key at INFO, a level that is off as the program is shipped, so it is harmless there.

### DecisionLogPlugin

`buffer` is a sequence of decisions, each recorded at most once so that it can be followed.  `post`
has the two coroutines that may be inside `_flush`: the periodic task and `stop()`.  `FlushPeriodically`
copies and clears the buffer, `PostReturns` and `PostFails` are the resumption after the POST.  A
POST that times out may have been accepted.  `StopThen` is `stop()` up to its await, and
`AfterFlush` what follows it, the end of `stop()` or the start in `reconfigure()`.  A cancelled
flush does not put its batch back, because `CancelledError` is not an `Exception`.

### PluginManager, Dashboard and Agent

`PluginManager` has one record per plugin of what its life cycle leaves behind: `_running`, the
state in `_status`, the configuration.  `poll` is discovery's task: waiting to fetch, fetching,
applying the sections of a configuration that are left, or suspended in the decision log's flush.  `Busy`
says that code is running that does not suspend: between two sections and inside `stop_all`,
nothing else moves.  The steps that do suspend are `stop_all` and `reconfigure` when the decision
log's buffer `held` entries; then the other of the two, `record`, and the configuration server go on.
A section that names discovery cancels the task which is applying it: it goes on until it suspends, and
if that is in the decision log's `stop`, the log is left stopped and its batch is lost.

What a section holds matters in three ways.  A malformed one (`Malformed`: bundles that are no
object, a `reporting` that is none) raises in `start`, after `_running` was set, and the sections
that follow are skipped; for the decision log that is not all, because with such a `reporting` every later
`stop` of a buffer with entries raises too (`ApplyRaises`, `StopFails`), before the next
configuration is looked at.  A decision log without an endpoint (`Silent`) clears its buffer and
does not suspend.  A discovery section without a URL (`Undirected`) leaves discovery without a task.

`Dashboard`'s clock moves both ways, because `time.time()` does.  `pager` is the client of
`GET /v1/ui/decisions`: it asks for page after page.  The two parts of `Dashboard` and
`PluginManager` share no state, so `Agent` explores them one at a time (`part`); the products of
their states would show nothing more.

### Documents, the backends and Storage

A document is a tree of objects and other values; a path a sequence of segments.  The loops of
`_walk`, `_set_path` and `_del_path` are recursive functions on the length of a path: `Walked` and
`Above` are what a read and a write have come to after each segment, `Raised` what the write leaves
below each.  In memory a
document is an object on a `heap`: a read transaction holds a *reference* to the store's own
document, a write transaction a deep copy, and `Change` (`patch_data`, `remove_data`) swaps in the
copy it changed.  That a reader nevertheless never sees a change is the refinement of
`SnapshotStore`.  Neither `commit` nor `abort` writes a transaction's copy back.

On disk a value is a row at its path.  All transactions share one connection, so there is one set
of uncommitted rows, whoever wrote them; a commit or a change of a policy commits all of them, an
abort takes all of them back, and `saved` is what a crash leaves.  `Like` is SQLite's pattern: it takes
letters of either case (`Fold`), and a `_` in the path asked for (`Wild`) takes any character, a slash
too (`WildTakes` lists what such a path takes).  `Rest` cuts as many characters off a key as the path
has, so that a read of a row taken by mistake sees it at the right depth; on such rows `_build_tree`
may also raise (`Mistaken`).  `Storage` says which backend runs and states what reads owe to writes.

### Bundles, QueryCache and Sdk

A file is a path and a content; the loaders, the merge of data files, `build_bundle` and
`apply_delta_bundle` are operators.  `Chosen` is what a comprehension takes from a list of files,
`Sorted` their order by path (`InPathOrder`, one order for `sorted` of texts and of paths: which it is
makes no difference to what is checked), `Updated` is `dict.update`.  `Stripped` is `lstrip("./")`,
which takes the dots of file names too, and `Climbs` the test for two dots anywhere in a path, which
drops `a..b.rego` as well as `../a.rego`.  `Scope` has a patch with an unknown operation skipped.  `Merged` and `Patched` are what the loops over data files and
patches have made after each of them.  `Sdk` has an action for each operation that changes the engine, and one for an application
that applies a delta bundle and hands the policies over.  `outcome` is the last call's.
`QueryCache` has the entries of the ordered dictionary as a function, `store`, and their order as
the set of the pairs of which the first is before the second, `order`; `put`, `last_use` (the same
kind of relation over all keys) and `answer` are history.  The evaluator takes a cache and never asks
it, so the cache is explored by itself.

### Ast to Evaluation

`Topdown` follows the evaluator operator by operator.  The state that its functions thread through
calls, bindings and rule cache, is a record `m` that goes in and comes out, exceptions are outcomes,
and a generator is the sequence of what it yields, with the bindings in force at each.  Its methods call
one another through `c.eval`, the function `Evaluator` in the context (`w.mean` in `Meaning` and
`g.parse` in `Parser` are alike): terms, bodies and rules nest in each other.  `Compiler` has the
index with its candidates in the order the code gives them.

`Meaning` is written from the language instead: an expression turns an environment into the set of
environments that satisfy it, a body composes its expressions, rules agree on a value or conflict.  It
has neither order, index, cache nor undo.  Two ways in which this evaluator reads policies otherwise
than the language are parts of a world that can be switched on (`faults`): a negated expression that is
undefined makes its body fail, and the index withholds a rule by its first equality under the
query's input, whatever `with` that equality has.  `Evaluation` loads policies and asks for
`data.a.p`; `EvaluationMeans` compares the answer with the meaning under both, so that nothing else
differs, and `NegationOfUndefined` with the meaning without the first, which TLC refutes.  The built-ins compared with definitions of what they compute are those on documents
and graphs; comparison, arithmetic, aggregates, sets, objects and arrays are modelled as the
evaluator calls them.  `GraphSearch` has the loop of `graph.reachable` turn by turn, as a recursive
function, so that it can be proved about; `Builtins` hands it the graph of a document.

### Lexer to Syntax

Characters are one-character strings of the classes the lexer tells apart, tokens pairs of kind
and text.  `Parser` is the recursive descent with its lookahead; a failure is a result, not an
exception.  `Formatter` gives the tokens it prints, with the line ends that end an expression; a field
is printed bare when it is an identifier (`IsIdentifier`) and in brackets otherwise.  `Syntax`
prints a module and parses what was printed, parses chains of operators, and lexes short texts.
`Notated` lists the terms whose printed form is not notation for them at all (section 5); of all
others only missing parentheses (`Grouped`, `Bare`) may keep the formatter's output from meaning what
was formatted.  `Language` starts either `Evaluation` or `Syntax`: they share nothing, as the parts of
`Agent`.

### Bindings and Environments

`Bindings` is `npa/eval/unify.py`'s class: `values` is the flat dictionary of each object, `undo` its
stack of frames.  A frame is a set, because `bind()` appends a variable only when it was not bound,
so never twice.  Values are taken up to `_values_equal`.  `raised` says that the last `bind()` raised
`UnificationError`.

`Environments` is the promise: an object is a stack of environments; `save()` pushes a copy of the
top, `restore()` drops the top, `commit()` drops the one below it.  The refinement mapping `Envs`
computes that stack: the environment at height k is the table without the variables of the frames
from k upward.  The environments below the top exist nowhere in the code, so the refinement
is about information the undo log only has implicitly.

`Next` lets the operations come in any order, more than the evaluator uses.  In particular
`_iter_body` calls `restore()` after it has committed when a later expression of the body raises
(`topdown.py:756-761`); what such a restore undoes belongs to the checkpoint outside, as
`Environments` has it.  `copy()` copies the frames too, and the copies are independent.

## 3. Runs

| Run | Checks | Bounds | States |
|---|---|---|---|
| `PolicyServer_engine` | `TypeOK`, `EvaluatorCurrent`, `DirectPoliciesServed`, `ListedPoliciesStored`, `FailedRequestsChangeNothing` | both backends, one client with a suspended handler, bundles `a` and `a/b` with the files `p` and `b/p`, two ids of `/v1/policies` of which one is that of a file of both bundles, five archives, one root | 523,117 |
| `BundlePlugin_polling` | `TypeOK`, `OneTaskPerBundle`, `TaggedBundleApplied`, `OnlyConfiguredBundlesApply`, `PoliciesConverge` | one HTTP source and one directory, three bundles each, two starts, two publications | 11,113 |
| `BundlePlugin_failed_fetch` | finding `EveryBundlePolled` | one source | |
| `DecisionLogPlugin_shipping` | `TypeOK`, `BufferBounded`, `HeldOnce`, `OnePeriodicTask`, `LostOnlyWhen`, `EventuallyDelivered` | three decisions, a buffer of two, one reconfiguration | 3,679 |
| `Agent_plugins` | `NothingRunsAfterStop`, `Converges`, `SessionsEnd`, `PagingMissesNothing` | four plugins, five configurations (plain, naming discovery, a malformed bundle section, a malformed `reporting`, without ETag or endpoint); two tokens, a clock of five values; a ring of three, pages of two, a client that asks for two or three, six decisions | 12,569 |
| `Storage_backends` | `ReadsBack`, `PoliciesDurable`, `SnapshotIsolation` | two transactions, one policy, four references, eight changes in memory; on disk fifteen changes of six paths, the root and a pattern | 38,028 |
| `Sdk_bundles` | `EvaluatorWhole`, `LoadersAgree`, `BuildRoundTrip`, `DeltaPatchesInOrder`, `AnswersLastPut`, `EvictsLeastRecent` | two policy ids, a good and a bad text, three changes of data, archives of up to three of eight files in every order and one of files a load hides, deltas of up to two patches; a cache of two for three keys | 14,640 |
| `Language` | `EvaluationMeans`, `PartialAnswerComplete`, `UnifiersUnify`, `DocumentsEdited`, `ReachableIsClosure`; `PrecedenceRespected`, `FormatRoundTrip`, `LexemesFaithful` | `p` with every body of one or two of twelve expressions, in up to four kinds, beside five definitions of `q` and a function; three inputs; terms of up to two elements; graphs of three nodes.  Modules of two rules with up to two expressions, each shape of term once; chains of up to four operands; texts of up to four of ten characters | 28,789 |
| `Evaluation_partial_set` | finding `PartialSetComplete` | the same | |
| `Evaluation_negation` | finding `NegationOfUndefined` | the same | |
| `Syntax_parentheses` | finding `FormatKeepsMeaning` | the same | |
| `Bindings_undo` | `TypeOK`, `BehavesAsStack` | two objects, two variables, two values, checkpoints three deep | 53,776 |

Why the bounds are enough.  The engine properties relate one policy id to the evaluator, one bundle
to its files, and one suspended handler to the current state; two bundles are there so that a change
to one can be seen in the other, and their names and files are such that two of them share an id, which
a client of `/v1/policies` uses too; the archives are one of each kind the handler tells apart
(policies only, data and fewer policies, a text that does not parse, bad data, bad text).  No
engine action reads the request state of a second client.  For polling, two starts put a cancelled
generation beside a live one, two publications change a source while a fetch of its old content is
under way and change it back, and the bundles offered include ones that fail before and after the
ETag is kept.  For the decision log, a buffer of two and three decisions let a batch of two come
back to a buffer with one place or none.  Three checkpoints are the least at which a commit has a
frame it removes, one it merges into and one it must leave alone.

The configurations of `Agent_plugins` are one of each kind that `DiscoveryPlugin` treats
differently, most with the decision log among their sections, the plugin whose restart suspends, with
and without an endpoint and with a `reporting` that it cannot read.  A ring of three with pages of two makes pages shift, repeat and fall off the end; six decisions push every
entry out once.  Two transactions are enough for one to take back or commit what the other wrote;
the paths on disk have a row above, one below, one that is a prefix as text but not as a path, two that
differ in case only from another or from what is above it, and two that are patterns, one of which takes
a path with a slash.  Three files are the least with which the order of two can hide the third; a
cache of two evicts at the third key.  For the evaluator two expressions give every order of a
binding and a use, a negation or a `with` between, the guard of a rule under a `with` among them; each kind of rule is asked for and is asked from
inside another.  The evaluator's recursion ends by itself on these policies, except through rules
that refer to themselves, which the depth of eight ends as `max_depth` does.

`CHECK_DEADLOCK FALSE`: in the plugin runs starts and publications are bounded and a stopped plugin
may rest; in the runs of `Language`, `Storage` and `Sdk` what was loaded is asked once, or
the changes that are left may all be refused.

### Fairness

`PolicyServer`, `Bindings`, `Storage`, `Sdk` and `Language` are safety models and assume none.

`BundlePlugin`: weak fairness of each poll loop's own steps, because the event loop resumes every
task that can run and a sleep ends, and of "answered or failed", because the HTTP client has a
30-second timeout.  Nothing is assumed of publications, stops or starts.  `PoliciesConverge` speaks
of the bundles whose task goes on living, which a failed fetch prevents: that it is prevented is
the finding of `BundlePlugin_failed_fetch`.

`DecisionLogPlugin`: weak fairness of the periodic flush and of the resumption of an answered POST,
for the same reasons; every POST is answered or times out after 10 seconds.  One assumption
is about the environment: an endpoint that is tried again and again accepts in the end
(strong fairness of `Accept`).  `EventuallyDelivered` would be vacuous as a claim about the
endpoint; what it says of the plugin is that it goes on trying.

`PluginManager`: weak fairness of discovery's fetch, of the application of a configuration and of
`stop_all`, all resumed by the event loop; strong fairness of a good response, that is, a
configuration server which is asked again and again answers in the end.  `Converges` then says that no
failure, cancellation or ETag in between keeps a configuration from the plugins it names.  It excepts
configurations that raise while they are applied or that name discovery: for both the code loses the
sections that follow.  It also excepts what an earlier configuration may leave for good (`Obstructed`): a
decision log that raises whenever it is stopped with entries, and discovery without a task.

## 4. Proofs

All theorems hold for every value of the constants that meets the named assumptions of the modules,
which TLC evaluates on the runs:

| Assumption | Says | Because |
|---|---|---|
| `PolicyServer`: `ParsableAssumption`, `ArchiveAssumption`, ... | kinds of the constants; no text is the mark of an absent one | |
| `PolicyServer`: `WriterAssumption` | in the history, `/v1/policies` and "no request" are no bundle's names | |
| `BundlePlugin`: `OfferedAssumption`, `ConfigAssumption`, ... | kinds of the constants | |
| `DecisionLogPlugin`: `MaxBufferAssumption` | the buffer has room for an entry | `_max_buffer` (`plugins/manager.py:270`) |
| `Agent`: `PluginsAssumption` | plugins have different names, discovery is registered last | the registrations in `create_app` (`server/app.py`) |
| `Agent`: `SectionsAssumption` | a configuration is a list of sections | the loop over `new_config.items()` (`plugins/manager.py:565`) |
| `Agent`: `DashboardAssumption` | the ring, a page and the largest page the server grants hold one decision at least | `max_size` and `limit` (`ui_api.py:107`, `:129`, `:201`) |
| `Bindings`: `UnboundAssumption` | the mark of an unbound variable is no value | |
| `Storage`: `ChangesAssumption`; `Sdk`: `DeltasAssumption` | paths are lists of strings, of any length; patches are a list; an object is a function of its members' names | `StorageEvent`, `DeltaPatch`, JSON |
| `Sdk`: `NamesAssumption` | no name that ends in `.rego` is one of a data file, a manifest or signatures; `.manifest` loses its dot, `data.json` has none; `..` has two dots in a row, `manifest` and `data.json` have not | `is_rego`, `is_data`, `lstrip("./")` |
| `Sdk`: `FilesAssumption` | no two files of a bundle have one path; a file is its path and its content, and the members of a data file have names | what a directory holds, and so an archive packed from one; JSON |
| `Sdk`: `PathsAssumption` | a path has at least one segment; the order of paths is a strict total one | a name that is dots only is no file's; `sorted` |
| `Sdk`: `CacheAssumption` | the cache has room for one entry | with none, `put` raises in `popitem` |

| Theorem | Establishes |
|---|---|
| `PolicyServerProofs!TypeCorrect` | `[]TypeOK` |
| `PolicyServerProofs!EvaluatorAlwaysCurrent` | `[]EvaluatorCurrent` |
| `PolicyServerProofs!DirectPoliciesAlwaysServed` | `[]DirectPoliciesServed` |
| `PolicyServerProofs!FailuresAreLocal` | `FailedRequestsChangeNothing` |
| `PolicyServerProofs!ListedPoliciesAlwaysStored` | `[]ListedPoliciesStored` |
| `BundlePluginProofs!TypeCorrect` | `[]TypeOK` |
| `BundlePluginProofs!OneTaskAlways` | `[]OneTaskPerBundle` |
| `BundlePluginProofs!OnlyConfiguredEverApply` | `OnlyConfiguredBundlesApply` |
| `BundlePluginProofs!TaggedAlwaysApplied` | `[]TaggedBundleApplied` |
| `DecisionLogPluginProofs!TypeCorrect` | `[]TypeOK` |
| `DecisionLogPluginProofs!BufferAlwaysBounded` | `[]BufferBounded` |
| `DecisionLogPluginProofs!OneTaskAlways` | `[]OnePeriodicTask` |
| `DecisionLogPluginProofs!AlwaysHeldOnce` | `[]HeldOnce` |
| `DecisionLogPluginProofs!LostOnlyWhenAllowed` | `LostOnlyWhen` |
| `AgentProofs!StopIsFinal` | `[]NothingRunsAfterStop` |
| `AgentProofs!SessionsAlwaysEnd` | `[]SessionsEnd` |
| `AgentProofs!PagingNeverMisses` | `[]PagingMissesNothing` |
| `BindingsProofs!TypeCorrect` | `[]TypeOK` |
| `BindingsProofs!Implements` | `BehavesAsStack`, that is `Environments`' specification |
| `StorageProofs!TransactionsIsolated` | `SnapshotIsolation`, that is `SnapshotStore`'s specification |
| `StorageProofs!PoliciesAlwaysDurable` | `[]PoliciesDurable` |
| `StorageProofs!AlwaysReadsBack` | `[]ReadsBack` |
| `SdkProofs!EvaluatorAlwaysWhole` | `EvaluatorWhole` |
| `SdkProofs!AlwaysAnswersLastPut` | `AnswersLastPut` |
| `SdkProofs!AlwaysEvictsLeastRecent` | `EvictsLeastRecent` |
| `SdkProofs!PatchesAlwaysInOrder` | `[]DeltaPatchesInOrder` |
| `SdkProofs!LoadersAlwaysAgree` | `[]LoadersAgree` |
| `SdkProofs!BuildAlwaysRoundTrips` | `[]BuildRoundTrip` |
| `DocumentsProofs!SearchFindsReachable` | for every finite graph, `Search` is the least set that holds the start and is left by no edge |

* **The engine.**  `EvaluatorCurrent` by itself is nearly inductive; `DirectPoliciesServed` is not: a
  stored policy is compiled only if it parses and an evaluator exists.  The invariant `EngineInv`
  adds that, with the memory backend, the texts stored under direct ids parse and that stored
  policies imply an evaluator.  Without an evaluator, `EvaluatorCurrent` says that no request has
  touched a policy since the start: after a restart the disk's policies answer nothing (section 5),
  and that ends with the first change.
* **The registry.**  Names and paths run together into ids, so bundle `a` with file `b/p` and bundle `a/b`
  with file `p` own the same policy, and so may a client of `/v1/policies`: deleting one takes the
  policy of the other.  Hence `ListedPoliciesStored` says of a listed policy that is not stored that
  another request deleted it, by the history `last`.  That is inductive: a bundle which is deleted
  takes its list along, and no upload writes less than it lists.
* **The bundle plugin.**  `TypeOK` needs that an answered task holds an answer (`TypeInv`).
  `OneTaskPerBundle` needs that a plugin that was never started is not running (`TaskInv`), because
  `reconfigure()` without a manager changes the configuration and starts nothing.  What may be
  applied is a matter of where a fetch came from: `Origin` says that every tag and every answer a task
  holds is of a bundle that was offered under the task's name, and with `OneTaskPerBundle` that name is
  configured.  `TaggedBundleApplied` is then kept by every step (`InForce`): two bundles with a common
  path do overwrite each other, and a policy is put out of force only by one that a bundle configured now
  ships under its path; a reconfiguration that removes this bundle makes new loaders for all.
* **The decision log.**  The bound, the accounting of the flushers and the types are inductive only
  together (`Inv`): a batch that comes back needs the bound to be cut to size, and `stop()` needs
  the accounting to know which flush it replaces.  `HeldOnce` needs more than that no decision is in
  two batches: a flush that failed puts its batch before a buffer which was filled meanwhile, so the
  buffer and both batches must each be without repetition, pairwise disjoint, and must hold only
  decisions that were recorded (`IInv`).  Lemmas about appending, concatenating and cutting sequences say
  what each does to the elements.  `LostOnlyWhen` follows step by step.
* **Stopping.**  `NothingRunsAfterStop` depends on the order: `stop_all` stops discovery first, because
  it was registered last, and from then on no configuration can start a plugin again.  `StopInv` says
  that what `stop_all` has passed is stopped (`PassedStopped`), that discovery's task is gone once the
  list is being worked off (`TaskInTime`), and that a stopped plugin does not run (`ReadyRuns`).  A decision log
  whose `stop` raises in its flush does not run, but keeps its status: the one exception.
* **The dashboard.**  A token is handed out once, and one that ended has no session (`SessionInv`).  For
  the pages, `RingInv` says where the decisions are that the client has not seen: behind its offset,
  because new ones come in before the others and push them back, never forward.
* **The bindings.**  One lemma per operation says what it does to the stack a table and its frames
  stand for (`PushedStack`, `BoundStack`, `PoppedStack`, `MergedStack`, `FlattenedStack`), one per
  action lifts it to the objects, and `Implements` is their conjunction.  `TypeOK` says that a frame
  lists bound variables only, which is not inductive: were a variable in two frames, a restore
  would unbind it under the outer one.  `TypeInv` adds that no variable is.
* **The in-memory backend.**  `MemoryInv` says that the copy a write transaction changes is
  nobody else's (`OwnCopy`): without it a write could be seen by a reader.  It is inductive because a
  new document is put where nothing refers to.  `Init` and every step then map to `SnapshotStore`'s, with
  `View` for what each transaction reads.
* **Documents.**  `ReadsBack` relates a read of any path to a write of any other, so it is about
  walks along two paths in two documents.  First the recursive functions have to be shown to exist and to obey
  their equations (`WalkedIs`, `AboveIs`, `RaisedIs`), by an induction over an initial segment of
  the numbers (`UpTo`, from the well-foundedness of strict inclusion of finite sets).  Then: a walk
  to where a value was placed comes back through what was built (`GrownWalk`); where a path passes no list,
  what a write passes is what a walk finds (`AboveVsWalk`); two paths agree up to where they first
  part (`FirstParting`), and from there the documents are the same (`SameWalk`).  `GrownReads`, `GrownApart`,
  `CutReads` and `CutApart` put this together.  Paths through lists are excepted by the property
  itself: a write replaces the list by an object.
* **The rows on disk.**  What `LIKE` takes to be below a path without a `_` has the path's segments but for
  the case of letters (`LikeIs`), so it belongs to no path that parts from it by more; both reads
  then select the same rows, those taken by mistake included, and build the same tree.  That rows' keys
  are paths is invariant (`RowsInv`).  Paths with a `_`, and a read of a written path below which `LIKE` takes
  another's rows (`NoneMistaken`), are excepted by the property itself: there the code does read and
  remove what is not the path's (section 5).
* **The SDK.**  `EvaluatorWhole` needs that the last call's outcome tells whether the evaluator is of all texts
  (`Current`).  For the cache, `CacheInv` says that an entry is what was put last under its key, and
  that the dictionary's order is that of the last uses restricted to its keys, which is linear: hence there
  is exactly one first entry, and the one dropped was used before the others.  `Linear*`
  lemmas keep this through moves to the end and deletions.
* **Delta bundles.**  Patches change document and policies in turn (`PatchedIs`); a patch does what it says
  (`PatchReads`, `PatchSets`) and nothing to what parts from it, so that by induction over the patches that
  follow (`DataStays`, `PolicyStays`) the last one about a path is in force.  As above it excepts
  patches through lists.
* **Archives and directories.**  The loaders list the same files in different orders (`Lists`,
  `ChosenLists`, `SortedLists`), so `LoadersAgree` says that the merge of data files does not depend on
  the order.  Two files whose members do not meet commute (`SeparateCommute`, by an induction over the
  path that their directories share): at the root one adds members that the other has not and does not
  walk through (`RootsCommute`); below one name both happen to the kid of that name (`BelowOneKid`); and below
  two names each leaves the other's kid alone (`KidsCommute`), or both raise.  The operators fold a path
  from its end, so lemmas first turn walks and writes into their first step and the rest (`WalkShift`,
  `GrownShift`, `PlaceBelow`).  Files that commute merge into one document whatever the order
  (`MergedSame`): the last file of one list can be moved to the end of the other (`MovedToEnd`).
  The attempt corrected the property: a data file that holds an empty object creates its directory all the same,
  so it does meet a file that gives this directory's name a value, and the merge raises in one order only.
* **What build_bundle packs.**  `BuildRoundTrip` is no invariant by itself: a document that is no object, or
  policies of which a total order knows nothing, would not come back.  `Held` says that the document is an
  object, that the policies are a function of finitely many paths, and that these are ordered.  Every write,
  merge and patch keeps it (`ChangedRooted`, `DataRooted`, `PatchedRooted`).  What is packed and unpacked
  are then lists of three disjoint sets of files: manifest, policies and document (`BuildLoads`).  The
  property excepts the policies whose paths a load changes or drops: those that begin with a dot, and those
  with two dots in a row anywhere (`Climbs`).
* **Reachable nodes.**  What the search has visited or waits to visit is left by no edge except from
  nodes that wait, and lies in every set that holds the start and is left by no edge (`SearchInv`).
  That nothing waits at the end is a matter of counting: a turn takes one node off the queue, and
  what it adds it pays for with the edges that leave the visited node, which are used up
  (`LeftWithout`), so that as many turns suffice as there are places in the start and edges.  The
  turns exist as a recursive function by induction over their number (`SearchedIs`).

Only model-checked:

* The liveness properties `PoliciesConverge`, `EventuallyDelivered` and `Converges`: the prover has
  no rule for fairness and `ENABLED`.
* Everything about the evaluator, the built-ins, the parser and the formatter (`EvaluationMeans`,
  `PartialAnswerComplete`, `UnifiersUnify`, `DocumentsEdited`, `ReachableIsClosure`,
  `PrecedenceRespected`, `FormatRoundTrip`, `LexemesFaithful`): `RECURSIVE` operators, for which it
  loses its arithmetic, on structures whose induction it cannot express.  Of `ReachableIsClosure` the
  search itself is proved (`SearchFindsReachable`); that documents become graphs is checked only.

## 5. Where the code and its documentation disagree

Four are runs that TLC finds violated, listed with both places in `PROJECT.json`:

1. The first failed fetch of a polled bundle ends its polling (`plugins/manager.py:212`):
   `BundlePlugin_failed_fetch`.
2. A rule that adds to a set adds one element per rule, the first its body finds
   (`eval/topdown.py:269`): `Evaluation_partial_set`.
3. A negated expression that is undefined makes its body fail (`eval/topdown.py:329`), where the language
   reference denies with `not input.authenticated` (`Documentation/Rego_Sprachreferenz.md:202`):
   `Evaluation_negation`.
4. The formatter prints no parentheses, so formatting may change a rule: `(a + b) * c` comes out as
   `a + b * c`, `(a + b)[0]` as `a + b[0]` (`format/formatter.py`): `Syntax_parentheses`.

The models follow the code in the following as well; no run states the opposite.

* A decision is answered with the policies of the request's arrival and the data of its end
  (`data.py:162-190`).
* A conditional PUT checks before it awaits its body and writes after it: two of them may both
  succeed (`data.py:213-221`).
* "Merge bundle data into storage" replaces the whole document (`bundles.py:33`), and so does a polled
  bundle (`plugins/manager.py:233`), and the data files of a delta bundle (`bundle.py:281`).
* Deleting a bundle deletes the files of its last upload only (`bundles.py:72`).
* The ids of different bundles' files may be equal (`bundles.py:37`), and `/v1/policies` takes them
  too: deleting one deletes the policy that the other lists.
* With the disk backend policies survive a restart but answer nothing until the next change
  (`app.py:59`).
* A policy that a polled source drops stays compiled (`plugins/manager.py:248`), in a compiler that
  no request reads (`:250`).
* A batch of decisions refused with an error status is dropped (`plugins/manager.py:349`).
* Discovery keeps the ETag before it applies the configuration, so a configuration that raises is not
  tried again (`plugins/manager.py:538`); one that names discovery may leave the decision log stopped.
* A `decision_log` section whose `reporting` is no object raises in `start` (`plugins/manager.py:285-286`) and, once
  a decision is recorded, in every later `stop` (`:334`): no later configuration reaches the plugin, though
  its ETag is kept.
* The rule index "never excludes rules that would match", but it looks up the guard under the
  query's input, whatever `with` the guarded expression has (`compiler.py:213`).
* `inter_cache or InterQueryCache()` drops an empty cache that was given (`topdown.py:104`).
* `lstrip("./")` takes the dot of `.manifest` and `.signatures.json`, so neither is found in an
  archive (`bundle.py:128`).
* `unify` makes no occurs check, so `x = [x]` succeeds (`unify.py`).
* SQLite's `LIKE` (`disk.py:36`, `:59`, `:71`) takes letters of either case, and a `_` or `%` in a path any
  character, a slash too: reading or removing `/users` also takes the rows below `/Users`.
* `json.patch` follows RFC 6902 (`builtins.py:585`) on objects only: a write into a list raises, and a move out of
  one copies.
* `{}` is read as an empty set (`parser.py:762-764`) and printed as `set()`, which is read as a call.
* A keyword as a field, `input["in"]`, is printed `.in`, which is not read as one (`formatter.py:190`); the
  head of a reference into a string is printed without its quotes (`:185-187`).

## 6. Not modelled

Signatures and content hashes (`sign.py`: one comparison around a library), the built-ins on
strings, encodings, time, networks, units and tokens (calls into Python's library), the report
the status plugin posts (nothing reads its answer), views (health, metrics, configuration,
listings), authentication (stateless), configuration (read once), the command line except `fmt`, the
dashboard's front end, and the examples.  Locations, annotations, tracing and metrics are left out of
the modules that otherwise cover their files.  So are raw strings and the escapes of quoted ones in the
lexer, `%` in a pattern of `LIKE`, edits of documents through arrays in `DocumentsEdited` (the
operators have them: they raise or do nothing), and the policies a read transaction of the in-memory store sees, which are
the live dictionary.  Threads are left out: the server runs one worker with
one event loop, and no handler leaves it.

## 7. Plan

Done: the modules of section 2 and the proofs of section 4.  What is left, in this order:

1. The routes and the bundle plugin over one storage, with the two compilers that decisions do and do
   not see, composed from their modules.
