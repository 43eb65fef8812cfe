---------------------------- MODULE PolicyServer ----------------------------
(***************************************************************************)
(* The HTTP server's policy engine: the stored data document, the stored   *)
(* policies, the evaluator compiled from them and the bundle registry, as  *)
(* the handlers of routes/policy.py, routes/data.py and routes/bundles.py  *)
(* change them.                                                            *)
(*                                                                         *)
(* The server is one asyncio event loop.  A handler that awaits its body   *)
(* before it touches app.state runs as one step; a handler that reads      *)
(* app.state before the await has one step for each side of it, and req[c] *)
(* holds what client c's suspended handler has read.                       *)
(*                                                                         *)
(* The document is a function from top-level keys to values, a value the   *)
(* set of items (second-level keys) it holds.                              *)
(***************************************************************************)
EXTENDS Naturals, Sequences

CONSTANTS
  Backends,       \* the values of storage.backend considered
  Clients,        \* connections that may have a suspended handler
  DirectIds,      \* policy ids clients use with /v1/policies
  BundleNames,    \* names clients use with /v1/bundles, as segments
  Paths,          \* paths of the .rego files in bundles, as segments
  Sources,        \* policy texts
  Parsable,       \* the texts parse_module accepts
  Roots,          \* top-level keys of the data document
  Items,          \* keys of the objects stored under a root
  Archives,       \* the bundle archives clients upload
  NoPolicy, Absent, NoEvaluator, NoBundle,
  Direct, Nobody  \* in the history of an id: /v1/policies, and no request

Values == SUBSET Items
Documents == [Roots -> {Absent} \cup Values]
EmptyDocument == [r \in Roots |-> Absent]

\* f"bundle/{name}/{path}": the segments of name and path run together.
BundleId(n, p) == <<"bundle">> \o n \o p

BundleIds == {BundleId(n, p) : n \in BundleNames, p \in Paths}
Ids == DirectIds \cup BundleIds

\* What load_bundle_from_bytes returns: the merged data document, the .rego
\* files, and whether a data file is not JSON or a .rego file not UTF-8.
Archive == [data     : Documents,
            policies : [Paths -> Sources \cup {NoPolicy}],
            fault    : {"none", "bad_data", "bad_text"}]

ASSUME BackendsAssumption == Backends \subseteq {"memory", "disk"}
ASSUME ParsableAssumption == Parsable \subseteq Sources
ASSUME ArchiveAssumption  == Archives \subseteq Archive
ASSUME NoPolicyAssumption == NoPolicy \notin Sources
ASSUME WriterAssumption   == Direct \notin BundleNames /\ Nobody \notin BundleNames \cup {Direct}

PolicySets == [Ids -> Sources \cup {NoPolicy}]

ASSUME NoEvaluatorAssumption == NoEvaluator \notin PolicySets

VARIABLES
  backend,     \* storage.backend of the configuration
  data,        \* InMemoryStorage._data, or the rows of DiskStorage's data table
  policies,    \* the storage's policies, id -> raw text
  evaluator,   \* app.state.evaluator: the modules its compiler holds
  bundles,     \* app.state.bundle_status, name -> the policies listed for it
  req,         \* the suspended handlers
  reply,       \* the response of the last step, if it made one
  last         \* history: who stored or deleted a policy last since the start, a bundle or Direct

vars == <<backend, data, policies, evaluator, bundles, req, reply, last>>

Idle == [op |-> "idle"]
Suspended == {Idle}
             \cup [op : {"put_data"}, target : Roots]
             \cup [op : {"post_data"}, evaluator : PolicySets]
NoReply == [op |-> "none", code |-> 0]
Reply(op, code) == reply' = [op |-> op, code |-> code]
Handlers == {"put_policy", "delete_policy", "put_data", "patch_data",
             "delete_data", "upload_bundle", "delete_bundle", "post_data"}

\* The values of the attributes are of the kinds the code gives them.
TypeOK ==
  /\ backend \in Backends
  /\ data \in Documents
  /\ policies \in PolicySets
  /\ evaluator \in PolicySets \cup {NoEvaluator}
  /\ bundles \in [BundleNames -> (SUBSET Paths) \cup {NoBundle}]
  /\ req \in [Clients -> Suspended]
  /\ reply \in {NoReply} \cup [op : Handlers, code : {200, 204, 304, 400, 404, 500}]
  /\ last \in [Ids -> BundleNames \cup {Direct, Nobody}]

Init ==
  /\ backend \in Backends
  /\ data = EmptyDocument
  /\ policies = [i \in Ids |-> NoPolicy]
  /\ evaluator = NoEvaluator
  /\ bundles = [n \in BundleNames |-> NoBundle]
  /\ req = [c \in Clients |-> Idle]
  /\ reply = NoReply
  /\ last = [i \in Ids |-> Nobody]

-----------------------------------------------------------------------------
(* Policies *)

\* The modules a rebuild compiles: texts that no longer parse are left out.
Compiled(ps) == [i \in Ids |-> IF ps[i] \in Parsable THEN ps[i] ELSE NoPolicy]

\* Mutant: the rebuild reads the storage before the change.
RebuildBeforeStoring == evaluator' = Compiled(policies)

RebuildEvaluator == evaluator' = Compiled(policies')

\* Mutant: the text is stored without parsing it.
PutAnyPolicy(i, s) ==
  /\ policies' = [policies EXCEPT ![i] = s]
  /\ last' = [last EXCEPT ![i] = Direct]
  /\ RebuildEvaluator
  /\ Reply("put_policy", 200)
  /\ UNCHANGED <<data, bundles, req>>

PutPolicy(i, s) ==
  /\ s \in Parsable
  /\ policies' = [policies EXCEPT ![i] = s]
  /\ last' = [last EXCEPT ![i] = Direct]
  /\ RebuildEvaluator
  /\ Reply("put_policy", 200)
  /\ UNCHANGED <<data, bundles, req>>

\* A text that does not parse, or a body that is not UTF-8, which nothing catches
RejectPolicy(s) ==
  /\ \/ s \notin Parsable /\ Reply("put_policy", 400)
     \/ Reply("put_policy", 500)
  /\ UNCHANGED <<data, policies, evaluator, bundles, req, last>>

DeletePolicy(i) ==
  \/ /\ policies[i] # NoPolicy
     /\ policies' = [policies EXCEPT ![i] = NoPolicy]
     /\ last' = [last EXCEPT ![i] = Direct]
     /\ RebuildEvaluator
     /\ Reply("delete_policy", 204)
     /\ UNCHANGED <<data, bundles, req>>
  \/ /\ policies[i] = NoPolicy
     /\ Reply("delete_policy", 404)
     /\ UNCHANGED <<data, policies, evaluator, bundles, req, last>>

-----------------------------------------------------------------------------
(* Data.  DiskStorage has neither patch_data nor remove_data: with it every *)
(* handler that writes data ends in an AttributeError.                      *)

Writable == backend = "memory"

ReplaceDocument(d) == data' = d
WriteRoot(r, v) == data' = [data EXCEPT ![r] = v]

WriteFails(op) ==
  /\ ~Writable
  /\ Reply(op, 500)
  /\ UNCHANGED <<data, policies, evaluator, bundles, last>>

\* PUT /v1/data/{path} without If-None-Match: nothing is read before the body.
PutData(r, v) ==
  /\ \/ /\ Writable
        /\ WriteRoot(r, v)
        /\ Reply("put_data", 204)
        /\ UNCHANGED <<policies, evaluator, bundles, last>>
     \/ WriteFails("put_data")
  /\ UNCHANGED req

\* PUT /v1/data: the whole document; with If-None-Match it always exists.
PutDocument(d) ==
  /\ \/ /\ Writable
        /\ ReplaceDocument(d)
        /\ Reply("put_data", 204)
        /\ UNCHANGED <<policies, evaluator, bundles, last>>
     \/ WriteFails("put_data")
  /\ UNCHANGED req

\* PUT with If-None-Match: *, up to the await of the body.
PutDataIfNoneMatch(c, r) ==
  /\ req[c] = Idle
  /\ \/ /\ data[r] # Absent
        /\ Reply("put_data", 304)
        /\ UNCHANGED req
     \/ /\ data[r] = Absent
        /\ req' = [req EXCEPT ![c] = [op |-> "put_data", target |-> r]]
        /\ reply' = NoReply
  /\ UNCHANGED <<data, policies, evaluator, bundles, last>>

\* ... and from the body on.
PutDataBody(c, v) ==
  /\ req[c].op = "put_data"
  /\ \/ /\ Writable
        /\ WriteRoot(req[c].target, v)
        /\ Reply("put_data", 204)
        /\ UNCHANGED <<policies, evaluator, bundles, last>>
     \/ WriteFails("put_data")
  /\ req' = [req EXCEPT ![c] = Idle]

ItemsAt(r) == IF data[r] = Absent THEN {} ELSE data[r]

\* One JSON Patch operation on the object at r; a failing test changes nothing.
PatchData(r, op, x) ==
  /\ \/ /\ Writable
        /\ op = "test" => x \in ItemsAt(r)
        /\ WriteRoot(r, CASE op = "add"    -> ItemsAt(r) \cup {x}
                          [] op = "remove" -> ItemsAt(r) \ {x}
                          [] op = "test"   -> ItemsAt(r))
        /\ Reply("patch_data", 204)
        /\ UNCHANGED <<policies, evaluator, bundles, last>>
     \/ /\ op = "test" /\ x \notin ItemsAt(r)
        /\ Reply("patch_data", 500)
        /\ UNCHANGED <<data, policies, evaluator, bundles, last>>
     \/ WriteFails("patch_data")
  /\ UNCHANGED req

\* A body that is not JSON raises before anything is read or written.
RejectData(op) ==
  /\ Reply(op, 500)
  /\ UNCHANGED <<data, policies, evaluator, bundles, req, last>>

\* ... or after the check of If-None-Match.
RejectDataBody(c) ==
  /\ req[c].op = "put_data"
  /\ Reply("put_data", 500)
  /\ req' = [req EXCEPT ![c] = Idle]
  /\ UNCHANGED <<data, policies, evaluator, bundles, last>>

\* Mutant: a delete of the root stores null for the document.
DeleteStoresNull(rs) ==
  /\ data' = IF rs = Roots THEN Absent ELSE [data EXCEPT ![CHOOSE r \in rs : TRUE] = Absent]
  /\ Reply("delete_data", 204)
  /\ UNCHANGED <<policies, evaluator, bundles, req, last>>

\* DELETE /v1/data/{path}: removing what is not there is no error.
DeleteData(rs) ==
  /\ \/ /\ Writable
        /\ data' = [r \in Roots |-> IF r \in rs THEN Absent ELSE data[r]]
        /\ Reply("delete_data", 204)
        /\ UNCHANGED <<policies, evaluator, bundles, last>>
     \/ WriteFails("delete_data")
  /\ UNCHANGED req

-----------------------------------------------------------------------------
(* Bundles *)

HasData(b) == b.data # EmptyDocument
PathsOf(b) == {p \in Paths : b.policies[p] # NoPolicy}

\* storage.patch_data([], data), skipped for an empty document.
StoreBundleData(b) == IF HasData(b) THEN ReplaceDocument(b.data) ELSE UNCHANGED data

IdsOf(n, paths) == {BundleId(n, p) : p \in paths}

\* One upsert per file under the bundle's ids.
WithBundle(ps, n, b) ==
  [i \in Ids |->
     IF i \in IdsOf(n, PathsOf(b))
     THEN b.policies[CHOOSE p \in PathsOf(b) : i = BundleId(n, p)]
     ELSE ps[i]]

WithoutPaths(ps, n, paths) ==
  [i \in Ids |-> IF i \in IdsOf(n, paths) THEN NoPolicy ELSE ps[i]]

ActivateBundle(n, b) ==
  /\ b.fault = "none"
  /\ HasData(b) => Writable
  /\ StoreBundleData(b)
  /\ policies' = WithBundle(policies, n, b)
  /\ last' = [i \in Ids |-> IF i \in IdsOf(n, PathsOf(b)) THEN n ELSE last[i]]
  /\ RebuildEvaluator
  /\ bundles' = [bundles EXCEPT ![n] = PathsOf(b)]
  /\ Reply("upload_bundle", 200)
  /\ UNCHANGED req

\* Mutant: the policies are stored before the data.
ActivationFailsLate(b) ==
  /\ b.fault = "bad_data" \/ (HasData(b) /\ ~Writable)
  /\ \E n \in BundleNames : policies' = WithBundle(policies, n, b)
  /\ Reply("upload_bundle", 500)
  /\ UNCHANGED <<data, evaluator, bundles, req, last>>

\* The failures of _activate_bundle, in the order of its statements:
\* get_data, patch_data, and get_policies once the data is stored.
ActivationFails(b) ==
  /\ \/ /\ b.fault = "bad_data" \/ (HasData(b) /\ ~Writable)
        /\ UNCHANGED data
     \/ /\ b.fault = "bad_text"
        /\ HasData(b) => Writable
        /\ StoreBundleData(b)
  /\ Reply("upload_bundle", 500)
  /\ UNCHANGED <<policies, evaluator, bundles, req, last>>

\* An empty body, or one that is no archive.
RejectBundle ==
  /\ Reply("upload_bundle", 400)
  /\ UNCHANGED <<data, policies, evaluator, bundles, req, last>>

\* A path that is listed and no longer stored is passed over.
DeletePaths(n) ==
  /\ policies' = WithoutPaths(policies, n, bundles[n])
  /\ last' = [i \in Ids |-> IF i \in IdsOf(n, bundles[n]) /\ policies[i] # NoPolicy THEN n ELSE last[i]]

\* Mutant: the registry entry stays.
DeleteBundlePolicies(n) ==
  /\ bundles[n] # NoBundle
  /\ DeletePaths(n)
  /\ RebuildEvaluator
  /\ Reply("delete_bundle", 204)
  /\ UNCHANGED <<data, bundles, req>>

DeleteBundle(n) ==
  \/ /\ bundles[n] # NoBundle
     /\ DeletePaths(n)
     /\ RebuildEvaluator
     /\ bundles' = [bundles EXCEPT ![n] = NoBundle]
     /\ Reply("delete_bundle", 204)
     /\ UNCHANGED <<data, req>>
  \/ /\ bundles[n] = NoBundle
     /\ Reply("delete_bundle", 404)
     /\ UNCHANGED <<data, policies, evaluator, bundles, req, last>>

-----------------------------------------------------------------------------
(* Decisions *)

\* POST /v1/data/{path}, up to the await of the body: the evaluator is taken.
PostData(c) ==
  /\ req[c] = Idle
  /\ \/ /\ evaluator = NoEvaluator
        /\ Reply("post_data", 500)
        /\ UNCHANGED req
     \/ /\ evaluator # NoEvaluator
        /\ req' = [req EXCEPT ![c] = [op |-> "post_data", evaluator |-> evaluator]]
        /\ reply' = NoReply
  /\ UNCHANGED <<data, policies, evaluator, bundles, last>>

\* ... and from the body on: a decision, a parse error or an evaluation error.
PostDataBody(c, code) ==
  /\ req[c].op = "post_data"
  /\ Reply("post_data", code)
  /\ req' = [req EXCEPT ![c] = Idle]
  /\ UNCHANGED <<data, policies, evaluator, bundles, last>>

\* The client goes away while its handler awaits the body.
Disconnect(c) ==
  /\ req[c] # Idle
  /\ req' = [req EXCEPT ![c] = Idle]
  /\ reply' = NoReply
  /\ UNCHANGED <<data, policies, evaluator, bundles, last>>

\* The process ends and create_app runs again: app.state starts empty, and so
\* does the in-memory storage; the disk storage opens the file it left.
Restart ==
  /\ IF backend = "disk" THEN UNCHANGED <<data, policies>>
     ELSE /\ data' = EmptyDocument
          /\ policies' = [i \in Ids |-> NoPolicy]
  /\ evaluator' = NoEvaluator
  /\ last' = [i \in Ids |-> Nobody]
  /\ bundles' = [n \in BundleNames |-> NoBundle]
  /\ req' = [c \in Clients |-> Idle]
  /\ reply' = NoReply

-----------------------------------------------------------------------------
PolicyStep ==
  \/ \E i \in DirectIds, s \in Sources : PutPolicy(i, s)
  \/ \E s \in Sources : RejectPolicy(s)
  \/ \E i \in DirectIds : DeletePolicy(i)

DataStep ==
  \/ \E r \in Roots, v \in Values : PutData(r, v)
  \/ \E d \in Documents : PutDocument(d)
  \/ \E c \in Clients, r \in Roots : PutDataIfNoneMatch(c, r)
  \/ \E c \in Clients, v \in Values : PutDataBody(c, v)
  \/ \E r \in Roots, op \in {"add", "remove", "test"}, x \in Items : PatchData(r, op, x)
  \/ \E op \in {"put_data", "patch_data"} : RejectData(op)
  \/ \E c \in Clients : RejectDataBody(c)
  \/ \E rs \in {Roots} \cup {{r} : r \in Roots} : DeleteData(rs)

BundleStep ==
  \/ \E n \in BundleNames, b \in Archives : ActivateBundle(n, b)
  \/ \E b \in Archives : ActivationFails(b)
  \/ RejectBundle
  \/ \E n \in BundleNames : DeleteBundle(n)

DecisionStep ==
  \/ \E c \in Clients : PostData(c)
  \/ \E c \in Clients, code \in {200, 400, 500} : PostDataBody(c, code)
  \/ \E c \in Clients : Disconnect(c)

Next ==
  /\ PolicyStep \/ DataStep \/ BundleStep \/ DecisionStep \/ Restart
  /\ UNCHANGED backend

Spec == Init /\ [][Next]_vars

-----------------------------------------------------------------------------
(* Safety *)

\* Whatever handlers ran, and wherever they failed, the evaluator that answers
\* decisions holds exactly the stored policies that parse (the rebuilds of
\* policy.py and bundles.py); and it is missing only as long as no request has
\* changed a policy since the start, although the disk may hold some by then.
EvaluatorCurrent ==
  IF evaluator = NoEvaluator THEN \A i \in Ids : last[i] = Nobody ELSE evaluator = Compiled(policies)

\* A policy accepted by PUT /v1/policies is never one the rebuild silently
\* skips: as long as it is stored, decisions are answered with it.  (Memory
\* backend: with the other a restart keeps the policies and loses the evaluator.)
DirectPoliciesServed ==
  backend = "memory" => \A i \in DirectIds \ BundleIds :
    policies[i] # NoPolicy => /\ evaluator # NoEvaluator
                              /\ evaluator[i] = policies[i]

\* A policy that the registry lists for an active bundle is stored, unless another
\* request has deleted it since the bundle was uploaded: DELETE /v1/policies with its
\* id, or the deletion of a bundle one of whose files has the same id (bundles.py:37).
\* No upload, failure or restart loses it.
ListedPoliciesStored ==
  \A n \in BundleNames :
    bundles[n] # NoBundle =>
      \A p \in bundles[n] :
        policies[BundleId(n, p)] = NoPolicy => last[BundleId(n, p)] \notin {n, Nobody}

\* A request that is refused or fails leaves policies, evaluator and registry
\* as they were; it leaves the data too unless it is a bundle upload, which
\* stores the data before it decodes the policies.
FailedRequestsChangeNothing ==
  [][reply'.code \in {304, 400, 404, 500} =>
       /\ UNCHANGED <<policies, evaluator, bundles>>
       /\ reply'.op # "upload_bundle" => UNCHANGED data]_vars
=============================================================================
