--------------------------------- MODULE Sdk ---------------------------------
(***************************************************************************)
(* The embeddable engine (sdk/sdk.py): texts of policies that are compiled *)
(* together after every change, a data document, bundles loaded from an    *)
(* archive or a directory; an application that applies delta bundles       *)
(* (apply_delta_bundle) and tells the SDK; and the SDK's query cache,      *)
(* which no evaluation consults, explored with the rest at rest.           *)
(***************************************************************************)
EXTENDS Bundles

CONSTANTS Ids, Texts, BadTexts,    \* policies' paths, their sources, and those that do not parse
          DataChanges,             \* calls of load_data and set_data
          Archives, Trees,         \* files of bundles, in an archive's order and in directories
          Deltas,                  \* files of delta bundles
          Keys, Values, Modules, MaxSize, Ttl, MaxClock

\* A cache with room, and whole numbers of time
ASSUME CacheAssumption ==
  /\ MaxSize \in Nat \ {0} /\ Ttl \in Nat /\ \A keys \in Modules : keys \subseteq Keys

\* Names of policies and of other files differ, and the dots of ".manifest" are stripped.
ASSUME NamesAssumption ==
  /\ RegoNames \cap (DataNames \cup {".manifest", "manifest", ".signatures.json"}) = {}
  /\ Undotted(".manifest") = "manifest" /\ Undotted("data.json") = "data.json"
  /\ ".." \in TwoDotted /\ TwoDotted \cap {"manifest", "data.json"} = {}

Files == (UNION {Range(files) : files \in Archives \cup Deltas}) \cup (UNION Trees)
PathsOf(fs) == {f.path : f \in fs}
FilePaths == PathsOf(Files) \cup {Stripped(p) : p \in PathsOf(UNION {Range(files) : files \in Archives})}
PolicyPaths == Ids \cup FilePaths \cup UNION {PathsOf(Range(PatchesOf(files))) : files \in Deltas}

\* An object is a function of its members' names.
IsFunction(f) == f = [x \in DOMAIN f |-> f[x]]

\* No two files of a bundle have one path.
ASSUME FilesAssumption ==
  /\ \A files \in Archives \cup Deltas :
       /\ Len(files) \in Nat /\ DOMAIN files = 1..Len(files)
       /\ \A i, j \in DOMAIN files : files[i].path = files[j].path => i = j
  /\ \A tree \in Trees : IsFiniteSet(tree) /\ \A f, g \in tree : f.path = g.path => f = g
  /\ \A f \in Files : f = File(f.path, f.content)
  /\ \A f \in Files : IsData(f) => IsFunction(Given(f)) /\ DOMAIN Given(f) \subseteq STRING

\* A file's name is more than dots, and the order of the paths of files and policies is total.
ASSUME PathsAssumption ==
  /\ \A p \in FilePaths : p \in Seq(STRING) /\ p # <<>>
  /\ \A p, q \in PolicyPaths :
       /\ p # q => InPathOrder(p, q) \/ InPathOrder(q, p)
       /\ ~(InPathOrder(p, q) /\ InPathOrder(q, p))
       /\ \A r \in PolicyPaths : InPathOrder(p, q) /\ InPathOrder(q, r) => InPathOrder(p, r)

\* The patches of a delta are a list, and the paths of changes are lists of strings.
ASSUME DeltasAssumption ==
  /\ \A files \in Deltas :
       /\ Len(PatchesOf(files)) \in Nat /\ DOMAIN PatchesOf(files) = 1..Len(PatchesOf(files))
       /\ \A i \in DOMAIN PatchesOf(files) :
            PatchesOf(files)[i].path \in Seq(STRING) /\ IsFunction(KidsOf(PatchesOf(files)[i].value))
  /\ \A e \in DataChanges : e.path \in Seq(STRING) /\ IsFunction(KidsOf(e.value))

VARIABLES part,            \* the part that is explored
          modules,         \* NPA._modules
          evaluator,       \* the texts the evaluator was built from, or none
          data,            \* the storage's document
          outcome,         \* of the last call that rebuilds: ok or failed
          clock, store, order, put, last_use, answer   \* the cache

Cache == INSTANCE QueryCache
cacheVars == <<clock, store, order, put, last_use, answer>>
engineVars == <<modules, evaluator, data, outcome>>
vars == <<part, engineVars, cacheVars>>

NoEvaluator == <<"no evaluator">> :> <<"none">>

Init ==
  /\ part \in {"engine", "cache"} /\ Cache!Init
  /\ modules = <<>> /\ evaluator = NoEvaluator /\ data = Empty /\ outcome = "ok"

\* Mutant: a text that does not parse is skipped.
RebuiltWithout(texts) ==
  LET good == {id \in DOMAIN texts : texts[id] \notin BadTexts}
  IN [ok |-> TRUE, evaluator |-> [id \in good |-> texts[id]]]

\* The parsing of any text may raise; compile keeps what it is given.
Rebuilt(texts) ==
  IF Range(texts) \cap BadTexts # {} THEN [ok |-> FALSE, evaluator |-> evaluator]
  ELSE [ok |-> TRUE, evaluator |-> texts]

\* The texts stay whether or not the rebuild succeeds.
Rebuild(texts) ==
  /\ modules' = texts /\ evaluator' = Rebuilt(texts).evaluator
  /\ outcome' = IF Rebuilt(texts).ok THEN "ok" ELSE "failed"

\* load_policy and load_policies
LoadPolicies(policies) == Rebuild(Updated(modules, policies)) /\ UNCHANGED data

RemovePolicy(id) == Rebuild([q \in DOMAIN modules \ {id} |-> modules[q]]) /\ UNCHANGED data

\* load_data and set_data
LoadData(e) == data' = Changed(data, e) /\ UNCHANGED <<modules, evaluator, outcome>>

\* The policies are kept before the data are merged, and the data before the texts parse.
LoadBundle(bundle) ==
  LET texts == Updated(modules, GetPolicies(bundle.files))
      merged == GetData(bundle.files)
  IN IF merged = Failed
     THEN modules' = texts /\ outcome' = "failed" /\ UNCHANGED <<evaluator, data>>
     ELSE Rebuild(texts) /\ data' = IF KidsOf(merged) = <<>> THEN data ELSE merged

LoadBundleFromFile(members) == LoadBundle(LoadFromBytes(members))
LoadBundleFromDir(tree) == LoadBundle(LoadFromDir(tree))

\* The application's own step: it changes the SDK's storage, and loads the policies that
\* come back.
ApplyDeltaBundle(files) ==
  LET result == ApplyDelta(files, data, modules)
  IN /\ data' = result.data
     /\ IF result.failed THEN UNCHANGED <<modules, evaluator, outcome>>
        ELSE Rebuild(Updated(modules, result.policies))

EngineNext ==
  \/ \E id \in Ids : RemovePolicy(id) \/ \E text \in Texts : LoadPolicies([p \in {id} |-> text])
  \/ \E e \in DataChanges : LoadData(e)
  \/ \E members \in Archives : LoadBundleFromFile(members)
  \/ \E tree \in Trees : LoadBundleFromDir(tree)
  \/ \E files \in Deltas : ApplyDeltaBundle(files)

Next ==
  \/ part = "engine" /\ EngineNext /\ UNCHANGED <<part, cacheVars>>
  \/ part = "cache" /\ Cache!Next /\ UNCHANGED <<part, engineVars>>

Spec == Init /\ [][Next]_vars

-----------------------------------------------------------------------------
\* Queries are never answered by some of the policies: the evaluator changes only to one
\* of every text the SDK then holds, so that a bad text keeps the last good set (_rebuild),
\* and after a call that returns it is that one, whatever earlier calls that failed have
\* left behind (load_policy, remove_policy, load_bundle).
EvaluatorWhole ==
  [][/\ evaluator' # evaluator => evaluator' = modules' /\ Range(modules') \cap BadTexts = {}
     /\ outcome' = "ok" => modules' = <<>> \/ evaluator' = modules']_vars

\* Whether the data files of two bundles touch different members of the document
Members(f) ==
  IF DOMAIN Given(f) = {} THEN {Dir(f)} \ {<<>>} ELSE {Append(Dir(f), k) : k \in DOMAIN Given(f)}
Related(p, q) == IsPrefix(p, q) \/ IsPrefix(q, p)
DataApart(files) ==
  \A f, g \in {h \in files : IsData(h)} : f # g =>
    \A p \in Members(f), q \in Members(g) : ~Related(p, q)

\* Loaded into a fresh engine, an archive and a directory of the same files give the same
\* policies and document, whatever the order of the archive's members, when no two data
\* files give a value to the same member or to one inside the other's (get_data,
\* load_bundle_from_bytes, load_bundle_from_dir).
LoadersAgree ==
  part = "engine" /\ modules = <<>> /\ data = Empty =>
    \A members \in Archives :
      DataApart(Range(members)) /\ (\A f \in Range(members) : Stripped(f.path) = f.path) =>
        LET archive == LoadFromBytes(members).files
            directory == LoadFromDir(Range(members)).files
        IN /\ GetPolicies(archive) = GetPolicies(directory)
           /\ GetData(archive) = GetData(directory)

\* What build_bundle packs is what a load gives back: the document, and the policies, when
\* their paths end in .rego, begin with no dot and have no two dots in a row.
BuildRoundTrip ==
  (\A p \in DOMAIN modules : Stripped(p) = p /\ ~Climbs(p) /\ Last(p) \in RegoNames) =>
    LET files == LoadFromBytes(Build(modules, data, DefaultManifest)).files
    IN GetPolicies(files) = modules /\ GetData(files) = data

\* The patches of one namespace: the last about a path says what is there in the end, and
\* what no patch is about stays.
DataPatchesInOrder(files) ==
  LET patches == PatchesOf(files)
      after == ApplyDelta(files, data, modules).data
      On(i) == Scope(patches[i]) = "data"
      Final(i) == \A j \in i+1..Len(patches) : On(j) => ~Related(patches[i].path, patches[j].path)
  IN (\A i \in DOMAIN patches :
        On(i) => ~ThroughList(Patched(data, modules, patches)[i - 1].data, patches[i].path)) =>
     /\ \A i \in DOMAIN patches : On(i) /\ Final(i) /\ patches[i].path # <<>> =>
          WalkTo(after, patches[i].path) =
            IF patches[i].op = "remove" THEN NotFound ELSE patches[i].value
     /\ \A e \in DataChanges :
          (\A i \in DOMAIN patches : On(i) => ~Related(patches[i].path, e.path)) =>
            WalkTo(after, e.path) = WalkTo(data, e.path)

PolicyPatchesInOrder(files) ==
  LET patches == PatchesOf(files)
      after == ApplyDelta(files, data, modules).policies
      own == DOMAIN GetPolicies(files)
      About(i, p) == Scope(patches[i]) = "policy" /\ patches[i].path = p
      Final(i, p) == About(i, p) /\ \A j \in i+1..Len(patches) : ~About(j, p)
  IN /\ \A i \in DOMAIN patches : \A p \in {patches[i].path} \ own : Final(i, p) =>
          /\ patches[i].op = "remove" => p \notin DOMAIN after
          /\ patches[i].op # "remove" /\ patches[i].value[1] = "text" =>
               p \in DOMAIN after /\ after[p] = patches[i].value
     /\ \A p \in Ids \ own : (\A i \in DOMAIN patches : ~About(i, p)) =>
          /\ p \in DOMAIN after <=> p \in DOMAIN modules
          /\ p \in DOMAIN after => after[p] = modules[p]

\* After a delta without data files, what the last patch of a path says is in force there
\* unless a later one changed something above or below it, and what no patch is about is as
\* it was; the policies among the delta's own files come last (apply_delta_bundle).
DeltaPatchesInOrder ==
  \A files \in Deltas : DataFiles(files) = <<>> =>
    DataPatchesInOrder(files) /\ PolicyPatchesInOrder(files)

\* A hit of the query cache is the value put last, not invalidated and not expired.
AnswersLastPut == Cache!AnswersLastPut
\* A full query cache gives up the entry that was used least recently.
EvictsLeastRecent == Cache!EvictsLeastRecent
=============================================================================
