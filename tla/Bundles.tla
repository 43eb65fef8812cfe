------------------------------- MODULE Bundles -------------------------------
(***************************************************************************)
(* Bundles (bundle/bundle.py): what a .tar.gz archive or a directory of    *)
(* files holds, how their data files merge into one document, and how a    *)
(* delta bundle changes a store and a set of policies.  A file is a path,  *)
(* the sequence of its segments, and a content: a source, a document, a    *)
(* manifest, or the patches of a delta bundle.                             *)
(***************************************************************************)
EXTENDS Documents

CONSTANTS RegoNames,       \* names that end in .rego
          Undotted(_),     \* a segment without the dots it begins with
          TwoDotted,       \* segments with two dots in a row somewhere, ".." and "a..b.rego" too
          InPathOrder(_, _) \* whether the path of one file sorts before another's

DataNames == {"data.json", "data.yaml", "data.yml"}
Dir(f) == Front(f.path)
IsRego(f) == Last(f.path) \in RegoNames
IsData(f) == Last(f.path) \in DataNames

File(path, content) == [path |-> path, content |-> content]
DefaultManifest == [revision |-> "", roots |-> <<"">>, delta |-> FALSE]
Bundle(files, manifest, signature) == [files |-> files, manifest |-> manifest, signature |-> signature]
NoSignature == "no signature"

\* Those of the files that are among some, in the files' order
Chosen(files, some) ==
  LET at[n \in 0..Len(files)] ==
        IF n = 0 THEN <<>>
        ELSE IF files[n] \in some THEN Append(at[n - 1], files[n]) ELSE at[n - 1]
  IN at[Len(files)]

\* The files in the order of their paths
Sorted(files) ==
  CHOOSE s \in [1..Cardinality(files) -> files] :
    Range(s) = files /\ \A i, j \in DOMAIN s : i < j => InPathOrder(s[i].path, s[j].path)

GetPolicies(files) ==
  LET rego == {f \in Range(files) : IsRego(f)}
  IN [p \in {f.path : f \in rego} |-> (CHOOSE f \in rego : f.path = p).content]

-----------------------------------------------------------------------------
\* The merge of a document on the way to which something is not an object raises.
Failed == <<"raised">>

OnTheWay(doc, dir) == {WalkTo(doc, SubSeq(dir, 1, i)) : i \in 1..Len(dir)}

\* The members a file gives its directory: those of an object, anything else goes under the
\* stem of the file's name.
Given(f) == IF IsTree(f.content) THEN KidsOf(f.content) ELSE [k \in {"data"} |-> f.content]

Updated(old, more) ==
  [k \in DOMAIN old \cup DOMAIN more |-> IF k \in DOMAIN more THEN more[k] ELSE old[k]]

\* Mutant: the file's members replace what other files have put into the directory.
PlaceInstead(doc, f) ==
  IF doc = Failed \/ \E v \in OnTheWay(doc, Dir(f)) : v # NotFound /\ ~IsTree(v) THEN Failed
  ELSE Put(doc, Dir(f), Tree(Given(f)))

Place(doc, f) ==
  IF doc = Failed \/ \E v \in OnTheWay(doc, Dir(f)) : v # NotFound /\ ~IsTree(v) THEN Failed
  ELSE Put(doc, Dir(f), Tree(Updated(KidsOf(WalkTo(doc, Dir(f))), Given(f))))

\* The document after each data file
Merged(files) ==
  LET at[n \in 0..Len(files)] == IF n = 0 THEN Empty ELSE Place(at[n - 1], files[n])
  IN at
DataFiles(files) == Chosen(files, {f \in Range(files) : IsData(f)})
GetData(files) == Merged(DataFiles(files))[Len(DataFiles(files))]

-----------------------------------------------------------------------------
\* name.lstrip("./"): the leading segments that are dots go, and so do the dots that the
\* first other segment begins with, those of .manifest and .signatures.json too.
Stripped(path) ==
  LET dots == {i \in 1..Len(path) : \A j \in 1..i : Undotted(path[j]) = ""}
      rest == SubSeq(path, Cardinality(dots) + 1, Len(path))
  IN IF rest = <<>> THEN rest ELSE <<Undotted(rest[1])>> \o Tail(rest)

\* Whether ".." occurs in the path, as a segment or inside one
Climbs(path) == Range(path) \cap TwoDotted # {}

LoadFromBytes(members) ==
  LET named == [i \in DOMAIN members |-> File(Stripped(members[i].path), members[i].content)]
      Kept(f) == ~Climbs(f.path)
      Plain(f) == Kept(f) /\ f.path \notin {<<".manifest">>, <<".signatures.json">>}
      The(name) == {f.content : f \in {g \in Range(named) : g.path = <<name>>}}
      Only(set, other) == IF set = {} THEN other ELSE CHOOSE x \in set : TRUE
  IN Bundle(Chosen(named, {f \in Range(named) : Plain(f)}), Only(The(".manifest"), DefaultManifest),
            Only(The(".signatures.json"), NoSignature))

\* The files in the order of their paths; no signature is looked for.
LoadFromDir(tree) ==
  LET Plain(f) == ~Climbs(f.path) /\ f.path # <<".manifest">>
      manifests == {f \in tree : f.path = <<".manifest">>}
  IN Bundle(Sorted({f \in tree : Plain(f)}),
            IF manifests = {} THEN DefaultManifest ELSE (CHOOSE f \in manifests : TRUE).content, NoSignature)

\* Mutant: the data go into the directory that a load reads as a member of the document.
BuildBelowData(policies, data, manifest) ==
  <<File(<<".manifest">>, manifest)>>
  \o Sorted({File(p, policies[p]) : p \in DOMAIN policies})
  \o <<File(<<"data", "data.json">>, data)>>

\* build_bundle: the manifest, the policies by path, and the data unless there are none
Build(policies, data, manifest) ==
  <<File(<<".manifest">>, manifest)>>
  \o Sorted({File(p, policies[p]) : p \in DOMAIN policies})
  \o (IF KidsOf(data) = <<>> THEN <<>> ELSE <<File(<<"data.json">>, data)>>)

-----------------------------------------------------------------------------
\* A delta bundle: patches first, then its own files.
Patch(op, ns, path, value) == [op |-> op, ns |-> ns, path |-> path, value |-> value]

\* What a patch is about; an operation that is not known is skipped.
Scope(p) == IF p.op \in {"add", "replace", "remove"} THEN p.ns ELSE "nothing"

IsDelta(f) == Last(f.path) = "delta.json"
PatchesOf(files) == LET found == SelectSeq(files, IsDelta) IN IF found = <<>> THEN <<>> ELSE found[1].content

\* Mutant: a removal is a write of null.
PatchDataNull(doc, p) ==
  IF Scope(p) # "data" THEN doc ELSE Put(doc, p.path, IF p.op = "remove" THEN <<"null">> ELSE p.value)

PatchData(doc, p) == IF Scope(p) # "data" THEN doc ELSE Changed(doc, p)

\* A policy's path is everything behind the namespace; a value that is no text is skipped.
PatchPolicies(policies, p) ==
  IF Scope(p) # "policy" THEN policies
  ELSE IF p.op = "remove" THEN [q \in DOMAIN policies \ {p.path} |-> policies[q]]
  ELSE IF p.value[1] # "text" THEN policies
  ELSE Updated(policies, [q \in {p.path} |-> p.value])

\* The document and the policies after each patch
Patched(doc, policies, patches) ==
  LET at[n \in 0..Len(patches)] ==
        IF n = 0 THEN [data |-> doc, policies |-> policies]
        ELSE [data |-> PatchData(at[n - 1].data, patches[n]),
              policies |-> PatchPolicies(at[n - 1].policies, patches[n])]
  IN at

\* The store keeps the patches when the delta's own data do not merge, and its data files
\* replace the whole document when they do.
ApplyDelta(files, doc, policies) ==
  LET patches == PatchesOf(files)
      patched == Patched(doc, policies, patches)[Len(patches)]
      data == GetData(files)
  IN [failed |-> data = Failed,
      data |-> IF data = Failed \/ KidsOf(data) = <<>> THEN patched.data ELSE data,
      policies |-> IF data = Failed THEN policies ELSE Updated(patched.policies, GetPolicies(files))]
=============================================================================
