-------------------------------- MODULE MCSdk --------------------------------
EXTENDS Sdk

\* The segments the bundles use, in the order of their names
MCSegments == <<"..", ".manifest", "a", "a..b.rego", "a.rego", "b", "b.rego", "data", "data.json", "delta.json",
                "manifest">>
Rank(segment) == CHOOSE i \in DOMAIN MCSegments : MCSegments[i] = segment
MCInPathOrder(p, q) ==
  \/ IsStrictPrefix(p, q)
  \/ \E i \in DOMAIN p \cap DOMAIN q :
       /\ Rank(p[i]) < Rank(q[i]) /\ \A j \in 1..i-1 : p[j] = q[j]
MCUndotted(segment) ==
  CASE segment \in {".", ".."} -> "" [] segment = ".manifest" -> "manifest" [] OTHER -> segment

One == <<"number", 1>>
Two == <<"number", 2>>
Good == <<"text", "good">>
Bad == <<"text", "bad">>
MCTexts == {Good, Bad}
MCBadTexts == {Bad}
MCModules == {{k \in Keys : k # j} : j \in Keys}

APath == <<"a.rego">>
TwoDots == <<"a..b.rego">>
BPath == <<"a", "b.rego">>
MCIds == {APath, TwoDots}

Add(p, v) == [op |-> "add", path |-> p, value |-> v]
Delete(p) == [op |-> "remove", path |-> p, value |-> <<"null">>]
MCDataChanges == {Add(<<"a">>, One), Add(<<"b">>, Two), Add(<<>>, Tree("b" :> One))}

Root == File(<<"data.json">>, Tree("b" :> Two))
RootA == File(<<"data.json">>, Tree("a" :> One))
InA == File(<<"a", "data.json">>, Tree("a" :> One))
InAB == File(<<"a", "b", "data.json">>, Tree("b" :> Two))
ListB == File(<<"b", "data.json">>, <<"array", <<One>>>>)
NoneInB == File(<<"b", "data", "data.json">>, Empty)
Members1 == {Root, InA, InAB, ListB, NoneInB, RootA, File(APath, Good), File(BPath, Bad)}
Archive(files) == {s \in [1..Cardinality(files) -> files] : Range(s) = files}
MCTrees ==
  {files \in SUBSET Members1 :
     /\ Cardinality(files) \in 1..2 \/ (Cardinality(files) = 3 /\ \A f \in files : IsData(f))
     /\ \A f, g \in files : f.path = g.path => f = g}
Hidden == <<File(TwoDots, Good), File(<<".manifest">>, DefaultManifest), File(<<"..", "a.rego">>, Good), File(<<"a", "..", "b.rego">>, Good)>>
MCArchives == UNION {Archive(files) : files \in MCTrees} \cup {Hidden}

Patches ==
  {Patch("add", "data", <<"a">>, One), Patch("replace", "data", <<"a", "b">>, Two), Patch("remove", "data", <<"a">>, One),
   Patch("add", "policy", APath, Good), Patch("add", "policy", APath, One), Patch("remove", "policy", APath, One)}
Unknown == {Patch("test", "data", <<"a">>, One), Patch("test", "policy", APath, Good)}
DeltaFile(ps) == File(<<"delta.json">>, ps)
MCDeltas ==
  {<<DeltaFile(ps)>> : ps \in {<<>>} \cup {<<p>> : p \in Patches \cup Unknown} \cup [1..2 -> Patches]}
  \cup {<<DeltaFile(<<Patch("add", "data", <<"a">>, One)>>)>> \o rest :
          rest \in {<<Root, File(BPath, Good)>>, <<RootA>>, <<RootA, InAB>>}}
=============================================================================
