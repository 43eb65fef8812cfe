------------------------------ MODULE MCStorage ------------------------------
EXTENDS Storage

\* "_" is like "a" and "a_0" like "a/0"; "A" differs from "a" in case only.
MCOrder == <<"0", "A", "_", "a", "a_0", "ab">>
MCFold == [s \in {"0", "A", "_", "a", "a_0", "ab"} |-> IF s = "A" THEN "a" ELSE s]
MCWild == {"_", "a_0"}
MCWildTakes == {<<<<"_">>, <<"a">>>>, <<<<"_">>, <<"A">>>>, <<<<"_">>, <<"0">>>>, <<<<"a_0">>, <<"a", "0">>>>,
                <<<<"a_0">>, <<"A", "0">>>>}

Interchangeable == Permutations(Refs) \cup Permutations(Txns)

One == <<"number", 1>>
List == <<"array", <<One>>>>
Add(p, v) == [op |-> "add", path |-> p, value |-> v]
Delete(p) == [op |-> "remove", path |-> p, value |-> <<"null">>]

MCMemoryChanges ==
  {Add(<<"a">>, One), Add(<<"a">>, List), Add(<<"a", "0">>, One), Add(<<>>, Tree("ab" :> One)),
   Delete(<<"a">>), Delete(<<"a", "0">>), Delete(<<"ab">>), Delete(<<>>)}

MCDiskPaths == {<<"a">>, <<"ab">>, <<"a", "0">>, <<"A", "0">>, <<"A", "0", "a">>, <<"a_0">>}
MCDiskChanges ==
  {Add(p, One) : p \in MCDiskPaths} \cup {Delete(p) : p \in MCDiskPaths}
  \cup {Add(<<>>, Tree("a" :> One)), Delete(<<"_">>), Delete(<<>>)}
=============================================================================
