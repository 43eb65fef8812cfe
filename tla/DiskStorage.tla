----------------------------- MODULE DiskStorage -----------------------------
(***************************************************************************)
(* The SQLite backend (storage/disk.py).  A value is a row at its path;    *)
(* all transactions share one connection, so there is one set of rows that *)
(* is not yet committed, whoever wrote it.                                 *)
(***************************************************************************)
EXTENDS Documents

CONSTANTS Changes,         \* storage events
          PolicyIds, Raws, NoPolicy,
          Order,           \* the segments of paths, in the order of the keys
          Fold,            \* a segment without the case of its (ASCII) letters
          Wild,            \* the segments that have a "_", any character for LIKE (none has a "%")
          WildTakes        \* pairs of a path that has one and another path its pattern takes

VARIABLES rows, policies,  \* the two tables as the connection sees them
          saved            \* the two tables as committed

vars == <<rows, policies, saved>>

Init == rows = <<>> /\ policies = [p \in PolicyIds |-> NoPolicy] /\ saved = <<rows, policies>>

Plain(path) == \A i \in DOMAIN path : path[i] \notin Wild

\* A pattern takes letters of either case, and a "_" in it any character, "/" too.
Takes(path, prefix) ==
  \/ DOMAIN path = DOMAIN prefix /\ \A i \in DOMAIN path : Fold[path[i]] = Fold[prefix[i]]
  \/ ~Plain(path) /\ <<path, prefix>> \in WildTakes

\* key LIKE path || '/%'.  The root's pattern "//%" is like no key.
Like(path, key) == path # <<>> /\ \E n \in 1..Len(key) - 1 : Takes(path, SubSeq(key, 1, n))

Precedes(p, q) ==
  \E i \in 0..Len(p) :
    /\ i < Len(q) /\ SubSeq(p, 1, i) = SubSeq(q, 1, i)
    /\ i = Len(p) \/ (CHOOSE n \in DOMAIN Order : Order[n] = p[i + 1]) < (CHOOSE n \in DOMAIN Order : Order[n] = q[i + 1])

TypeError == <<"TypeError">>

\* The value below a path of the tree; a row above it may hold no object.
Graft(tree, path, v) ==
  IF \E i \in DOMAIN path : ~IsTree(Above(tree, path)[i - 1]) THEN TypeError ELSE Grown(tree, path, v)

\* What is left of a key behind as many characters as the path has
Rest(path, key) ==
  IF path = <<>> \/ key = path THEN SubSeq(key, Len(path) + 1, Len(key))
  ELSE SubSeq(key, (CHOOSE n \in 1..Len(key) - 1 : Takes(path, SubSeq(key, 1, n))) + 1, Len(key))

BuildTree(r, path) ==
  FoldLeft(LAMBDA tree, key : Graft(tree, Rest(path, key), r[key]),
           Empty, SetToSortSeq(DOMAIN r, Precedes))

Below(r, path) == {key \in DOMAIN r : path = <<>> \/ Like(path, key)}
Rows(r, keys) == [key \in keys |-> r[key]]

\* Keys that LIKE takes to be below the path and that come before it
Mistaken(r, path) == {key \in Below(r, path) : ~IsPrefix(path, key) /\ Precedes(key, path)}

\* A row at the path itself hides the rows below it, which come after it; on those that come
\* before it the tree may break.
ReadRows(r, path) ==
  IF path \in DOMAIN r
  THEN IF path # <<>> /\ Mistaken(r, path) # {} /\ BuildTree(Rows(r, Mistaken(r, path)), path) = TypeError
       THEN TypeError ELSE r[path]
  ELSE IF path # <<>> /\ Below(r, path) = {} THEN NotFound
  ELSE BuildTree(Rows(r, Below(r, path)), path)

\* Mutant: without the slash in its pattern the removal takes "/ab" to be below "/a".
RemovedPrefix(r, path) ==
  [key \in {k \in DOMAIN r : k # path /\ ~Like(path, k) /\ ~(path = <<"a">> /\ k = <<"ab">>)} |-> r[key]]

Removed(r, path) == [key \in {k \in DOMAIN r : k # path /\ ~Like(path, k)} |-> r[key]]
Stored(r, path, v) == [key \in DOMAIN r \cup {path} |-> IF key = path THEN v ELSE r[key]]
Written(r, e) == IF e.op = "remove" THEN Removed(r, e.path) ELSE Stored(r, e.path, e.value)

\* Any transaction, whatever its mode
Write(e) == rows' = Written(rows, e) /\ UNCHANGED <<policies, saved>>
Commit == saved' = <<rows, policies>> /\ UNCHANGED <<rows, policies>>
Abort == rows' = saved[1] /\ policies' = saved[2] /\ UNCHANGED saved

\* A change of a policy commits what every transaction has written so far.
UpsertPolicy(id, raw) ==
  /\ policies' = [policies EXCEPT ![id] = raw]
  /\ saved' = <<rows, policies'>>
  /\ UNCHANGED rows

\* Mutant: the deletion is left to the next commit.
DeletePolicyUncommitted(id) ==
  /\ policies[id] # NoPolicy
  /\ policies' = [policies EXCEPT ![id] = NoPolicy]
  /\ UNCHANGED <<rows, saved>>

DeletePolicy(id) ==
  /\ policies[id] # NoPolicy
  /\ policies' = [policies EXCEPT ![id] = NoPolicy]
  /\ saved' = <<rows, policies'>>
  /\ UNCHANGED rows

\* The process ends and another opens the file.
Restart == Abort

Next ==
  \/ \E e \in Changes : Write(e)
  \/ Commit \/ Abort \/ Restart
  \/ \E id \in PolicyIds : DeletePolicy(id) \/ \E raw \in Raws : UpsertPolicy(id, raw)

Spec == Init /\ [][Next]_vars
=============================================================================
