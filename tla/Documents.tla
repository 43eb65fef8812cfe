------------------------------ MODULE Documents ------------------------------
(***************************************************************************)
(* The documents of the in-memory storage (storage/inmemory.py): trees of  *)
(* <<"object", function>>, <<"array", sequence>> and other values, and     *)
(* paths into them, as sequences of strings.                               *)
(***************************************************************************)
EXTENDS Integers, Sequences, SequencesExt, TLC

NotFound == <<"not found">>
Tree(f) == <<"object", f>>
Empty == Tree(<<>>)
IsTree(v) == v[1] = "object"
KidsOf(v) == IF IsTree(v) THEN v[2] ELSE <<>>

\* int(segment) of the segments that are numbers
Index == [s \in {"0", "1"} |-> IF s = "0" THEN 1 ELSE 2]

Step(v, segment) ==
  IF IsTree(v) /\ segment \in DOMAIN v[2] THEN v[2][segment]
  ELSE IF v[1] = "array" /\ segment \in DOMAIN Index /\ Index[segment] \in DOMAIN v[2]
  THEN v[2][Index[segment]] ELSE NotFound

\* What a walk along the path has come to after each segment
Walked(doc, path) ==
  LET at[n \in 0..Len(path)] == IF n = 0 THEN doc ELSE Step(at[n - 1], path[n])
  IN at

WalkTo(doc, path) == Walked(doc, path)[Len(path)]
PathExists(doc, path) == WalkTo(doc, path) # NotFound

\* The values that a write passes: what is not there is taken for an empty object.
KidAt(v, segment) == IF segment \in DOMAIN KidsOf(v) THEN KidsOf(v)[segment] ELSE Empty
Above(doc, path) ==
  LET at[n \in 0..Len(path)] == IF n = 0 THEN doc ELSE KidAt(at[n - 1], path[n])
  IN at

\* The document with v at the path, built from there up; what is not an object on the way
\* is replaced by one.
With(v, segment, kid) ==
  Tree([k \in DOMAIN KidsOf(v) \cup {segment} |-> IF k = segment THEN kid ELSE KidsOf(v)[k]])
Raised(above, path, v) ==
  LET up[n \in 0..Len(path)] ==
        IF n = 0 THEN v ELSE With(above[Len(path) - n], path[Len(path) - n + 1], up[n - 1])
  IN up
Grown(doc, path, v) == Raised(Above(doc, path), path, v)[Len(path)]

\* The whole document is replaced by an object only, and emptied by anything else.
Put(doc, path, v) == IF path = <<>> THEN Tree(KidsOf(v)) ELSE Grown(doc, path, v)

Without(v, segment) == Tree([k \in DOMAIN KidsOf(v) \ {segment} |-> KidsOf(v)[k]])
Cut(doc, path) ==
  IF path = <<>> THEN Empty
  ELSE IF \E i \in DOMAIN path : path[i] \notin DOMAIN KidsOf(Above(doc, path)[i - 1]) THEN doc
  ELSE Grown(doc, Front(path), Without(Above(doc, path)[Len(path) - 1], Last(path)))

\* The change that a storage event describes
Changed(doc, event) == IF event.op = "remove" THEN Cut(doc, event.path) ELSE Put(doc, event.path, event.value)

-----------------------------------------------------------------------------
\* Paths of which neither leads to the other
Apart(p, q) == \E i \in DOMAIN p \cap DOMAIN q : p[i] # q[i]

\* The paths of lists' items: a change replaces the list by an object, a removal leaves it.
ThroughList(doc, path) == \E i \in DOMAIN path : Walked(doc, path)[i - 1][1] = "array"
=============================================================================
