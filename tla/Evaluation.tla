------------------------------ MODULE Evaluation ------------------------------
(***************************************************************************)
(* What the evaluator answers, compared with what the policies mean, and   *)
(* the algorithms under it compared with their definitions.  A subject is  *)
(* loaded: policies, a pair of terms, a JSON value or a graph; policies    *)
(* are then compiled and asked for data.a.p, in full or in part.           *)
(***************************************************************************)
EXTENDS Meaning, PartialEval

CONSTANTS Policies,        \* sets of modules, as sequences
          Documents,       \* base documents
          Inputs,          \* inputs of a query
          Terms,           \* values with variables, to unify and to match
          Values,          \* ground values
          Paths,           \* sequences of paths into an object
          Graphs           \* adjacency maps

VARIABLES subject,         \* what is loaded
          answer           \* the answer of the evaluator, with the input it got

evaluationVars == <<subject, answer>>

Nothing == [kind |-> "nothing"]
Asked == <<"a", "p">>
Unknowns == {<<"input">>}

EvaluationInit == subject = Nothing /\ answer = Nothing

LoadPolicies ==
  /\ subject = Nothing
  /\ \E ms \in Policies, doc \in Documents :
       subject' = [kind |-> "policies", rules |-> RuleTree(ms), doc |-> doc]
  /\ UNCHANGED answer

LoadTerms ==
  /\ subject = Nothing
  /\ \E s, t \in Terms : subject' = [kind |-> "terms", left |-> s, right |-> t]
  /\ UNCHANGED answer

LoadObject ==
  /\ subject = Nothing
  /\ \E v \in Values : Kind(v) = "object" /\ subject' = [kind |-> "object", value |-> v]
  /\ UNCHANGED answer

LoadGraph ==
  /\ subject = Nothing
  /\ \E g \in Graphs : subject' = [kind |-> "graph", edges |-> g]
  /\ UNCHANGED answer

\* GET and POST /v1/data and /v1/query
Query ==
  /\ subject.kind = "policies" /\ answer = Nothing
  /\ \E i \in Inputs :
       answer' = [kind |-> "value", input |-> i, value |-> EvalQuery(Context(subject.rules, subject.doc, i), Asked)]
  /\ UNCHANGED subject

\* POST /v1/compile with unknowns
CompileQuery ==
  /\ subject.kind = "policies" /\ answer = Nothing
  /\ answer' = [kind |-> "partial", value |-> PartialQuery(Context(subject.rules, subject.doc, Null), Asked, Unknowns)]
  /\ UNCHANGED subject

EvaluationNext == LoadPolicies \/ LoadTerms \/ LoadObject \/ LoadGraph \/ Query \/ CompileQuery

-----------------------------------------------------------------------------
World(i, faults) ==
  [rules |-> subject.rules, doc |-> subject.doc, input |-> i, faults |-> faults, mean |-> Meanings]
Here(i) == World(i, {"undefined negation", "index under with"})
Meant(i) == Value(Here(i), Asked)

\* Rules that disagree mean nothing; of the members that partial rules describe one per rule
\* is enough.
Answers(v, meant) ==
  \/ meant = Conflict
  \/ v = meant
  \/ Kind(v) = "set" /\ Kind(meant) = "set" /\ v[2] \subseteq meant[2]

\* An answer to a query is what the policies mean as this evaluator reads them: the value
\* its complete rules agree on, or no value but members of the set that its partial rules
\* describe.  The order of the body, the cache and the bindings of the callers make no
\* difference, and neither does the index but for a guard under a with-modifier.
EvaluationMeans == answer.kind = "value" => Answers(answer.value, Meant(answer.input))

\* Documentation/Rego_Sprachreferenz.md denies with "not input.authenticated" and finds the
\* users without an address with "not user.email": a negation holds of what is undefined.
NegationOfUndefined ==
  answer.kind = "value" =>
    Answers(answer.value, Value(World(answer.input, {"index under with"}), Asked))

\* Documentation/Rego_Sprachreferenz.md: a rule with contains "describes the set of" its
\* values, with an example that iterates over users; so does topdown.py ("collect all
\* values into a set").
PartialSetComplete ==
  answer.kind = "value" =>
    LET meant == Meant(answer.input)
    IN Kind(meant) = "set" => answer.value = meant

-----------------------------------------------------------------------------
\* Holds of a residual under the now known input i.
StillHolds(i, r) ==
  FoldLeft(LAMBDA envs, x : UNION {Satisfy(Here(i), Front(Asked), x.env @@ env, x.e) : env \in envs},
           {<<>>}, r.kept) # {}

\* Rules that say nothing when the input is missing, and an asked rule in whose body every
\* expression is a reference or a call: an else, a default, an iteration, an every or a
\* with-modifier is evaluated as if the input were known to be empty.
Symbolic(rules) ==
  /\ \A path \in DOMAIN rules : \A i \in DOMAIN rules[path] :
       rules[path][i].kind # "default" /\ rules[path][i].elses = <<>>
  /\ \A r \in ToSet(rules[Asked]) :
       /\ Kind(r.value) # "set_comprehension"
       /\ \A e \in ToSet(r.body) : e.with = <<>> /\ Kind(e.terms) \in {"ref", "call"} /\ ~IsMemberCall(e)

\* A partial answer, taken up again when the input is known, holds for exactly the inputs
\* for which the query has a value.
PartialAnswerComplete ==
  answer.kind = "partial" /\ Symbolic(subject.rules) =>
    \A i \in Inputs :
      LET v == answer.value
          defined == Meant(i) # Undefined
      IN CASE v[1] = "resolved" -> defined
           [] v[1] = "residuals" -> defined <=> \E j \in DOMAIN v[2] : StillHolds(i, v[2][j])
           [] OTHER -> ~defined

-----------------------------------------------------------------------------
IsGround(v) == \A x \in Walk(v, <<>>) : Kind(x[2]) # "unbound"

RECURSIVE Substitute(_, _, _)
Substitute(env, v, seen) ==
  CASE Kind(v) = "unbound" ->
         IF v[2] \in DOMAIN env /\ v[2] \notin seen THEN Substitute(env, env[v[2]], seen \cup {v[2]}) ELSE v
    [] Kind(v) = "array" -> Array([i \in DOMAIN v[2] |-> Substitute(env, v[2][i], seen)])
    [] Kind(v) = "object" -> Object([k \in DOMAIN v[2] |-> Substitute(env, v[2][k], seen)])
    [] OTHER -> v

\* unify makes no occurs check: it binds x to [x], and to x itself, which no second
\* binding of x then agrees with.
Cyclic(env) ==
  \E x \in DOMAIN env : \E part \in Walk(Substitute(env, env[x], {}), <<>>) : part[2] = Unbound(x)

\* Two terms that unify are equal once the bindings that unify made are put in, and unify
\* does not depend on which of them comes first.
UnifiersUnify ==
  subject.kind = "terms" =>
    LET l == subject.left  r == subject.right
        one == Unify(Fresh, l, r)  other == Unify(Fresh, r, l)
    IN ~Cyclic(one.env) =>
         /\ one.out = Bool(TRUE) => Substitute(one.env, l, {}) = Substitute(one.env, r, {})
         /\ one.out = other.out

-----------------------------------------------------------------------------
Leaves(v) == {x \in Walk(v, <<>>) : Kind(x[2]) # "object"}
Exists(v, path) == \E x \in Walk(v, <<>>) : x[1] = path

\* json.filter and json.remove with one list of paths that exist part the leaves of an
\* object between them.
FilterAndRemovePart ==
  subject.kind = "object" =>
    LET v == subject.value
    IN \A ps \in Paths :
         (\A i \in DOMAIN ps : Exists(v, ps[i])) =>
           /\ Leaves(JsonFilter(v, ps)) \cup Leaves(JsonRemove(v, ps)) = Leaves(v)
           /\ Leaves(JsonFilter(v, ps)) \cap Leaves(JsonRemove(v, ps)) = {}

\* json.patch at a free place in an existing object: what is moved there and back is where
\* it was, and so is everything else; a copy, of an element of a list too, puts what it
\* names there and leaves the rest in place, unless its source raises.
PatchUndone ==
  subject.kind = "object" =>
    LET v == subject.value
        All == {ps[i] : ps \in Paths, i \in 1..1}
        Free(to) == Exists(v, Front(to)) /\ ~Exists(v, to) /\ Kind(GetNested(v, Front(to))) = "object"
        Moved2(from, to) == JsonPatch(v, <<[op |-> "move", from |-> from, path |-> to],
                                           [op |-> "move", from |-> to, path |-> from]>>)
        Copied(from, to) == JsonPatch(v, <<[op |-> "copy", from |-> from, path |-> to]>>)
    IN \A from, to \in All : Free(to) =>
         /\ Exists(v, from) /\ ~IsPrefix(from, to) => Moved2(from, to) = v
         /\ IF Raised(GetNested(v, from)) THEN Raised(Copied(from, to))
            ELSE /\ GetNested(Copied(from, to), to) = GetNested(v, from)
                 /\ Leaves(v) \subseteq Leaves(Copied(from, to))

\* An edit of a document changes what it names and nothing beside it (json.filter,
\* json.remove, json.patch).
DocumentsEdited == FilterAndRemovePart /\ PatchUndone

\* graph.reachable is the least set that holds the start and the neighbours of its
\* members: it is closed, and graph.reachable_paths leads to each of its nodes.
ReachableIsClosure ==
  subject.kind = "graph" =>
    \A start \in DOMAIN subject.edges :
      LET g == subject.edges
          all == Reachable(g, start)
      IN /\ start \in all
         /\ \A n \in all : Neighbours(g, n) \subseteq all
         /\ all = {Last(p) : p \in ReachablePaths(g, start)}
=============================================================================
