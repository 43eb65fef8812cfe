------------------------------ MODULE Meaning -------------------------------
(***************************************************************************)
(* What a set of Rego rules means, with neither evaluation order nor       *)
(* cache, index or shared bindings: an expression turns an environment     *)
(* into the set of the environments that satisfy it, a body composes its   *)
(* expressions, and a path has the value that its rules agree on.  A world *)
(* w is a rule tree, a document, an input, and the set of the two ways in  *)
(* which this evaluator reads a policy otherwise than Rego does:           *)
(*   "undefined negation": not e holds only of an e that has a value;      *)
(*   "index under with": a rule is withheld by the equality it begins with *)
(*     and the input of the query, whatever a with-modifier puts in place. *)
(***************************************************************************)
EXTENDS Topdown

Conflict == <<"conflict">>
Defined(v) == Kind(v) \notin {"undefined", "conflict", "crash", "error"}

\* The four parts of the definition refer to one another through the world's function of
\* them all.
Value(w, path) == w.mean[<<"value", w, path>>]
Denote(w, package, env, t) == w.mean[<<"denote", w, package, env, t>>]
Satisfy(w, package, env, e) == w.mean[<<"satisfy", w, package, env, e>>]
Solve(w, package, env, body) == w.mean[<<"solve", w, package, env, body>>]

\* The values of a rule, or of the first rule of its else chain that has one.
ValuesOfRule(w, package, env, r) ==
  LET Own(x) == {Denote(w, package, e, IF x.value = None THEN Bool(TRUE) ELSE x.value) :
                   e \in Solve(w, package, env, x.body)} \ {Undefined}
      chain == <<r>> \o r.elses
      live == {i \in DOMAIN chain : Own(chain[i]) # {}}
  IN IF live = {} THEN {} ELSE Own(chain[Min(live)])

TheOne(values) ==
  IF values = {} THEN Undefined
  ELSE IF \E v \in values : values = {v} THEN CHOOSE v \in values : TRUE ELSE Conflict

\* A rule that the index would never try though its body may hold.
Withheld(w, r) ==
  /\ "index under with" \in w.faults /\ EqualityGuard(r) # NoGuard
  /\ r.body[1].with # <<>> /\ ~Matches(EqualityGuard(r), w.input)

ValueAt(w, path) ==
  LET rules == SelectSeq(GetRules(w.rules, path), LAMBDA r : ~Withheld(w, r))
      package == IF path = <<>> THEN <<>> ELSE Front(path)
      Of(kinds) == ToSet(OfKind(rules, kinds))
      Union(kinds) == UNION {ValuesOfRule(w, package, <<>>, r) : r \in Of(kinds)}
      entries == UNION {{<<Denote(w, package, e, r.key), Denote(w, package, e, r.value)>> :
                           e \in Solve(w, package, <<>>, r.body)} : r \in Of({"partial_object"})}
      keys == {kv[1] : kv \in entries}
      At(k) == TheOne({kv[2] : kv \in {x \in entries : x[1] = k}})
  IN IF Union({"complete"}) # {} THEN TheOne(Union({"complete"}))
     ELSE IF Union({"partial_set"}) # {} THEN SetOf(Union({"partial_set"}))
     ELSE IF entries # {}
     THEN IF \E k \in keys : At(k) = Conflict THEN Conflict ELSE Object([k \in keys |-> At(k)])
     ELSE IF Union({"default"}) # {} THEN TheOne(Union({"default"}))
     ELSE LookupPath(w.doc, Keys(path))

\* The function's rules are looked up by the path or in the package of the caller.
Applied(w, package, names, args) ==
  LET path == IF names[1] = "data" THEN Tail(names) ELSE package \o names
      fitting == {r \in ToSet(GetRules(w.rules, path)) :
                    r.kind = "function" /\ Len(r.args) = Len(args)}
      Env(r) == FoldLeft(LAMBDA e, i : With1(e, r.args[i][2], args[i]), <<>>, [i \in DOMAIN args |-> i])
  IN TheOne(UNION {ValuesOfRule(w, Front(path), Env(r), r) : r \in fitting})

KeyTexts(vs) == [i \in DOMAIN vs |-> IF Kind(vs[i]) = "num" THEN ToString(vs[i][2]) ELSE vs[i][2]]

ValueOf(w, package, env, t) ==
  LET Sub(s) == [i \in DOMAIN s |-> Denote(w, package, env, s[i])]
      Found(body) == Solve(w, package, env, body)
      refs == Sub(Tail(t[2]))
      args == Sub(t[3])
      AllDefined(s) == \A i \in DOMAIN s : Defined(s[i])
  IN CASE Kind(t) \in Scalar -> t
       [] Kind(t) = "var" -> IF t[2] \in DOMAIN env THEN env[t[2]] ELSE Undefined
       [] Kind(t) = "ref" ->
            IF ~AllDefined(refs) THEN Undefined
            ELSE IF Head(t[2]) = Str("data") THEN Value(w, KeyTexts(refs))
            ELSE LookupPath(IF Head(t[2]) = Str("input") THEN w.input
                            ELSE Denote(w, package, env, Head(t[2])), refs)
       [] Kind(t) = "array" -> IF AllDefined(Sub(t[2])) THEN Array(Sub(t[2])) ELSE Undefined
       [] Kind(t) = "array_comprehension" -> Undefined          \* its order is the evaluator's
       [] Kind(t) = "set_comprehension" ->
            SetOf({Denote(w, package, e, t[2]) : e \in Found(t[3])} \ {Undefined})
       [] Kind(t) = "object_comprehension" ->
            LET entries == {<<Denote(w, package, e, t[2]), Denote(w, package, e, t[3])>> : e \in Found(t[4])}
            IN IF \E x, y \in entries : x[1] = y[1] /\ x # y THEN Conflict
               ELSE Object([k \in {x[1] : x \in entries} |-> (CHOOSE x \in entries : x[1] = k)[2]])
       [] Kind(t) = "every" ->
            LET rows == PairsOf(Denote(w, package, env, t[4]))
                Inner(row) == With1(With1(env, t[2][2], row[1]), t[3][2], row[2])
            IN Bool(\A i \in DOMAIN rows : Solve(w, package, Inner(rows[i]), t[5]) # {})
       [] Kind(t) = "call" ->
            IF ~AllDefined(args) THEN Undefined
            ELSE IF t[2][1] \in DOMAIN Infix THEN Apply(Infix[t[2][1]], args)
            ELSE IF t[2][1] \in Registered THEN Apply(t[2][1], args)
            ELSE Applied(w, package, t[2], args)

\* A data override of a document path, or an input override.
Override(w, package, env, mod) ==
  LET names == AsPath(mod.target[2])
      v == Denote(w, package, env, mod.value)
  IN IF Head(names) = "input" THEN [w EXCEPT !.input = SetPath(@, Tail(names), v)]
     ELSE [w EXCEPT !.doc = SetPath(@, Tail(names), v)]

Satisfying(w, package, env, e) ==
  LET t == e.terms
      positive == [e EXCEPT !.negated = FALSE]
      under == FoldLeft(LAMBDA u, mod : Override(u, package, env, mod), w, e.with)
      args == t[3]
      coll == Denote(w, package, env, args[Len(args)])
      rows == IF Len(args) = 2 THEN {<<v>> : v \in Members(coll)} ELSE ToSet(PairsOf(coll))
      Fits(row) == \A i \in 1..Len(args) - 1 :
                     \/ Kind(args[i]) = "var" /\ args[i][2] \notin DOMAIN env
                     \/ Denote(w, package, env, args[i]) = row[i]
      Bound(row) == FoldLeft(LAMBDA acc, i : IF Kind(args[i]) = "var" THEN With1(acc, args[i][2], row[i]) ELSE acc,
                             env, [i \in 1..Len(args) - 1 |-> i])
      v == Denote(w, package, env, args[2])
      fails == "undefined negation" \in w.faults /\ ~Defined(Denote(under, package, env, t))
  IN IF e.negated THEN IF fails \/ Satisfy(w, package, env, positive) # {} THEN {} ELSE {env}
     ELSE IF e.with # <<>> THEN Satisfy(under, package, env, [e EXCEPT !.with = <<>>])
     ELSE IF IsMemberCall(e) THEN {Bound(row) : row \in {r \in rows : Fits(r)}}
     ELSE IF Kind(t) = "call" /\ t[2] \in {<<":=">>, <<"=">>}
     THEN IF ~Defined(v) THEN {}
          ELSE IF Kind(args[1]) = "var" /\ args[1][2] \notin DOMAIN env THEN {With1(env, args[1][2], v)}
          ELSE IF Denote(w, package, env, args[1]) = v THEN {env} ELSE {}
     ELSE IF Defined(Denote(w, package, env, t)) /\ Truthy(Denote(w, package, env, t)) THEN {env} ELSE {}

Solutions(w, package, env, body) ==
  IF body = <<>> THEN {env}
  ELSE UNION {Solve(w, package, e, Tail(body)) : e \in Satisfy(w, package, env, Head(body))}

Meanings[x \in Any] ==
  CASE x[1] = "value" -> ValueAt(x[2], x[3])
    [] x[1] = "denote" -> ValueOf(x[2], x[3], x[4], x[5])
    [] x[1] = "satisfy" -> Satisfying(x[2], x[3], x[4], x[5])
    [] OTHER -> Solutions(x[2], x[3], x[4], x[5])
=============================================================================
