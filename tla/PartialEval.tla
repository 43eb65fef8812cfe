----------------------------- MODULE PartialEval -----------------------------
(***************************************************************************)
(* Partial evaluation (eval/partial.py), behind POST /v1/compile: a query  *)
(* that cannot be answered is reduced, rule by rule, to the expressions    *)
(* that refer to an unknown.  unknowns is a set of paths.                  *)
(***************************************************************************)
EXTENDS Topdown

\* Names are compared as dotted text, at the boundary of a name.
BelowUnknown(unknowns, names) == \E u \in unknowns : IsPrefix(u, names)

\* The unknown may also lie below the path.
IsUnknownPath(unknowns, names) ==
  BelowUnknown(unknowns, names) \/ \E u \in unknowns : IsPrefix(names, u)

\* Calls, arrays, sets and objects are searched; comprehensions and every are not, and
\* neither are the rules that a reference leads to.
RECURSIVE HasUnknowns(_, _)
HasUnknowns(unknowns, t) ==
  LET AnyOf(s) == \E i \in DOMAIN s : HasUnknowns(unknowns, s[i])
  IN CASE Kind(t) = "ref" -> BelowUnknown(unknowns, AsPath(t[2]))
       [] Kind(t) = "call" -> AnyOf(t[3])
       [] Kind(t) = "array" -> AnyOf(t[2])
       [] Kind(t) = "set" -> \E x \in t[2] : HasUnknowns(unknowns, x)
       [] Kind(t) = "object" -> \E i \in DOMAIN t[2] : AnyOf(t[2][i])
       [] OTHER -> FALSE

\* What is kept of an expression: its terms and its negation, with the values of the
\* variables bound by then.  The with-modifiers are lost.
Residual(e, env) == [e |-> [e EXCEPT !.with = <<>>], env |-> env]

\* Mutant: what cannot be evaluated is forgotten.
ReduceExprForget(c, acc, unknowns, e) ==
  LET r == EvalExpr(Child(c), acc.m, e)
  IN IF acc.m.out \in {Crash, Bool(FALSE)} \/ Failed(r) THEN acc ELSE [acc EXCEPT !.m = r]

\* False drops the rule, an expression that cannot be evaluated is kept.
ReduceExpr(c, acc, unknowns, e) ==
  LET r == IF HasUnknowns(unknowns, e.terms) THEN Out(acc.m, Undefined)
           ELSE EvalExpr(Child(c), acc.m, e)
  IN IF acc.m.out \in {Crash, Bool(FALSE)} THEN acc
     ELSE IF Failed(r) THEN [m |-> Out(r, Null), kept |-> Append(acc.kept, Residual(e, r.env))]
     ELSE [acc EXCEPT !.m = r]

ReduceBody(c, m, unknowns, body) ==
  FoldLeft(LAMBDA acc, e : ReduceExpr(c, acc, unknowns, e), [m |-> m, kept |-> <<>>], body)

Dropped == [value |-> Undefined, kept |-> <<>>]

\* The value of the head is that of the whole rule, evaluated once more.
ReduceRule(c, unknowns, rule) ==
  LET r == ReduceBody(c, Fresh, unknowns, rule.body)
      v == EvalRule(Child(c), r.m, rule).out
      Kept(value) == [value |-> value, kept |-> r.kept]
  IN CASE r.m.out = Crash -> Kept(Crash)
       [] r.m.out = Bool(FALSE) -> Dropped
       [] OTHER ->
            IF rule.value = None THEN Kept(IF r.kept = <<>> THEN Bool(TRUE) ELSE None)
            ELSE IF Kind(v) \notin {"undefined", "error"} THEN Kept(v)
            ELSE IF r.kept = <<>> THEN Dropped ELSE Kept(None)

\* A value, the sequence of the residuals of the rules, or what is raised.
PartialQuery(c, path, unknowns) ==
  LET full == EvalQuery(c, path)
      rules == GetRules(c.rules, path)
      all == [i \in DOMAIN rules |-> ReduceRule(c, unknowns, rules[i])]
      residuals == SelectSeq(all, LAMBDA x : x # Dropped)
  IN CASE Kind(full) = "crash" -> Crash
       [] Kind(full) \notin {"crash", "undefined", "error"} -> <<"resolved", full>>
       [] rules = <<>> ->
            IF IsUnknownPath(unknowns, <<"data">> \o path) THEN <<"unresolved", path>> ELSE Error
       [] residuals = <<>> -> Undefined
       [] OTHER -> <<"residuals", residuals>>
=============================================================================
