------------------------------ MODULE Compiler ------------------------------
(***************************************************************************)
(* The compiler (ast/compiler.py): rules by path, and per path an index on *)
(* the first equality of a rule's body.  A module is a package path and a  *)
(* sequence of rules; the tree of rule nodes is the function from a path   *)
(* to the rules added under it.                                            *)
(***************************************************************************)
EXTENDS Builtins

AddRule(tree, path, rule) ==
  IF path \in DOMAIN tree THEN [tree EXCEPT ![path] = Append(@, rule)]
  ELSE (path :> <<rule>>) @@ tree

CompileModule(tree, module) ==
  FoldLeft(LAMBDA acc, r : AddRule(acc, Append(module.package, r.name), r), tree, module.rules)

\* Modules are compiled in the order they are given in.
RuleTree(modules) == FoldLeft(CompileModule, <<>>, modules)

GetRules(tree, path) == IF path \in DOMAIN tree THEN tree[path] ELSE <<>>

-----------------------------------------------------------------------------
(* RuleIndex *)

NoGuard == <<"no guard">>
Const(t) == Kind(t) \in Scalar

\* A reference whose terms are names, variables taken for names too.
RefPath(t) ==
  IF Kind(t) = "ref" /\ \A i \in DOMAIN t[2] : Kind(t[2][i]) \in {"str", "var"}
  THEN AsPath(t[2]) ELSE <<>>

RefConst(a, b) ==
  IF RefPath(a) # <<>> /\ Const(b) THEN <<"guard", RefPath(a), b>>
  ELSE IF RefPath(b) # <<>> /\ Const(a) THEN <<"guard", RefPath(b), a>>
  ELSE NoGuard

\* Mutant: rules with an else chain are indexed too.
EqualityGuardElse(rule) ==
  IF rule.body = <<>> \/ rule.body[1].negated THEN NoGuard
  ELSE LET t == rule.body[1].terms
       IN IF Kind(t) = "call" /\ t[2] \in {<<"=">>, <<"==">>, <<"equal">>, <<"eq">>} /\ Len(t[3]) = 2
          THEN RefConst(t[3][1], t[3][2]) ELSE NoGuard

\* The with-modifiers of the expression are not looked at.
EqualityGuard(rule) ==
  IF rule.body = <<>> \/ rule.elses # <<>> \/ rule.body[1].negated THEN NoGuard
  ELSE LET t == rule.body[1].terms
       IN IF Kind(t) = "call" /\ t[2] \in {<<"=">>, <<"==">>, <<"equal">>, <<"eq">>} /\ Len(t[3]) = 2
          THEN RefConst(t[3][1], t[3][2]) ELSE NoGuard

NoValue == <<"no value">>

RECURSIVE Resolve(_, _)
Resolve(v, path) ==
  IF path = <<>> THEN v
  ELSE IF Kind(v) = "object" /\ Str(Head(path)) \in DOMAIN v[2]
  THEN Resolve(v[2][Str(Head(path))], Tail(path))
  ELSE NoValue

ResolveInput(path, input) == IF Head(path) = "input" THEN Resolve(input, Tail(path)) ELSE NoValue

Matches(guard, input) == ResolveInput(guard[2], input) \in {NoValue, guard[3]}

\* The guards of rules, each once, in the order they are first met.
Guards(rules) ==
  FoldLeft(LAMBDA acc, r : LET g == EqualityGuard(r)
                           IN IF g = NoGuard \/ Contains(acc, g) THEN acc ELSE Append(acc, g),
           <<>>, rules)

Guarded(rules, g) == SelectSeq(rules, LAMBDA r : EqualityGuard(r) = g)

\* First the rules without a guard, then the others guard by guard.
Candidates(rules, input) ==
  FoldLeft(LAMBDA acc, g : IF Matches(g, input) THEN acc \o Guarded(rules, g) ELSE acc,
           Guarded(rules, NoGuard), Guards(rules))

IndexedRules(tree, path, input) == Candidates(GetRules(tree, path), input)
=============================================================================
