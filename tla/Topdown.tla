------------------------------ MODULE Topdown -------------------------------
(***************************************************************************)
(* The top-down evaluator (eval/topdown.py).  An evaluation reads a        *)
(* context c (rules, input, store, depth) and changes a machine m: the     *)
(* variable bindings env, the intra-query cache, the current package and   *)
(* the outcome out, a value or a raised exception.  What bind, save,       *)
(* restore and copy do to a Bindings object is module Bindings; here a     *)
(* failed expression goes on with the environment it started from.  The    *)
(* inter-query cache is empty, hence falsy, and is never consulted.        *)
(***************************************************************************)
EXTENDS Compiler

CONSTANT MaxDepth              \* EvalContext.max_depth

Unbound(x) == <<"unbound", x>>
Envs(s) == <<"envs", s>>       \* the solutions a body has yielded
NoRules == <<"no rules">>

Out(m, v) == [m EXCEPT !.out = v]
Failed(m) == Kind(m.out) \in {"error", "undefined"}
IsRaised(m) == Raised(m.out)

Truthy(v) ==
  CASE Kind(v) = "bool" -> v[2]
    [] Kind(v) = "null" -> FALSE
    [] IsCollection(v) -> Members(v) # {}
    [] OTHER -> TRUE

\* bindings.bind raises UnificationError, which is no EvalError.
Bind(m, x, v) ==
  IF x \notin DOMAIN m.env THEN [m EXCEPT !.env = With1(@, x, v), !.out = Bool(TRUE)]
  ELSE Out(m, IF m.env[x] = v THEN Bool(TRUE) ELSE Crash)

RECURSIVE Deref(_, _, _)
Deref(env, v, seen) ==
  IF Kind(v) = "unbound" /\ v[2] \notin seen /\ v[2] \in DOMAIN env /\ env[v[2]] # Null
  THEN Deref(env, env[v[2]], seen \cup {v[2]}) ELSE v

\* Mutant: arrays are compared as far as both go.
SameShapePrefix(a, b) ==
  \/ Kind(a) = "array" /\ Kind(b) = "array"
  \/ Kind(a) = "object" /\ Kind(b) = "object" /\ DOMAIN a[2] = DOMAIN b[2]

\* Two arrays of one length or two objects with the same keys.
SameShape(a, b) ==
  \/ Kind(a) = "array" /\ Kind(b) = "array" /\ Len(a[2]) = Len(b[2])
  \/ Kind(a) = "object" /\ Kind(b) = "object" /\ DOMAIN a[2] = DOMAIN b[2]

Components(a, b) ==
  LET ks == IF Kind(a) = "object" THEN SetToSeq(DOMAIN a[2])
            ELSE [i \in 1..Min({Len(a[2]), Len(b[2])}) |-> i]
  IN [i \in DOMAIN ks |-> <<a[2][ks[i]], b[2][ks[i]]>>]

\* What was bound before a mismatch stays bound.
RECURSIVE Unify(_, _, _)
Unify(m, v, w) ==
  LET a == Deref(m.env, v, {})  b == Deref(m.env, w, {})
      Next2(acc, p) == IF acc.out = Bool(TRUE) THEN Unify(acc, p[1], p[2]) ELSE acc
  IN IF Kind(a) = "unbound" THEN Bind(m, a[2], b)
     ELSE IF Kind(b) = "unbound" THEN Bind(m, b[2], a)
     ELSE IF SameShape(a, b) THEN FoldLeft(Next2, Out(m, Bool(TRUE)), Components(a, b))
     ELSE Out(m, Bool(a = b))

-----------------------------------------------------------------------------
(* Paths, stores and overlays *)

\* A key that is no member of an object is tried by its text, one that cannot be hashed
\* raises.  A list takes no negative index; a string does, and raises where a list is
\* undefined.
IndexInto(v, k) ==
  CASE Kind(v) = "object" /\ k \in DOMAIN v[2] -> v[2][k]
    [] Kind(v) = "object" /\ IsCollection(k) -> Crash
    [] Kind(v) = "object" /\ Str(TextOf(k)) \in DOMAIN v[2] -> v[2][Str(TextOf(k))]
    [] Kind(v) \in {"array", "str"} /\ IntOf(k) = {} -> Crash
    [] Kind(v) = "array" /\ (\E i \in IntOf(k) : i >= 0 /\ i < Len(v[2])) -> ItemAt(v[2], k)
    [] Kind(v) = "str" -> ItemAt([i \in 1..Len(v[2]) |-> Str(SubSeq(v[2], i, i))], k)
    [] OTHER -> Undefined

LookupPath(v, path) ==
  FoldLeft(LAMBDA acc, k : IF Raised(acc) THEN acc ELSE IndexInto(acc, k), v, path)

RECURSIVE SetPath(_, _, _)
SetPath(v, path, x) ==
  IF path = <<>> THEN x
  ELSE LET o == IF Kind(v) = "object" THEN v[2] ELSE <<>>
           k == Str(Head(path))
       IN Object(With1(o, k, SetPath(ObjectGet(o, k, Object(<<>>)), Tail(path), x)))

Keys(path) == [i \in DOMAIN path |-> Str(path[i])]

\* A store is <<"doc", document>> or <<"overlay", base, overrides>>, the overrides a
\* sequence of paths and values.  The first override on a line with path decides.
RECURSIVE Read(_, _)
Read(store, path) ==
  IF Kind(store) = "doc" THEN LookupPath(store[2], Keys(path))
  ELSE LET related == SelectSeq(store[3], LAMBDA o : IsPrefix(o[1], path) \/ IsPrefix(path, o[1]))
       IN IF related = <<>> THEN Read(store[2], path)
          ELSE LET at == Head(related)[1]  over == Head(related)[2]
               IN IF IsPrefix(at, path)
                  THEN LookupPath(over, Keys(SubSeq(path, Len(at) + 1, Len(path))))
                  ELSE SetPath(Read(store[2], path), SubSeq(at, Len(path) + 1, Len(at)), over)

-----------------------------------------------------------------------------
(* The methods that call one another: c.eval is the function of them all, from the *)
(* name of a method and its arguments.                                             *)

Eval(c, m, t) == c.eval[<<"term", c, m, t>>]
EvalExpr(c, m, e) == c.eval[<<"expr", c, m, e>>]
EvalRef(c, m, path) == c.eval[<<"ref", c, m, path>>]
EvalRule(c, m, rule) == c.eval[<<"rule", c, m, rule>>]
Iter(c, m, body, first) == c.eval[<<IF first THEN "first" ELSE "all", c, m, body>>]

\* ctx.child()
Child(c) == [c EXCEPT !.depth = @ + 1]
TooDeep(c) == c.depth >= c.max_depth

\* The values of terms, left to right, as an array.
EvalAll(c, m, terms) ==
  FoldLeft(LAMBDA acc, t : IF IsRaised(acc) THEN acc
                           ELSE LET r == Eval(c, acc, t)
                                IN IF IsRaised(r) THEN r ELSE Out(r, Array(Append(acc.out[2], r.out))),
           Out(m, Array(<<>>)), terms)

\* Evaluates rule with a copy of the bindings; the caller's are kept.
InCopy(c, m, rule) == [EvalRule(c, m, rule) EXCEPT !.env = m.env]

\* The first of the rules, and of their else chains, that is not undefined.
FirstMatch(c, m, rules) ==
  LET chain == FlattenSeq([i \in DOMAIN rules |-> <<rules[i]>> \o rules[i].elses])
  IN FoldLeft(LAMBDA acc, r : IF acc.out = Undefined THEN InCopy(c, acc, r) ELSE acc,
              Out(m, Undefined), chain)

CollectSet(c, m, rules) ==
  FoldLeft(LAMBDA acc, r :
             IF Kind(acc.out) # "set" THEN acc
             ELSE LET one == InCopy(c, acc, r)
                  IN CASE one.out = Undefined -> Out(one, acc.out)
                       [] one.out # Undefined /\ IsRaised(one) -> one
                       [] OTHER -> Out(one, SetOf(acc.out[2] \cup {one.out})),
           Out(m, SetOf({})), rules)

\* The key is evaluated after the body, with what the body has bound.
CollectObject(c, m, rules) ==
  FoldLeft(LAMBDA acc, r :
             IF Kind(acc.out) # "object" THEN acc
             ELSE LET one == EvalRule(c, acc, r)
                      key == IF IsRaised(one) THEN one ELSE Eval(c, one, r.key)
                      done == [key EXCEPT !.env = m.env]
                  IN CASE key.out = Undefined -> Out(done, acc.out)
                       [] key.out # Undefined /\ IsRaised(key) -> done
                       [] OTHER -> Out(done, Object(With1(acc.out[2], key.out, one.out))),
           Out(m, Object(<<>>)), rules)

OfKind(rules, kinds) == SelectSeq(rules, LAMBDA r : r.kind \in kinds)

\* The rules of a group, and what they give when none of them holds.
EvalGroup(c, m, rules, kind) ==
  LET named == OfKind(rules, IF kind = "complete" THEN {"complete", "function"} ELSE {kind})
      nothing == CASE kind = "partial_set" -> SetOf({})
                   [] kind = "partial_object" -> Object(<<>>)
                   [] OTHER -> Undefined
      r == CASE kind = "partial_set" -> CollectSet(c, m, named)
             [] kind = "partial_object" -> CollectObject(c, m, named)
             [] OTHER -> FirstMatch(c, m, named)
  IN Out(r, IF r.out = nothing THEN NoRules ELSE r.out)

\* Tries each group of rules in turn until one has a value; NoRules is _UNDEFINED.
EvalRules(c, m, path) ==
  LET rules == IndexedRules(c.rules, path, c.input)
      start == IF Len(path) > 1 /\ rules # <<>> THEN [m EXCEPT !.package = Front(path)] ELSE m
  IN FoldLeft(LAMBDA acc, kind : IF acc.out = NoRules THEN EvalGroup(c, acc, rules, kind) ELSE acc,
              Out(start, NoRules), <<"complete", "partial_set", "partial_object", "default">>)

\* A path under data: the cache, the rules, then the store.
RefValue(c, m, path) ==
  LET key == <<path, c.input>>
      r == EvalRules(c, m, path)
      v == IF r.out = NoRules THEN Read(c.store, path) ELSE r.out
  IN IF path = <<>> THEN Out(m, Read(c.store, <<>>))
     ELSE IF key \in DOMAIN m.cache THEN Out(m, m.cache[key])
     ELSE IF Raised(v) THEN Out(r, v)
     ELSE [r EXCEPT !.out = v, !.cache = With1(@, key, v)]

\* The first solution of a body; its bindings are copied back.
EvalBody(c, m, body) ==
  LET r == Iter(c, m, body, TRUE)
  IN IF IsRaised(r) THEN r
     ELSE IF r.out[2] = <<>> THEN Out(r, Bool(FALSE))
     ELSE [r EXCEPT !.env = r.out[2][1], !.out = Bool(TRUE)]

\* The body and the value run in a child context, whose current package is a copy.
RuleValue(c, m, rule) ==
  LET body == IF rule.body = <<>> THEN Out(m, Bool(TRUE)) ELSE EvalBody(Child(c), m, rule.body)
      value == CASE IsRaised(body) -> body
                 [] body.out = Bool(FALSE) -> Out(body, Undefined)
                 [] body.out = Bool(TRUE) /\ rule.value # None -> Eval(Child(c), body, rule.value)
                 [] OTHER -> Out(body, IF rule.kind \in {"complete", "default", "function"}
                                       THEN Bool(TRUE) ELSE Undefined)
  IN IF TooDeep(c) THEN Out(m, Error) ELSE [value EXCEPT !.package = m.package]

\* A second override of one path takes the place of the first.
Overridden(over, path, v) ==
  IF \E i \in DOMAIN over : over[i][1] = path
  THEN [i \in DOMAIN over |-> IF over[i][1] = path THEN <<path, v>> ELSE over[i]]
  ELSE Append(over, <<path, v>>)

\* One override after the other; an input override is seen by the values of the next.
WithModifiers(c, m, e) ==
  LET Override(acc, w) ==
        LET names == AsPath(w.target[2])
            v == Eval(acc.c, acc.m, w.value)
        IN IF IsRaised(acc.m) THEN acc
           ELSE IF IsRaised(v) THEN [acc EXCEPT !.m = v]
           ELSE IF Head(names) = "input"
           THEN [acc EXCEPT !.m = v, !.c.input =
                   SetPath(IF Truthy(@) THEN @ ELSE Object(<<>>), Tail(names), v.out)]
           ELSE [acc EXCEPT !.m = v, !.over = Overridden(@, Tail(names), v.out)]
      all == FoldLeft(Override, [c |-> c, m |-> Out(m, Null), over |-> <<>>], e.with)
      plain == [e EXCEPT !.with = <<>>]
      shadowed == EvalExpr([all.c EXCEPT !.store = <<"overlay", c.store, all.over>>],
                           [all.m EXCEPT !.cache = <<>>], plain)
  IN IF IsRaised(all.m) THEN all.m
     ELSE IF all.over = <<>> THEN EvalExpr(all.c, all.m, plain)
     ELSE [shadowed EXCEPT !.cache = all.m.cache]

\* An undefined term raises, negated or not.
ExprValue(c, m, e) ==
  LET r == Eval(c, m, e.terms)
  IN IF e.with # <<>> THEN WithModifiers(c, m, e)
     ELSE IF IsRaised(r) THEN r
     ELSE Out(r, Bool(Truthy(r.out) # e.negated))

-----------------------------------------------------------------------------
(* Bodies: an expression after the other, with one solution per member of   *)
(* a collection.                                                            *)

IsMemberCall(e) ==
  /\ Kind(e.terms) = "call"
  /\ <<e.terms[2], Len(e.terms[3])>> \in {<<<<"internal.member_2">>, 2>>, <<<<"internal.member_3">>, 3>>}

ValuesOf(v) ==
  CASE Kind(v) = "array" -> v[2]
    [] Kind(v) = "set" -> SetToSeq(v[2])
    [] Kind(v) = "object" -> [i \in 1..Cardinality(DOMAIN v[2]) |-> v[2][SetToSeq(DOMAIN v[2])[i]]]
    [] OTHER -> <<v>>
PairsOf(v) ==
  CASE Kind(v) = "array" -> [i \in DOMAIN v[2] |-> <<Num(i - 1), v[2][i]>>]
    [] Kind(v) = "set" -> [i \in 1..Cardinality(v[2]) |-> <<SetToSeq(v[2])[i], SetToSeq(v[2])[i]>>]
    [] Kind(v) = "object" -> [i \in 1..Cardinality(DOMAIN v[2]) |->
                               <<SetToSeq(DOMAIN v[2])[i], v[2][SetToSeq(DOMAIN v[2])[i]]>>]
    [] OTHER -> <<>>

\* Binds the unbound variables among targets to the values, compares the other targets.
BindMember(c, m, targets, values) ==
  FoldLeft(LAMBDA acc, i :
             IF acc.out # Bool(TRUE) THEN acc
             ELSE IF Kind(targets[i]) = "var" /\ targets[i][2] \notin DOMAIN m.env
             THEN Bind(acc, targets[i][2], values[i])
             ELSE LET r == Eval(c, [acc EXCEPT !.env = m.env], targets[i])
                  IN IF IsRaised(r) THEN r ELSE [r EXCEPT !.env = acc.env, !.out = Bool(@ = values[i])],
           Out(m, Bool(TRUE)), [i \in DOMAIN targets |-> i])

\* The solutions of body, the first only or all.  negated and with of a membership
\* are not looked at.
IterStep(c, m, body, first) ==
  IF body = <<>> THEN Out(m, Envs(<<m.env>>))
  ELSE IF IsMemberCall(Head(body))
  THEN LET args == Head(body).terms[3]
           coll == Eval(c, m, args[Len(args)])
           rows == IF Len(args) = 2 THEN [i \in DOMAIN ValuesOf(coll.out) |-> <<ValuesOf(coll.out)[i]>>]
                   ELSE PairsOf(coll.out)
           Try(acc, row) ==
             LET b == BindMember(c, [acc EXCEPT !.env = coll.env], Front(args), row)
                 r == Iter(c, b, Tail(body), first)
             IN IF IsRaised(acc) \/ (first /\ acc.out[2] # <<>>) THEN acc
                ELSE IF IsRaised(b) THEN b
                ELSE IF b.out = Bool(FALSE) THEN acc
                ELSE IF IsRaised(r) THEN r ELSE Out(r, Envs(acc.out[2] \o r.out[2]))
       IN IF IsRaised(coll) THEN coll ELSE FoldLeft(Try, Out(coll, Envs(<<>>)), rows)
  ELSE LET e == EvalExpr(c, m, Head(body))
           rest == Iter(c, e, Tail(body), first)
           none == Out([e EXCEPT !.env = m.env], Envs(<<>>))
       IN IF Failed(e) \/ e.out = Bool(FALSE) THEN none
          ELSE IF IsRaised(e) THEN e
          ELSE IF Failed(rest) THEN Out([rest EXCEPT !.env = m.env], Envs(<<>>)) ELSE rest

Comprehension(c, m, t) ==
  LET parts == IF Kind(t) = "object_comprehension" THEN <<t[2], t[3]>> ELSE <<t[2]>>
      found == Iter(Child(c), m, t[Len(t)], FALSE)
      rows == FoldLeft(LAMBDA acc, env :
                         IF IsRaised(acc) THEN acc
                         ELSE LET r == EvalAll(Child(c), [acc EXCEPT !.env = env], parts)
                              IN IF IsRaised(r) THEN r ELSE Out(r, Array(Append(acc.out[2], r.out[2]))),
                       Out(found, Array(<<>>)), found.out[2])
      s == rows.out[2]
      value == CASE Kind(t) = "array_comprehension" -> Array([i \in DOMAIN s |-> s[i][1]])
                 [] Kind(t) = "set_comprehension" -> SetOf({s[i][1] : i \in DOMAIN s})
                 [] OTHER -> Object(FoldLeft(LAMBDA o, r : With1(o, r[1], r[2]), <<>>, s))
  IN IF TooDeep(c) THEN Out(m, Error)
     ELSE IF IsRaised(found) THEN found
     ELSE IF IsRaised(rows) THEN rows
     ELSE [rows EXCEPT !.env = m.env, !.package = m.package, !.out = value]

\* Holds of a domain that is no collection.
EvalEvery(c, m, t) ==
  LET domain == Eval(c, m, t[4])
      Holds(acc, row) ==
        LET keyed == IF Kind(t[2]) = "var" THEN Bind(acc, t[2][2], row[1]) ELSE acc
            bound == IF Kind(t[3]) = "var" /\ ~IsRaised(keyed) THEN Bind(keyed, t[3][2], row[2]) ELSE keyed
            r == EvalBody(Child(c), Out(bound, Null), t[5])
        IN IF acc.out # Bool(TRUE) THEN acc
           ELSE IF IsRaised(bound) THEN bound
           ELSE IF TooDeep(c) THEN Out(acc, Error)
           ELSE [r EXCEPT !.env = domain.env, !.package = m.package]
  IN IF IsRaised(domain) THEN domain
     ELSE FoldLeft(Holds, Out(domain, Bool(TRUE)), PairsOf(domain.out))

\* A user-defined function, by its path or else in the current package.  One that is
\* undefined for the arguments counts as unknown.
CallFunction(c, m, names, args) ==
  LET path == IF names[1] = "data" THEN Tail(names) ELSE names
      found == IF GetRules(c.rules, path) # <<>> THEN GetRules(c.rules, path)
               ELSE GetRules(c.rules, m.package \o names)
      fitting == SelectSeq(found, LAMBDA r : r.kind = "function" /\ Len(r.args) = Len(args))
      Bound(acc, r) ==
        FoldLeft(LAMBDA b, i : IF IsRaised(b) \/ Kind(r.args[i]) # "var" THEN b
                               ELSE Bind(b, r.args[i][2], args[i]),
                 Out(acc, Null), [i \in DOMAIN args |-> i])
      Try(acc, r) ==
        LET b == Bound(acc, r)
        IN IF acc.out # Undefined THEN acc
           ELSE IF IsRaised(b) THEN b
           ELSE IF TooDeep(c) THEN Out(acc, Error)
           ELSE [EvalRule(Child(c), b, r) EXCEPT !.env = m.env]
      done == FoldLeft(Try, Out(m, Undefined), fitting)
  IN IF done.out = Undefined THEN Out(done, Error) ELSE done

EvalCall(c, m, names, args) ==
  LET pair == EvalAll(c, m, args)
      name == IF names[1] \in DOMAIN Infix THEN Infix[names[1]] ELSE FoldLeft(LAMBDA a, n : IF a = "" THEN n ELSE a \o "." \o n, "", names)
      rhs == Eval(c, m, args[2])
      lhs == Eval(c, rhs, args[1])
  IN IF names = <<":=">>
     THEN IF IsRaised(rhs) THEN rhs
          ELSE IF Kind(args[1]) = "var" THEN Bind(rhs, args[1][2], rhs.out)
          ELSE IF IsRaised(lhs) THEN lhs ELSE Out(lhs, Bool(lhs.out = rhs.out))
     ELSE IF IsRaised(pair) THEN pair
     ELSE IF names = <<"=">> THEN Unify(pair, pair.out[2][1], pair.out[2][2])
     ELSE IF name \in Registered THEN Out(pair, Apply(name, pair.out[2]))
     ELSE CallFunction(c, pair, names, pair.out[2])

-----------------------------------------------------------------------------
\* Its path under data is made of the texts of its terms' values.
EvalRefTerm(c, m, terms) ==
  LET root == IF Kind(Head(terms)) = "str" THEN Out(m, Head(terms)) ELSE Eval(c, m, Head(terms))
      keys == EvalAll(c, root, Tail(terms))
      Step(acc, t) ==
        IF IsRaised(acc) THEN acc
        ELSE LET k == Eval(c, acc, t)
             IN IF IsRaised(k) THEN k ELSE Out(k, IndexInto(acc.out, k.out))
      base == IF root.out = Str("input") THEN Out(root, c.input)
              ELSE IF Kind(root.out) = "unbound" THEN Out(root, Undefined) ELSE root
  IN IF IsRaised(root) THEN root
     ELSE IF root.out = Str("data")
     THEN IF IsRaised(keys) THEN keys
          ELSE EvalRef(c, keys, [i \in DOMAIN keys.out[2] |-> TextOf(keys.out[2][i])])
     ELSE FoldLeft(Step, base, Tail(terms))

TermValue(c, m, t) ==
  LET pairs == EvalAll(c, m, FlattenSeq([i \in DOMAIN t[2] |-> <<t[2][i][1], t[2][i][2]>>]))
      items == EvalAll(c, m, IF Kind(t) = "set" THEN SetToSeq(t[2]) ELSE t[2])
  IN CASE Kind(t) \in Scalar -> Out(m, t)
       [] Kind(t) = "var" -> Out(m, IF t[2] \in DOMAIN m.env THEN m.env[t[2]] ELSE Unbound(t[2]))
       [] Kind(t) = "ref" -> EvalRefTerm(c, m, t[2])
       [] Kind(t) = "array" -> items
       [] Kind(t) = "set" -> IF IsRaised(items) THEN items ELSE Out(items, SetOf(ToSet(items.out[2])))
       [] Kind(t) = "object" ->
            IF IsRaised(pairs) THEN pairs
            ELSE Out(pairs, Object(FoldLeft(LAMBDA o, i : With1(o, pairs.out[2][2 * i - 1], pairs.out[2][2 * i]),
                                            <<>>, [i \in DOMAIN t[2] |-> i])))
       [] Kind(t) = "call" -> EvalCall(c, m, t[2], t[3])
       [] Kind(t) = "every" -> EvalEvery(c, m, t)
       [] OTHER -> Comprehension(c, m, t)

\* Its domain is no set that can be written down: terms and rules nest without bound.
Evaluator[call \in Any] ==
  LET c == call[2]  m == call[3]  x == call[4]
  IN CASE call[1] = "term" -> TermValue(c, m, x)
       [] call[1] = "expr" -> ExprValue(c, m, x)
       [] call[1] = "ref" -> RefValue(c, m, x)
       [] call[1] = "rule" -> RuleValue(c, m, x)
       [] OTHER -> IterStep(c, m, x, call[1] = "first")

\* eval_query of a path under data, with nothing bound and an empty cache.
Context(tree, doc, input) ==
  [rules |-> tree, store |-> <<"doc", doc>>, input |-> input, depth |-> 0, max_depth |-> MaxDepth,
   eval |-> Evaluator]
Fresh == [env |-> <<>>, cache |-> <<>>, package |-> <<>>, out |-> Null]
EvalQuery(c, path) == EvalRef(c, Fresh, path).out
=============================================================================
