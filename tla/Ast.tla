-------------------------------- MODULE Ast --------------------------------
(***************************************************************************)
(* Terms, expressions and rules of the Rego syntax tree (ast/types.py) and *)
(* the JSON values the evaluator computes with.  A term is a tuple whose   *)
(* first component is its kind; the scalar terms are their own values.     *)
(* Locations, comments and annotations are left out.                       *)
(***************************************************************************)
EXTENDS Integers, Sequences

Null == <<"null">>
Bool(b) == <<"bool", b>>
Num(n) == <<"num", n>>
Str(s) == <<"str", s>>
Scalar == {"null", "bool", "num", "str"}

Var(x) == <<"var", x>>
Ref(ts) == <<"ref", ts>>
Array(ts) == <<"array", ts>>
Object(pairs) == <<"object", pairs>>       \* pairs of terms, in source order
SetOf(ts) == <<"set", ts>>
Call(names, args) == <<"call", names, args>>
ArrayComprehension(t, body) == <<"array_comprehension", t, body>>
SetComprehension(t, body) == <<"set_comprehension", t, body>>
ObjectComprehension(k, t, body) == <<"object_comprehension", k, t, body>>
Every(k, t, domain, body) == <<"every", k, t, domain, body>>

Kind(t) == t[1]

\* The names of the string and variable terms of a reference, "data" first.
AsPath(ts) ==
  LET named == SelectSeq(ts, LAMBDA t : Kind(t) \in {"str", "var"})
  IN [i \in DOMAIN named |-> named[i][2]]

None == <<"none">>                          \* an absent key, value or argument

Expr(t) == [terms |-> t, negated |-> FALSE, with |-> <<>>]
Not(e) == [e EXCEPT !.negated = TRUE]
With(e, target, value) == [e EXCEPT !.with = Append(@, [target |-> target, value |-> value])]

Rule(kind, name, key, value, args, body, elses) ==
  [kind |-> kind, name |-> name, key |-> key, value |-> value, args |-> args,
   body |-> body, elses |-> elses]
=============================================================================
