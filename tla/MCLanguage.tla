----------------------------- MODULE MCLanguage -----------------------------
(* Policies of one package: data.a.p with every pair of expressions, next to *)
(* each of several definitions of data.a.q and a function; modules of one    *)
(* rule with each shape of term once; chains of up to four operands; texts   *)
(* of up to four characters.                                                 *)
EXTENDS Language

I(x) == Ref(<<Str("input"), Str(x)>>)
D(p) == Ref(<<Str("data")>> \o Keys(p))
Eq(a, b) == Expr(Call(<<"==">>, <<a, b>>))
Less(a, b) == Expr(Call(<<"<">>, <<a, b>>))
Some(x, t) == Expr(Call(<<"internal.member_2">>, <<Var(x), t>>))
SomeKey(k, x, t) == Expr(Call(<<"internal.member_3">>, <<Var(k), Var(x), t>>))
Complete(n, v, body) == Rule("complete", n, None, v, <<>>, body, <<>>)
Default(n, v) == Rule("default", n, None, v, <<>>, <<>>, <<>>)
SetRule(n, v, body) == Rule("partial_set", n, None, v, <<>>, body, <<>>)
ObjectRule(n, k, v, body) == Rule("partial_object", n, k, v, <<>>, body, <<>>)
Fun(n, x, v, body) == Rule("function", n, None, v, <<Var(x)>>, body, <<>>)
Else(r, v, body) == [r EXCEPT !.elses = Append(@, Complete("", v, body))]

xs == D(<<"d", "xs">>)
q == D(<<"a", "q">>)
MCDocuments ==
  {Object(Str("d") :> Object(Str("n") :> Num(1) @@ Str("xs") :> Array(<<Num(1), Num(2)>>)
                             @@ Str("m") :> Object(Str("k") :> Num(2))))}
MCInputs == {Object(<<>>), Object(Str("x") :> Num(1)), Object(Str("x") :> Num(2))}

Rules ==
  {<<Complete("q", Num(1), <<Eq(I("x"), Num(1))>>), Complete("q", Num(2), <<Eq(Num(2), I("x"))>>)>>,
   <<Complete("q", Num(1), <<Eq(I("x"), Num(1))>>), Default("q", Num(0))>>,
   <<Else(Complete("q", Num(1), <<Eq(I("x"), Num(1))>>), Num(2), <<>>)>>,
   <<SetRule("q", Var("u"), <<Some("u", xs), Eq(Var("u"), I("x"))>>)>>,
   <<ObjectRule("q", Var("s"), Var("t"), <<SomeKey("s", "t", D(<<"d", "m">>))>>)>>}

Binds == {Some("y", xs), Expr(Call(<<"=">>, <<Var("y"), I("x")>>))}
Exprs ==
  Binds \cup
  {Eq(I("x"), Num(1)), Eq(D(<<"d", "n">>), Num(1)), Expr(q), Not(Eq(q, Num(1))),
   With(Expr(q), I("x"), Num(2)), With(Eq(I("x"), Num(1)), I("x"), Num(1)),
   With(Eq(D(<<"d", "n">>), Num(7)), D(<<"d", "n">>), Num(7)),
   Expr(Call(<<":=">>, <<Var("z"), q>>)), Eq(Call(<<"f">>, <<I("x")>>), Num(1)),
   Expr(Every(Var("i"), Var("j"), xs, <<Expr(Call(<<">=">>, <<Var("j"), I("x")>>))>>))}
Bodies == {<<e>> : e \in Exprs} \cup {<<e, g>> : e, g \in Exprs}

Ps(b) ==
  {Complete("p", Bool(TRUE), b),
   SetRule("p", SetComprehension(Var("h"), <<Some("h", xs), Less(Var("h"), I("x"))>>), b)}
  \cup IF \E i \in DOMAIN b : b[i] \in Binds
       THEN {Complete("p", Var("y"), b), SetRule("p", Var("y"), b)} ELSE {}

MCPolicies ==
  {<<[package |-> <<"a">>, rules |-> <<p>> \o rs \o <<Fun("f", "g", Num(1), <<Eq(Var("g"), Num(1))>>)>>]>> :
     p \in UNION {Ps(b) : b \in Bodies}, rs \in Rules}

X == Unbound("x")
Y == Unbound("y")
Flat == {Num(1), Num(2), X, Y}
MCTerms ==
  Flat \cup {Array(s) : s \in UNION {[1..n -> Flat] : n \in 0..2}}
       \cup {Object(Str("k") :> v) : v \in Flat} \cup {Object(Str("k") :> v @@ Str("l") :> Num(1)) : v \in Flat}

Small == {Num(1), Array(<<Num(1), Num(2)>>), Object(<<>>), Object(Str("b") :> Num(2)), Object(Str("b") :> Num(2) @@ Str("c") :> Num(1))}
MCValues == {Object(f) : f \in UNION {[ks -> Small] : ks \in {{Str("a")}, {Str("a"), Str("d")}}}}
Path == {<<Str("a")>>, <<Str("d")>>, <<Str("a"), Str("b")>>, <<Str("a"), Str("c")>>, <<Str("d"), Str("b")>>,
         <<Str("a"), Str("1")>>}
MCPaths == {<<s>> : s \in Path} \cup {<<s, t>> : s, t \in Path}

Nodes == {Str("m"), Str("n"), Str("o")}
MCGraphs == [Nodes -> {SetOf(s) : s \in SUBSET Nodes}]

-----------------------------------------------------------------------------
Infix2(op, a, b) == Call(<<op>>, <<a, b>>)
x == Var("x")
Field == Ref(<<Str("input"), Str("k")>>)
Element == Ref(<<Str("data"), Str("d"), Var("x"), Str("e")>>)
Sum2 == Infix2("+", Num(1), x)
Shapes ==
  {Null, Bool(TRUE), Num(-1), Str("s"), x, Field, Element, Array(<<>>), Array(<<x, Num(2)>>), SetOf({}), SetOf({Num(1), Num(2)}),
   Ref(<<Str("input"), Str("a b")>>), Ref(<<Str("input"), Str("in")>>), Ref(<<Str("ab"), Num(0)>>), Ref(<<Sum2, Num(0)>>),
   Ref(<<Array(<<x>>), Num(0), Str("k")>>), Call(<<"x", "in">>, <<Num(1)>>),
   Object(<<<<Str("k"), x>>, <<Str("l"), Field>>>>), Sum2, Infix2("*", Sum2, Num(2)), Infix2("-", Sum2, Num(2)),
   Infix2("-", x, Sum2), Infix2("|", x, Field), Call(<<"count">>, <<Element>>), Call(<<"data", "a", "f">>, <<x, Num(1)>>),
   Call(<<"minus_unary">>, <<x>>), ArrayComprehension(x, <<Expr(Infix2("==", x, Field))>>),
   SetComprehension(x, <<Expr(Call(<<"internal.member_2">>, <<x, Element>>)), Not(Expr(Field))>>),
   ObjectComprehension(x, Sum2, <<Expr(Call(<<"internal.member_2">>, <<x, Element>>))>>)}
Lines ==
  {Expr(t) : t \in Shapes} \cup
  {Not(Expr(Field)), Expr(Infix2(":=", x, Sum2)), Expr(Infix2("=", x, Infix2("*", Num(2), Sum2))),
   Expr(Call(<<"internal.member_2">>, <<x, Element>>)), Expr(Call(<<"internal.member_3">>, <<x, Var("y"), Element>>)),
   Expr(Every(Var("x"), Var("y"), Element, <<Expr(Infix2("<", x, Field)), Not(Expr(Field))>>)),
   Expr(Every(Var("$_key"), Var("y"), Element, <<Expr(Field)>>)),
   With(Expr(Element), Field, Num(1)), With(With(Not(Expr(Element)), Field, Num(1)), Ref(<<Str("data"), Str("d")>>), SetOf({x}))}
Blocks == {<<>>} \cup {<<e>> : e \in Lines} \cup {<<e, Expr(Field)>> : e \in Lines}

RulesOver(b) ==
  {Rule("complete", "p", None, None, <<>>, b, <<>>),
   Rule("partial_set", "p", None, x, <<>>, b, <<>>),
   Rule("partial_object", "p", x, Sum2, <<>>, b, <<>>),
   Rule("function", "f", None, Bool(TRUE), <<x, Var("y")>>, b, <<>>),
   Rule("complete", "p", None, Num(1), <<>>, b,
        <<Rule("complete", "", None, Num(2), <<>>, b, <<>>), Rule("complete", "", None, Num(0), <<>>, <<>>, <<>>)>>)}
Heads == {Rule("complete", "p", None, t, <<>>, <<>>, <<>>) : t \in Shapes}
Defaults == {Rule("default", "p", None, t, <<>>, <<>>, <<>>) : t \in {Bool(TRUE), Num(-1), SetOf({})}}

MCModules ==
  {[package |-> <<"a", "b">>, imports |-> <<<<<<"data", "l">>, "m">>, <<<<"future", "in">>, "">>>>, rules |-> <<d, r>>] :
     d \in Defaults, r \in Heads \cup UNION {RulesOver(b) : b \in Blocks}}

Operands == {<<Name("x")>>, <<<<"number", "1">>>>}
Operators == {Sym(o) : o \in {"|", "&", "+", "-", "*"}}
Extend(chains) == {c \o <<o>> \o t : c \in chains, o \in Operators, t \in Operands}
MCChains == LET two == Extend(Operands)  three == Extend(two) IN two \cup three \cup Extend(three)

Alphabet == {"i", "n", "1", "-", "=", ":", " ", "\n", "#", "\""}
MCTexts == UNION {[1..n -> Alphabet] : n \in 1..4}
=============================================================================
