-------------------------------- MODULE Parser --------------------------------
(***************************************************************************)
(* The recursive-descent parser (ast/parser.py) on a sequence of tokens,   *)
(* in g.  A parsing operator gets a position and returns a result: a       *)
(* value and the position after it, or Bad for a ParseError.  Locations,   *)
(* annotations and the recursion limit are left out.                       *)
(***************************************************************************)
EXTENDS Ast, Lexer, TLC

Done(v, i) == [ok |-> TRUE, val |-> v, at |-> i]
Bad == [ok |-> FALSE, val |-> None, at |-> 0]
Then(r, F(_, _)) == IF r.ok THEN F(r.val, r.at) ELSE Bad

Peek(g, i) == IF i \in DOMAIN g.tokens THEN g.tokens[i] ELSE <<"EOF", "">>
At(g, i, types) == Peek(g, i)[1] \in types
Expect(g, i, type) == IF At(g, i, {type}) THEN Done(Peek(g, i)[2], i + 1) ELSE Bad
SkipNewlines(g, i) == Min({j \in i..Len(g.tokens) + 1 : ~At(g, j, {"newline"})} \cup {Max({i, Len(g.tokens) + 1})})

Number(text) == CHOOSE n \in -20..20 : ToString(n) = text
NameOf(text) == IF text \in {"data", "input"} THEN Ref(<<Str(text)>>) ELSE Var(text)
RefTerms(t) == IF Kind(t) = "ref" THEN t[2] ELSE <<t>>

\* Terms, elements and bodies nest in one another: g.parse is the function that parses what
\* begins at a position, from the name of a nonterminal, or the end of a body, and the position.
\* An element is a term without a bar outside brackets.
ParseTerm(g, i) == g.parse[<<"term", i>>]
ParseElement(g, i) == g.parse[<<"element", i>>]
ParseBody(g, i, stop) == g.parse[<<stop, i>>]

\* Terms with commas between them, up to a closing token that is not consumed; a comma
\* may stand before it.  Arguments are not followed by newlines.
RECURSIVE ParseItems(_, _, _, _)
ParseItems(g, i, close, items) ==
  LET at == SkipNewlines(g, i)
      More(t, j) == LET k == IF close = ")" THEN j ELSE SkipNewlines(g, j)
                    IN IF At(g, k, {","}) THEN ParseItems(g, k + 1, close, Append(items, t))
                       ELSE Done(Append(items, t), k)
  IN IF At(g, at, {close}) THEN Done(items, at) ELSE Then(ParseTerm(g, at), More)

\* r and the token after it
Closed(g, r, close) == Then(r, LAMBDA v, i : Then(Expect(g, i, close), LAMBDA x, j : Done(v, j)))
Arguments(g, i) == Closed(g, ParseItems(g, i, ")", <<>>), ")")

RECURSIVE ParsePairs(_, _, _)
ParsePairs(g, i, pairs) ==
  LET at == SkipNewlines(g, i)
      More(kv, j) == LET k == SkipNewlines(g, j)
                     IN IF At(g, k, {","}) THEN ParsePairs(g, k + 1, Append(pairs, kv))
                        ELSE Done(Append(pairs, kv), k)
      Pair(k, j) == Then(Expect(g, j, ":"), LAMBDA x, e : Then(ParseTerm(g, e), LAMBDA v, n : More(<<k, v>>, n)))
  IN IF At(g, at, {"}"}) THEN Done(pairs, at) ELSE Then(ParseTerm(g, at), Pair)

-----------------------------------------------------------------------------
(* Terms *)

\* The first element is parsed one level up: a bar after it begins a comprehension.
ParseArray(g, i) ==
  LET at == SkipNewlines(g, i)
      Rest(first, j) ==
        LET k == SkipNewlines(g, j)
        IN IF At(g, k, {"|"})
           THEN Then(Closed(g, ParseBody(g, k + 1, "]"), "]"), LAMBDA b, e : Done(ArrayComprehension(first, b), e))
           ELSE Then(Closed(g, IF At(g, k, {","}) THEN ParseItems(g, k + 1, "]", <<first>>) ELSE Done(<<first>>, k), "]"),
                     LAMBDA items, e : Done(Array(items), e))
  IN IF At(g, at, {"]"}) THEN Done(Array(<<>>), at + 1) ELSE Then(ParseElement(g, at), Rest)

\* Without an element the braces are an empty set.
ParseBraces(g, i) ==
  LET at == SkipNewlines(g, i)
      Pairs(kv, j) ==
        LET k == SkipNewlines(g, j)
        IN IF At(g, k, {"|"})
           THEN Then(Closed(g, ParseBody(g, k + 1, "}"), "}"),
                     LAMBDA b, e : Done(ObjectComprehension(kv[1], kv[2], b), e))
           ELSE Then(Closed(g, IF At(g, k, {","}) THEN ParsePairs(g, k + 1, <<kv>>) ELSE Done(<<kv>>, k), "}"),
                     LAMBDA kvs, e : Done(Object(kvs), e))
      Rest(first, j) ==
        LET k == SkipNewlines(g, j)
        IN IF At(g, k, {":"}) THEN Then(ParseElement(g, k + 1), LAMBDA v, e : Pairs(<<first, v>>, e))
           ELSE IF At(g, k, {"|"})
           THEN Then(Closed(g, ParseBody(g, k + 1, "}"), "}"), LAMBDA b, e : Done(SetComprehension(first, b), e))
           ELSE Then(Closed(g, IF At(g, k, {","}) THEN ParseItems(g, k + 1, "}", <<first>>) ELSE Done(<<first>>, k), "}"),
                     LAMBDA items, e : Done(SetOf(ToSet(items)), e))
  IN IF At(g, at, {"}"}) THEN Done(SetOf({}), at + 1) ELSE Then(ParseElement(g, at), Rest)

ParsePrimary(g, i) ==
  LET type == Peek(g, i)[1]  text == Peek(g, i)[2]
  IN CASE type = "null" -> Done(Null, i + 1)
       [] type \in {"true", "false"} -> Done(Bool(type = "true"), i + 1)
       [] type = "number" -> Done(Num(Number(text)), i + 1)
       [] type = "string" -> Done(Str(text), i + 1)
       [] type \in {"ident", "contains"} -> Done(NameOf(text), i + 1)
       [] type = "[" -> ParseArray(g, i + 1)
       [] type = "{" -> ParseBraces(g, i + 1)
       [] type = "(" -> Closed(g, ParseTerm(g, i + 1), ")")
       [] OTHER -> Bad

\* .field, [index] and (arguments) after a term
RECURSIVE ParsePostfix(_, _)
ParsePostfix(g, r) ==
  IF ~r.ok \/ ~At(g, r.at, {".", "[", "("}) THEN r
  ELSE ParsePostfix(g,
         CASE At(g, r.at, {"."}) ->
                Then(Expect(g, r.at + 1, "ident"), LAMBDA x, j : Done(Ref(Append(RefTerms(r.val), Str(x))), j))
           [] At(g, r.at, {"["}) ->
                Then(Closed(g, ParseTerm(g, r.at + 1), "]"), LAMBDA t, j : Done(Ref(Append(RefTerms(r.val), t)), j))
           [] At(g, r.at, {"("}) ->
                Then(Arguments(g, r.at + 1), LAMBDA as, j : Done(Call(AsPath(RefTerms(r.val)), as), j)))

ParseUnary(g, i) ==
  LET Postfix(j) == ParsePostfix(g, ParsePrimary(g, j))
  IN IF At(g, i, {"-"}) THEN Then(Postfix(i + 1), LAMBDA t, j : Done(Call(<<"minus_unary">>, <<t>>), j))
     ELSE Postfix(i)

Levels == <<{"|"}, {"&"}, {"+", "-"}, {"*", "/", "%"}>>

RECURSIVE ParseLevel(_, _, _)

\* Mutant: the operand on the right takes the rest of its level.
RECURSIVE FoldLevelRight(_, _, _)
FoldLevelRight(g, lhs, k) ==
  IF ~lhs.ok \/ ~At(g, lhs.at, Levels[k]) THEN lhs
  ELSE Then(ParseLevel(g, lhs.at + 1, k),
            LAMBDA rhs, j : Done(Call(<<Peek(g, lhs.at)[2]>>, <<lhs.val, rhs>>), j))

\* The operators of level k are left associative.
RECURSIVE FoldLevel(_, _, _)
FoldLevel(g, lhs, k) ==
  IF ~lhs.ok \/ ~At(g, lhs.at, Levels[k]) THEN lhs
  ELSE FoldLevel(g, Then(ParseLevel(g, lhs.at + 1, k + 1),
                          LAMBDA rhs, j : Done(Call(<<Peek(g, lhs.at)[2]>>, <<lhs.val, rhs>>), j)), k)

ParseLevel(g, i, k) ==
  IF k > Len(Levels) THEN ParseUnary(g, i) ELSE FoldLevel(g, ParseLevel(g, i, k + 1), k)

-----------------------------------------------------------------------------
(* Bodies and expressions *)

Braced(g, i) == Closed(g, ParseBody(g, i, "}"), "}")

Member(terms, domain) ==
  IF Len(terms) = 1 THEN Call(<<"internal.member_2">>, <<terms[1], domain>>)
  ELSE Call(<<"internal.member_3">>, <<terms[1], terms[2], domain>>)

RECURSIVE ParseSome(_, _, _)
ParseSome(g, i, terms) ==
  Then(ParseTerm(g, i), LAMBDA t, j :
    LET all == Append(terms, t)
    IN IF At(g, j, {","}) THEN ParseSome(g, j + 1, all)
       ELSE IF At(g, j, {"in"}) THEN Then(ParseTerm(g, j + 1), LAMBDA d, k : Done(Member(all, d), k))
       ELSE Done(all[1], j))

\* Without a key its variable is $_key.
ParseEvery(g, i) ==
  LET Over(key, value, j) ==
        Then(Expect(g, j, "in"), LAMBDA x, k : Then(ParseTerm(g, k), LAMBDA domain, n :
          Then(Expect(g, n, "{"), LAMBDA y, b : Then(Braced(g, b), LAMBDA body, e :
            Done(Every(key, value, domain, body), e)))))
  IN Then(ParseTerm(g, i), LAMBDA t, j :
       IF At(g, j, {","}) THEN Then(ParseTerm(g, j + 1), LAMBDA v, k : Over(t, v, k))
       ELSE Over(Var("$_key"), t, j))

RECURSIVE ParseWith(_, _, _)
ParseWith(g, i, e) ==
  IF ~At(g, i, {"with"}) THEN Done(e, i)
  ELSE Then(ParseTerm(g, i + 1), LAMBDA target, j : Then(Expect(g, j, "as"), LAMBDA x, k :
         Then(ParseTerm(g, k), LAMBDA v, n : ParseWith(g, n, With(e, target, v)))))

Relations == {"=", "==", "!=", "<", "<=", ">", ">=", ":="}

ParseExpr(g, i) ==
  LET negated == At(g, i, {"not"})
      at == IF negated THEN i + 1 ELSE i
      Signed(t) == [Expr(t) EXCEPT !.negated = negated]
      Related(lhs, j) ==
        IF At(g, j, Relations)
        THEN Then(ParseTerm(g, j + 1), LAMBDA rhs, k : Done(Call(<<Peek(g, j)[2]>>, <<lhs, rhs>>), k))
        ELSE IF At(g, j, {"in"})
        THEN Then(ParseTerm(g, j + 1), LAMBDA rhs, k : Done(Member(<<lhs>>, rhs), k))
        ELSE Done(lhs, j)
  IN IF At(g, at, {"some"}) THEN Then(ParseSome(g, at + 1, <<>>), LAMBDA t, j : Done(Signed(t), j))
     ELSE IF At(g, at, {"every"}) THEN Then(ParseEvery(g, at + 1), LAMBDA t, j : Done(Signed(t), j))
     ELSE Then(Then(ParseTerm(g, at), Related), LAMBDA t, j : ParseWith(g, j, Signed(t)))

\* Newlines and a semicolon may stand between two expressions, nothing has to.
RECURSIVE ParseExprs(_, _, _, _)
ParseExprs(g, i, stop, exprs) ==
  LET More(e, j) ==
        LET k == SkipNewlines(g, j)
        IN ParseExprs(g, IF At(g, k, {";"}) THEN SkipNewlines(g, k + 1) ELSE k, stop, Append(exprs, e))
  IN IF At(g, i, {stop, "EOF"}) THEN Done(exprs, i) ELSE Then(ParseExpr(g, i), More)

-----------------------------------------------------------------------------
(* Rules *)

\* if, braces, both or neither
ParseRuleBody(g, i) ==
  LET at == IF At(g, i, {"if"}) THEN i + 1 ELSE i
  IN IF At(g, at, {"{"}) THEN Braced(g, at + 1)
     ELSE IF at > i THEN Then(ParseExpr(g, at), LAMBDA e, j : Done(<<e>>, j))
     ELSE Done(<<>>, i)

ParseValue(g, i) == IF At(g, i, {"=", ":="}) THEN ParseTerm(g, i + 1) ELSE Done(None, i)

\* An else on a line of its own does not belong to the rule before it.
RECURSIVE ParseElses(_, _, _)
ParseElses(g, i, elses) ==
  IF ~At(g, i, {"else"}) THEN Done(elses, i)
  ELSE Then(ParseValue(g, i + 1), LAMBDA v, j : Then(ParseRuleBody(g, j), LAMBDA b, k :
         ParseElses(g, k, Append(elses, Rule("complete", "", None, v, <<>>, b, <<>>)))))

KindOf(args, key, contains) ==
  CASE contains -> "partial_set"
    [] ~contains /\ args # <<>> -> "function"
    [] OTHER -> IF key # None THEN "partial_object" ELSE "complete"

\* name(args)[key] contains value, or name(args)[key] = value; contains drops the key.
ParseHead(g, i) ==
  LET name == Peek(g, i)[2]
      args == IF At(g, i + 1, {"("}) THEN Arguments(g, i + 2) ELSE Done(<<>>, i + 1)
      Key(j) == IF At(g, j, {"["}) THEN Closed(g, ParseTerm(g, j + 1), "]") ELSE Done(None, j)
      Valued(as, key, j) ==
        IF At(g, j, {"contains"})
        THEN Then(ParseTerm(g, j + 1), LAMBDA v, e : Done(Rule(KindOf(as, key, TRUE), name, None, v, as, <<>>, <<>>), e))
        ELSE Then(ParseValue(g, j), LAMBDA v, e : Done(Rule(KindOf(as, key, FALSE), name, key, v, as, <<>>, <<>>), e))
  IN Then(args, LAMBDA as, j : Then(Key(j), LAMBDA key, k : Valued(as, key, k)))

ParseDefault(g, i) ==
  Then(Expect(g, i, "ident"), LAMBDA name, j :
    IF ~At(g, j, {"=", ":="}) THEN Bad
    ELSE Then(ParseTerm(g, j + 1), LAMBDA v, k : Done(Rule("default", name, None, v, <<>>, <<>>, <<>>), k)))

ParseRule(g, i) ==
  IF At(g, i, {"default"}) THEN ParseDefault(g, i + 1)
  ELSE Then(ParseHead(g, i), LAMBDA head, j : Then(ParseRuleBody(g, j), LAMBDA body, k :
         Then(ParseElses(g, k, <<>>), LAMBDA elses, e : Done([head EXCEPT !.body = body, !.elses = elses], e))))

\* What does not begin a rule is skipped, a token at a time.
RECURSIVE ParseRules(_, _, _)
ParseRules(g, i, rules) ==
  LET at == SkipNewlines(g, i)
      skips == ~At(g, at, {"ident", "default"})
  IN IF At(g, at, {"EOF"}) THEN Done(rules, at)
     ELSE IF skips THEN ParseRules(g, at + 1, rules)
     ELSE Then(ParseRule(g, at), LAMBDA r, j : ParseRules(g, j, Append(rules, r)))

\* The parts of a dotted path; keywords may stand in an import path.
RECURSIVE ParsePath(_, _, _, _)
ParsePath(g, i, types, path) ==
  IF ~At(g, i, types) THEN Bad
  ELSE LET longer == Append(path, Peek(g, i)[2])
       IN IF At(g, i + 1, {"."}) THEN ParsePath(g, i + 2, types, longer) ELSE Done(longer, i + 1)

RECURSIVE ParseImports(_, _, _)
ParseImports(g, i, imports) ==
  LET at == SkipNewlines(g, i)
      Alias(path, j) ==
        IF At(g, j, {"as"}) THEN Then(Expect(g, j + 1, "ident"), LAMBDA x, k : Done(<<path, x>>, k))
        ELSE Done(<<path, "">>, j)
  IN IF ~At(g, at, {"import"}) THEN Done(imports, at)
     ELSE Then(Then(ParsePath(g, at + 1, {"ident"} \cup (Keywords \ {"true", "false", "null", "with"}), <<>>), Alias),
               LAMBDA x, j : ParseImports(g, j, Append(imports, x)))

Grammar(tokens) ==
  LET parse[x \in {"term", "element", "]", "}"} \X (1..Len(tokens) + 1)] ==
        LET g == [tokens |-> tokens, parse |-> parse]
        IN CASE x[1] = "term" -> ParseLevel(g, x[2], 1)
             [] x[1] = "element" -> ParseLevel(g, x[2], 2)
             [] OTHER -> ParseExprs(g, SkipNewlines(g, x[2]), x[1], <<>>)
  IN [tokens |-> tokens, parse |-> parse]

\* parse_module
Parse(tokens) ==
  LET g == Grammar(tokens)
      at == SkipNewlines(g, 1)
  IN Then(Expect(g, at, "package"), LAMBDA x, i : Then(ParsePath(g, i, {"ident"}, <<>>), LAMBDA path, j :
       Then(ParseImports(g, j, <<>>), LAMBDA imports, k : Then(ParseRules(g, k, <<>>), LAMBDA rules, e :
         Done([package |-> path, imports |-> imports, rules |-> rules], e)))))
=============================================================================
