------------------------------ MODULE Formatter ------------------------------
(***************************************************************************)
(* The formatter (format/formatter.py): the tokens of the text it prints,  *)
(* as the lexer reads them again.  Annotations, indentation, escapes and   *)
(* the order of the imports are left out.  What is printed bare is a name: *)
(* the head of a reference and the parts of a function's name.             *)
(***************************************************************************)
EXTENDS Ast, Lexer, TLC

Sym(s) == <<s, s>>
Name(x) ==
  IF x \in Keywords \cup SingleChar THEN Sym(x) ELSE <<IF x = "$_key" THEN "error" ELSE "ident", x>>
NewLine == <<"newline", "\n">>

\* parts with a separator between them
Joined(parts, separator) ==
  FlattenSeq([i \in DOMAIN parts |-> IF i = 1 THEN parts[i] ELSE <<separator>> \o parts[i]])
Dotted(path) == Joined([i \in DOMAIN path |-> <<Name(path[i])>>], Sym("."))

InfixNames == {"=", ":=", "==", "!=", "<", "<=", ">", ">=", "+", "-", "*", "/", "%"}

RECURSIVE FormatTerm(_), FormatExpr(_)

FormatTerms(terms) == Joined([i \in DOMAIN terms |-> FormatTerm(terms[i])], Sym(","))
FormatBody(body, separator) == Joined([i \in DOMAIN body |-> FormatExpr(body[i])], separator)
In(open, tokens, close) == <<Sym(open)>> \o tokens \o <<Sym(close)>>

\* The operands of an infix operator get no parentheses.
FormatCall(names, args) ==
  CASE Len(names) = 1 /\ names[1] \in InfixNames /\ Len(args) = 2 ->
         FormatTerm(args[1]) \o <<Sym(names[1])>> \o FormatTerm(args[2])
    [] names = <<"internal.member_2">> /\ Len(args) = 2 ->
         FormatTerm(args[1]) \o <<Sym("in")>> \o FormatTerm(args[2])
    [] names = <<"internal.member_3">> -> Dotted(<<"internal", "member_3">>) \o In("(", FormatTerms(args), ")")
    [] OTHER -> Dotted(names) \o In("(", FormatTerms(args), ")")

\* str.isidentifier(): no blank, mark or quote in it, and no digit before it; a keyword is one.
IsIdentifier(s) ==
  LET At(i) == SubSeq(s, i, i)
  IN /\ s # "" /\ At(1) \notin Digit
     /\ \A i \in 1..Len(s) : At(i) \notin Blank \cup SingleChar \cup {NL, "\"", "!", "#", "$"}

\* A name at the head is printed bare, an identifier after it as a field.
FormatRef(ts) ==
  LET Part(i) == IF i = 1 THEN IF Kind(ts[1]) \in {"var", "str"} THEN <<Name(ts[1][2])>> ELSE FormatTerm(ts[1])
                 ELSE IF Kind(ts[i]) = "str" /\ IsIdentifier(ts[i][2]) THEN <<Sym("."), Name(ts[i][2])>>
                 ELSE In("[", FormatTerm(ts[i]), "]")
  IN FlattenSeq([i \in DOMAIN ts |-> Part(i)])

FormatTerm(t) ==
  LET Pair(kv) == FormatTerm(kv[1]) \o <<Sym(":")>> \o FormatTerm(kv[2])
      Such(head, body) == head \o <<Sym("|")>> \o FormatBody(body, Sym(";"))
  IN CASE Kind(t) = "null" -> <<Sym("null")>>
       [] Kind(t) = "bool" -> <<Sym(IF t[2] THEN "true" ELSE "false")>>
       [] Kind(t) = "num" -> <<<<"number", ToString(t[2])>>>>
       [] Kind(t) = "str" -> <<<<"string", t[2]>>>>
       [] Kind(t) = "var" -> <<Name(t[2])>>
       [] Kind(t) = "ref" -> FormatRef(t[2])
       [] Kind(t) = "array" -> In("[", FormatTerms(t[2]), "]")
       [] Kind(t) = "object" -> In("{", Joined([i \in DOMAIN t[2] |-> Pair(t[2][i])], Sym(",")), "}")
       [] Kind(t) = "set" -> IF t[2] = {} THEN <<Name("set"), Sym("("), Sym(")")>>
                             ELSE In("{", FormatTerms(SetToSeq(t[2])), "}")
       [] Kind(t) = "call" -> FormatCall(t[2], t[3])
       [] Kind(t) = "array_comprehension" -> In("[", Such(FormatTerm(t[2]), t[3]), "]")
       [] Kind(t) = "set_comprehension" -> In("{", Such(FormatTerm(t[2]), t[3]), "}")
       [] Kind(t) = "object_comprehension" -> In("{", Such(Pair(<<t[2], t[3]>>), t[4]), "}")
       [] Kind(t) = "every" ->
            <<Sym("every")>> \o (IF Kind(t[2]) = "var" THEN FormatTerm(t[2]) \o <<Sym(",")>> ELSE <<>>)
              \o FormatTerm(t[3]) \o <<Sym("in")>> \o FormatTerm(t[4]) \o In("{", FormatBody(t[5], Sym(";")), "}")

\* Mutant: a with-modifier is printed before the next one is looked at, the last one only.
FormatExprLastWith(e) ==
  LET W(w) == <<Sym("with")>> \o FormatTerm(w.target) \o <<Sym("as")>> \o FormatTerm(w.value)
  IN (IF e.negated THEN <<Sym("not")>> ELSE <<>>) \o FormatTerm(e.terms)
       \o (IF e.with = <<>> THEN <<>> ELSE W(Last(e.with)))

FormatExpr(e) ==
  LET W(w) == <<Sym("with")>> \o FormatTerm(w.target) \o <<Sym("as")>> \o FormatTerm(w.value)
  IN (IF e.negated THEN <<Sym("not")>> ELSE <<>>) \o FormatTerm(e.terms)
       \o FlattenSeq([i \in DOMAIN e.with |-> W(e.with[i])])

-----------------------------------------------------------------------------
FormatHead(r) ==
  LET args == IF r.args = <<>> THEN <<>> ELSE In("(", FormatTerms(r.args), ")")
      key == IF r.kind = "partial_object" THEN In("[", FormatTerm(r.key), "]") ELSE <<>>
      value == IF r.value = None THEN <<>> ELSE <<Sym("=")>> \o FormatTerm(r.value)
  IN <<Name(r.name)>> \o IF r.kind = "partial_set" THEN <<Sym("contains")>> \o FormatTerm(r.value)
                         ELSE IF key = <<>> THEN args \o value ELSE key \o value

\* An expression a line
Block(body) ==
  IF body = <<>> THEN <<>> ELSE <<Sym("{"), NewLine>> \o FormatBody(body, NewLine) \o <<NewLine, Sym("}")>>

FormatElse(e) ==
  <<Sym("else")>> \o (IF e.value = None THEN <<>> ELSE <<Sym(":=")>> \o FormatTerm(e.value)) \o Block(e.body)

FormatRule(r) ==
  IF r.kind = "default" THEN <<Sym("default")>> \o FormatHead(r)
  ELSE FormatHead(r) \o Block(r.body) \o FlattenSeq([i \in DOMAIN r.elses |-> FormatElse(r.elses[i])])

\* format_module
Format(m) ==
  LET Imported(x) == <<Sym("import")>> \o Dotted(x[1])
                       \o (IF x[2] = "" THEN <<>> ELSE <<Sym("as"), Name(x[2])>>) \o <<NewLine>>
  IN <<Sym("package")>> \o Dotted(m.package) \o <<NewLine, NewLine>>
       \o FlattenSeq([i \in DOMAIN m.imports |-> Imported(m.imports[i])])
       \o FlattenSeq([i \in DOMAIN m.rules |-> FormatRule(m.rules[i]) \o <<NewLine, NewLine>>])
=============================================================================
