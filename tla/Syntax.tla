-------------------------------- MODULE Syntax --------------------------------
(***************************************************************************)
(* From text to syntax tree and back: npa fmt parses a module and prints   *)
(* it, and the printed text is parsed the next time it is loaded.  Below   *)
(* it, the lexer on short texts and the term parser on chains of           *)
(* operators.                                                              *)
(***************************************************************************)
EXTENDS Parser, Formatter

CONSTANTS Modules,         \* syntax trees
          Chains,          \* token sequences: operands with operators between them
          Texts            \* character sequences

VARIABLES source, printed, parsed

syntaxVars == <<source, printed, parsed>>

NoSource == [kind |-> "nothing"]

\* What is parsed ends after its beginning, or at 0 with an error.
NotYet == [ok |-> FALSE, val |-> None, at |-> 1]
Parsed == parsed.at # NotYet.at

SyntaxInit == source = NoSource /\ printed = <<>> /\ parsed = NotYet

LoadModule ==
  /\ source = NoSource
  /\ \E m \in Modules : source' = [kind |-> "module", module |-> m]
  /\ UNCHANGED <<printed, parsed>>

LoadText ==
  /\ source = NoSource
  /\ \E cs \in Texts : source' = [kind |-> "text", chars |-> cs]
  /\ UNCHANGED <<printed, parsed>>

ParseChain ==
  /\ source = NoSource
  /\ \E ts \in Chains : source' = [kind |-> "chain", tokens |-> ts] /\ parsed' = ParseTerm(Grammar(ts), 1)
  /\ UNCHANGED printed

FormatModule ==
  /\ source.kind = "module" /\ printed = <<>>
  /\ printed' = Format(source.module)
  /\ UNCHANGED <<source, parsed>>

ParseModule ==
  /\ source.kind = "module" /\ printed # <<>> /\ ~Parsed
  /\ parsed' = Parse(printed)
  /\ UNCHANGED <<source, printed>>

SyntaxNext == LoadModule \/ LoadText \/ ParseChain \/ FormatModule \/ ParseModule

-----------------------------------------------------------------------------
BindingLevels == <<{"|"}, {"&"}, {"+", "-"}, {"*", "/", "%"}>>
LevelOf(t) ==
  IF Kind(t) = "call" /\ Len(t[3]) = 2 /\ \E k \in DOMAIN BindingLevels : t[2][1] \in BindingLevels[k]
  THEN CHOOSE k \in DOMAIN BindingLevels : t[2][1] \in BindingLevels[k]
  ELSE Len(BindingLevels) + 1

\* A term and the terms in it
RECURSIVE Subterms(_)
Subterms(t) ==
  LET Of(ts) == UNION {Subterms(ts[i]) : i \in DOMAIN ts}
      Body(b) == UNION {Subterms(b[i].terms) \cup UNION {Of(<<w.target, w.value>>) : w \in ToSet(b[i].with)} :
                          i \in DOMAIN b}
  IN {t} \cup CASE Kind(t) \in {"ref", "array"} -> Of(t[2])
                [] Kind(t) = "set" -> UNION {Subterms(x) : x \in t[2]}
                [] Kind(t) = "object" -> UNION {Of(t[2][i]) : i \in DOMAIN t[2]}
                [] Kind(t) = "call" -> Of(t[3])
                [] Kind(t) \in {"array_comprehension", "set_comprehension"} -> Subterms(t[2]) \cup Body(t[3])
                [] Kind(t) = "object_comprehension" -> Of(<<t[2], t[3]>>) \cup Body(t[4])
                [] Kind(t) = "every" -> Of(<<t[2], t[3], t[4]>>) \cup Body(t[5])
                [] OTHER -> {}

\* No operand of the call would need parentheses.
Grouped(t) ==
  LevelOf(t) <= Len(BindingLevels) => LevelOf(t[3][1]) >= LevelOf(t) /\ LevelOf(t[3][2]) > LevelOf(t)

RECURSIVE Yield(_)
Yield(t) == IF Kind(t) = "call" THEN Yield(t[3][1]) \o <<Sym(t[2][1])>> \o Yield(t[3][2]) ELSE FormatTerm(t)

\* A chain of operators becomes the one tree that reads like it and whose operators bind
\* as tightly as they should and to the left.
PrecedenceRespected ==
  source.kind = "chain" =>
    /\ parsed.ok /\ parsed.at = Len(source.tokens) + 1
    /\ Yield(parsed.val) = source.tokens
    /\ \A t \in Subterms(parsed.val) : Grouped(t)

\* A name that the lexer reads as a name, or prints in brackets.
Plain(s) == ~(IsIdentifier(s) /\ s \in Keywords)

\* The printed form has no notation for an empty set or object, "|" and "&", a membership of
\* a key and an every without one, a keyword as a field or in a function's name, and a
\* reference into a string.
Notated(t) ==
  CASE Kind(t) = "set" -> t[2] # {}
    [] Kind(t) = "object" -> t[2] # <<>>
    [] Kind(t) = "ref" -> /\ Kind(t[2][1]) = "str" => t[2][1][2] \in {"data", "input"}
                          /\ \A i \in 2..Len(t[2]) : Kind(t[2][i]) = "str" => Plain(t[2][i][2])
    [] Kind(t) = "call" -> /\ LevelOf(t) > 2 /\ t[2] # <<"internal.member_3">>
                           /\ \A i \in 2..Len(t[2]) : Plain(t[2][i])
    [] Kind(t) = "every" -> t[2] # Var("$_key")
    [] OTHER -> TRUE

\* Nor would the head of a reference need parentheses.
Bare(t) == Grouped(t) /\ (Kind(t) = "ref" => LevelOf(t[2][1]) > Len(BindingLevels))

TermsOf(m) ==
  LET OfRule(r) == {t \in {r.key, r.value} \cup ToSet(r.args) : t # None}
                     \cup UNION {{e.terms} \cup {w.value : w \in ToSet(e.with)} : e \in ToSet(r.body)}
  IN UNION {Subterms(t) : t \in UNION {OfRule(x) : x \in UNION {{r} \cup ToSet(r.elses) : r \in ToSet(m.rules)}}}

\* What the formatter prints of a module that needs neither parentheses nor another notation
\* is parsed to the same module, and whatever the module was, formatting the formatted text
\* again changes nothing.
FormatRoundTrip ==
  source.kind = "module" /\ Parsed =>
    /\ (\A t \in TermsOf(source.module) : Notated(t) /\ Bare(t)) => parsed.ok /\ parsed.val = source.module
    /\ parsed.ok => Format(parsed.val) = printed

\* The formatter "pretty-prints a parsed Module back to source" (format/formatter.py): the
\* text of a module whose terms all have a notation has the module's grouping.
FormatKeepsMeaning ==
  source.kind = "module" /\ Parsed /\ (\A t \in TermsOf(source.module) : Notated(t)) =>
    parsed.ok /\ parsed.val = source.module

-----------------------------------------------------------------------------
\* The lexemes are the text, the parser sees every line end, and blanks between the tokens
\* make no difference.
LexemesFaithful ==
  source.kind = "text" =>
    LET cs == source.chars
        ls == Lexemes(cs, 1)
        seen == SelectSeq(ls, LAMBDA l : l[1] \notin {"blank", "comment"})
        apart == FlattenSeq([i \in DOMAIN seen |-> Append(seen[i][2], " ")])
        Lines(ts, type) == Len(SelectSeq(ts, LAMBDA x : x = type))
    IN \/ \E i \in DOMAIN ls : ls[i][1] = "error"
       \/ /\ FlattenSeq([i \in DOMAIN ls |-> ls[i][2]]) = cs
          /\ Tokens(apart) = Tokens(cs)
          /\ Lines(cs, NL) = Len(SelectSeq(Tokens(cs), LAMBDA t : t[1] = "newline"))
               + FoldLeft(LAMBDA n, l : n + IF l[1] = "string" THEN Lines(l[2], NL) ELSE 0, 0, ls)
=============================================================================
