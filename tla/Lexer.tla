-------------------------------- MODULE Lexer --------------------------------
(***************************************************************************)
(* The lexer (ast/lexer.py).  A text is a sequence of characters; a token  *)
(* is a type and a text.  Raw strings and escapes in strings are left out. *)
(***************************************************************************)
EXTENDS Integers, Sequences, SequencesExt, FiniteSetsExt

Letter == {"a", "b", "i", "n", "x"}
Digit == {"0", "1", "2"}
Blank == {" ", "\t"}
NL == "\n"

Keywords == {"in", "if", "not", "some", "every", "else", "default", "with", "as", "contains",
             "package", "import", "true", "false", "null"}
TwoChar == {":=", "==", "!=", "<=", ">="}
SingleChar == {"(", ")", "[", "]", "{", "}", ".", ",", ";", ":", "|", "=", "<", ">", "+", "-",
               "*", "/", "%", "&"}

Text(cs) == FoldLeft(LAMBDA s, c : s \o c, "", cs)

\* The end of the longest run of characters of S from position i on.
Span(cs, i, S) == Min({j \in i..Len(cs) + 1 : j > Len(cs) \/ cs[j] \notin S}) - 1

\* Mutant: the newline goes with the comment.
CommentEndLine(cs, i) == Min({j \in i..Len(cs) : j = Len(cs) \/ cs[j] = NL})

CommentEnd(cs, i) == Min({j \in i..Len(cs) + 1 : j > Len(cs) \/ cs[j] = NL}) - 1

\* The lexeme at i: its type and its end.  A minus sign before a digit begins a number,
\* after whatever it stands.
Lexeme(cs, i) ==
  LET ch == cs[i]
      two == IF i < Len(cs) THEN cs[i] \o cs[i + 1] ELSE ""
      quotes == {j \in i + 1..Len(cs) : cs[j] = "\""}
      word == Span(cs, i, Letter \cup Digit)
      Is(type, end) == [type |-> type, end |-> end]
  IN IF ch \in Blank THEN Is("blank", Span(cs, i, Blank))
     ELSE IF ch = NL THEN Is("newline", i)
     ELSE IF ch = "#" THEN Is("comment", CommentEnd(cs, i))
     ELSE IF ch = "\"" THEN Is(IF quotes = {} THEN "error" ELSE "string", IF quotes = {} THEN i ELSE Min(quotes))
     ELSE IF two \in TwoChar THEN Is(two, i + 1)
     ELSE IF ch \in Digit THEN Is("number", Span(cs, i, Digit))
     ELSE IF ch = "-" /\ i < Len(cs) /\ cs[i + 1] \in Digit THEN Is("number", Span(cs, i + 1, Digit))
     ELSE IF ch \in Letter
     THEN Is(IF Text(SubSeq(cs, i, word)) \in Keywords THEN Text(SubSeq(cs, i, word)) ELSE "ident", word)
     ELSE Is(IF ch \in SingleChar THEN ch ELSE "error", i)

\* The lexemes up to the end or to the first error, blanks and comments included.
RECURSIVE Lexemes(_, _)
Lexemes(cs, i) ==
  IF i > Len(cs) THEN <<>>
  ELSE LET l == Lexeme(cs, i)
           lexeme == <<l.type, SubSeq(cs, i, l.end)>>
       IN IF l.type = "error" THEN <<lexeme>> ELSE <<lexeme>> \o Lexemes(cs, l.end + 1)

\* The parser's constructor takes the comments out; a string loses its quotes.
Tokens(cs) ==
  LET kept == SelectSeq(Lexemes(cs, 1), LAMBDA l : l[1] \notin {"blank", "comment"})
      Value(l) == Text(IF l[1] = "string" THEN SubSeq(l[2], 2, Len(l[2]) - 1) ELSE l[2])
  IN [i \in DOMAIN kept |-> <<kept[i][1], Value(kept[i])>>]
=============================================================================
