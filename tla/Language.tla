------------------------------- MODULE Language -------------------------------
(***************************************************************************)
(* What the server does with policy text beside storing it: the evaluator  *)
(* answers queries (Evaluation), the parser and the formatter read and     *)
(* write it (Syntax).  They share no state, so that each is explored with  *)
(* the other at rest.                                                      *)
(***************************************************************************)
EXTENDS Evaluation, Syntax

VARIABLE part              \* the part that is explored

vars == <<part, evaluationVars, syntaxVars>>

Init == part \in {"evaluation", "syntax"} /\ EvaluationInit /\ SyntaxInit

Next ==
  \/ part = "evaluation" /\ EvaluationNext /\ UNCHANGED <<part, syntaxVars>>
  \/ part = "syntax" /\ SyntaxNext /\ UNCHANGED <<part, evaluationVars>>

Spec == Init /\ [][Next]_vars
=============================================================================
