----------------------------- MODULE MCBindings -----------------------------
(* A rule's bindings and a copy of them, two variables, two values, and      *)
(* checkpoints three deep.                                                   *)
EXTENDS Bindings, TLC

CONSTANTS rule, branch, v, w, zero, one
MCObjects == {rule, branch}
MCVars == {v, w}
MCValues == {zero, one}
=============================================================================
