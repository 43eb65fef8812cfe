---------------------------- MODULE Environments ----------------------------
(***************************************************************************)
(* What the query evaluator expects of its variable bindings: each object  *)
(* is a stack of environments.  A checkpoint keeps the current environment *)
(* and goes on with a copy; restore() returns to what was kept, commit()   *)
(* drops it, and two objects never see each other's bindings.              *)
(***************************************************************************)
EXTENDS Naturals, Sequences

CONSTANTS
  Objects,     \* the Bindings objects of one evaluation
  Vars,        \* Rego variables
  Values,      \* values, up to the equality of bind()
  Unbound

VARIABLES
  envs,        \* object -> its environments, the current one last
  raised       \* the last bind() was refused

vars == <<envs, raised>>

Environment == [Vars -> Values \cup {Unbound}]
NothingBound == [v \in Vars |-> Unbound]

Top(s) == s[Len(s)]
Below(s) == SubSeq(s, 1, Len(s) - 1)
WithTop(s, e) == [s EXCEPT ![Len(s)] = e]

Init ==
  /\ envs = [o \in Objects |-> <<NothingBound>>]
  /\ raised = FALSE

\* Within an environment a variable is bound once.
Bind(o, v, x) ==
  LET old == Top(envs[o])[v]
  IN /\ raised' = (old \notin {Unbound, x})
     /\ envs' = IF old # Unbound THEN envs
                ELSE [envs EXCEPT ![o] = WithTop(@, [Top(@) EXCEPT ![v] = x])]

Save(o) ==
  /\ envs' = [envs EXCEPT ![o] = Append(@, Top(@))]
  /\ raised' = FALSE

Restore(o) ==
  /\ envs' = IF Len(envs[o]) = 1 THEN envs ELSE [envs EXCEPT ![o] = Below(@)]
  /\ raised' = FALSE

Commit(o) ==
  /\ envs' = IF Len(envs[o]) = 1 THEN envs
             ELSE [envs EXCEPT ![o] = WithTop(Below(@), Top(@))]
  /\ raised' = FALSE

Create(o) ==
  /\ envs' = [envs EXCEPT ![o] = <<NothingBound>>]
  /\ raised' = FALSE

Copy(o, p) ==
  /\ envs' = [envs EXCEPT ![p] = envs[o]]
  /\ raised' = FALSE

Next ==
  \E o \in Objects :
    \/ \E v \in Vars, x \in Values : Bind(o, v, x)
    \/ Save(o) \/ Restore(o) \/ Commit(o) \/ Create(o)
    \/ \E p \in Objects : Copy(o, p)

Spec == Init /\ [][Next]_vars
=============================================================================
