------------------------------ MODULE Bindings ------------------------------
(***************************************************************************)
(* The evaluator's bindings (eval/unify.py): one flat table per object and *)
(* an undo stack whose frames list the variables bound since the           *)
(* checkpoint.  Values that _values_equal takes for the same are the same  *)
(* value here; a frame is the set of its variables, which bind() appends   *)
(* once each.                                                              *)
(***************************************************************************)
EXTENDS Naturals, Sequences

CONSTANTS
  Objects,     \* the Bindings objects of one evaluation
  Vars,        \* Rego variables
  Values,
  Unbound,
  MaxDepth     \* bound on nested checkpoints

ASSUME UnboundAssumption == Unbound \notin Values
ASSUME DepthAssumption == MaxDepth \in Nat

VARIABLES
  values,      \* object -> _values
  undo,        \* object -> _undo_stack
  raised       \* the last bind() raised UnificationError

vars == <<values, undo, raised>>

Environment == [Vars -> Values \cup {Unbound}]
NothingBound == [v \in Vars |-> Unbound]

\* A frame lists only variables that are bound.
TypeOK ==
  /\ values \in [Objects -> Environment]
  /\ undo \in [Objects -> Seq(SUBSET Vars)]
  /\ raised \in BOOLEAN
  /\ \A o \in Objects : Len(undo[o]) <= MaxDepth
  /\ \A o \in Objects : \A k \in 1..Len(undo[o]) : \A v \in undo[o][k] :
       values[o][v] # Unbound

Init ==
  /\ values = [o \in Objects |-> NothingBound]
  /\ undo = [o \in Objects |-> <<>>]
  /\ raised = FALSE

-----------------------------------------------------------------------------
Frames(o) == Len(undo[o])
Below(s) == SubSeq(s, 1, Len(s) - 1)
Noted(s, vs) == [s EXCEPT ![Len(s)] = @ \cup vs]

Bind(o, v, x) ==
  \/ /\ values[o][v] # Unbound
     /\ raised' = (values[o][v] # x)
     /\ UNCHANGED <<values, undo>>
  \/ /\ values[o][v] = Unbound
     /\ values' = [values EXCEPT ![o][v] = x]
     /\ undo' = IF Frames(o) = 0 THEN undo ELSE [undo EXCEPT ![o] = Noted(@, {v})]
     /\ raised' = FALSE

Save(o) ==
  /\ Frames(o) < MaxDepth
  /\ undo' = [undo EXCEPT ![o] = Append(@, {})]
  /\ raised' = FALSE
  /\ UNCHANGED values

Undone(env, vs) == [v \in Vars |-> IF v \in vs THEN Unbound ELSE env[v]]

\* Mutant: the frame stays on the stack.
RestoreKeepingFrame(o) ==
  /\ raised' = FALSE
  /\ values' = IF Frames(o) = 0 THEN values
               ELSE [values EXCEPT ![o] = Undone(@, undo[o][Frames(o)])]
  /\ UNCHANGED undo

Restore(o) ==
  /\ raised' = FALSE
  /\ IF Frames(o) = 0 THEN UNCHANGED <<values, undo>>
     ELSE /\ values' = [values EXCEPT ![o] = Undone(@, undo[o][Frames(o)])]
          /\ undo' = [undo EXCEPT ![o] = Below(@)]

\* Mutant: what was bound is not added to the enclosing checkpoint.
CommitForgets(o) ==
  /\ raised' = FALSE
  /\ undo' = IF Frames(o) = 0 THEN undo ELSE [undo EXCEPT ![o] = Below(@)]
  /\ UNCHANGED values

Commit(o) ==
  /\ raised' = FALSE
  /\ undo' = IF Frames(o) = 0 THEN undo
             ELSE IF Frames(o) = 1 THEN [undo EXCEPT ![o] = <<>>]
             ELSE [undo EXCEPT ![o] = Noted(Below(@), @[Len(@)])]
  /\ UNCHANGED values

\* Bindings(), for a query or a rule.
Create(o) ==
  /\ values' = [values EXCEPT ![o] = NothingBound]
  /\ undo' = [undo EXCEPT ![o] = <<>>]
  /\ raised' = FALSE

\* o.copy(): the table and every frame are copied, checkpoints included.
Copy(o, p) ==
  /\ values' = [values EXCEPT ![p] = values[o]]
  /\ undo' = [undo EXCEPT ![p] = undo[o]]
  /\ raised' = FALSE

Next ==
  \E o \in Objects :
    \/ \E v \in Vars, x \in Values : Bind(o, v, x)
    \/ Save(o) \/ Restore(o) \/ Commit(o) \/ Create(o)
    \/ \E p \in Objects : Copy(o, p)

Spec == Init /\ [][Next]_vars

-----------------------------------------------------------------------------
(* Refinement *)

\* The environment at height k: the table env without what was bound under the
\* k-th checkpoint of fs or a later one.
EnvironmentAt(env, fs, k) == Undone(env, UNION {fs[j] : j \in k..Len(fs)})

Stack(env, fs) == [k \in 1..Len(fs) + 1 |-> EnvironmentAt(env, fs, k)]

Envs == [o \in Objects |-> Stack(values[o], undo[o])]

Promise == INSTANCE Environments WITH envs <- Envs

\* The table with its undo stack behaves like a stack of environments: however
\* binds, checkpoints and copies are nested, restore() ("Undo bindings since
\* last save") leads back to the environment of its own checkpoint.
BehavesAsStack == Promise!Spec
=============================================================================
