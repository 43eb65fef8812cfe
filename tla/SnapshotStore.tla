---------------------------- MODULE SnapshotStore ----------------------------
(***************************************************************************)
(* What the storage contract promises (storage/base.py: "transactions with *)
(* isolation for concurrent access"): a reader sees the document of the    *)
(* moment it began until it ends, a writer its own copy, and the document  *)
(* changes as a whole.                                                     *)
(***************************************************************************)
CONSTANTS Txns, Changes, EmptyDoc, Apply(_, _)

VARIABLES doc,             \* the document
          mode,            \* CLOSED, READ or WRITE for each transaction
          view             \* what it reads

Init ==
  /\ doc = EmptyDoc
  /\ mode = [t \in Txns |-> "CLOSED"] /\ view = [t \in Txns |-> EmptyDoc]

Open(t) ==
  /\ mode[t] = "CLOSED"
  /\ \E m \in {"READ", "WRITE"} : mode' = [mode EXCEPT ![t] = m]
  /\ view' = [view EXCEPT ![t] = doc]
  /\ UNCHANGED doc

Write(t, e) ==
  /\ mode[t] = "WRITE"
  /\ view' = [view EXCEPT ![t] = Apply(view[t], e)]
  /\ UNCHANGED <<doc, mode>>

Close(t) ==
  /\ mode[t] # "CLOSED"
  /\ mode' = [mode EXCEPT ![t] = "CLOSED"] /\ view' = [view EXCEPT ![t] = EmptyDoc]
  /\ UNCHANGED doc

Change(e) == doc' = Apply(doc, e) /\ UNCHANGED <<mode, view>>

Next ==
  \/ \E t \in Txns : Open(t) \/ Close(t) \/ \E e \in Changes : Write(t, e)
  \/ \E e \in Changes : Change(e)

Spec == Init /\ [][Next]_<<doc, mode, view>>
=============================================================================
