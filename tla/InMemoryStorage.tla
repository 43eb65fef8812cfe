--------------------------- MODULE InMemoryStorage ---------------------------
(***************************************************************************)
(* The in-memory backend (storage/inmemory.py).  Documents are objects on  *)
(* a heap: a read transaction holds the store's own document, a write      *)
(* transaction a deep copy.  A change of the store goes through a write    *)
(* transaction whose copy becomes the store's document.                    *)
(***************************************************************************)
CONSTANTS Txns,            \* handles of transactions
          Changes,         \* storage events
          PolicyIds, Raws, \* policies and their sources
          NoPolicy,        \* the source of a policy that is not stored
          Refs, NoRef,     \* places of the heap, and none
          EmptyDoc, Apply(_, _)  \* documents (Documents!Empty, Documents!Changed)

VARIABLES heap,            \* the documents, by reference
          current,         \* InMemoryStorage._data
          policies,        \* InMemoryStorage._policies
          mode, ref        \* _mode and _data of each transaction; CLOSED and NoRef when there is none

vars == <<heap, current, policies, mode, ref>>

Held == {current} \cup {ref[t] : t \in Txns}

Init ==
  /\ current \in Refs /\ heap = [r \in Refs |-> EmptyDoc]
  /\ policies = [p \in PolicyIds |-> NoPolicy]
  /\ mode = [t \in Txns |-> "CLOSED"] /\ ref = [t \in Txns |-> NoRef]

\* What nothing refers to is garbage.
Collected(h, held) == [r \in Refs |-> IF r \in held THEN h[r] ELSE EmptyDoc]

BeginRead(t) ==
  /\ mode[t] = "CLOSED"
  /\ mode' = [mode EXCEPT ![t] = "READ"] /\ ref' = [ref EXCEPT ![t] = current]
  /\ UNCHANGED <<heap, current, policies>>

BeginWrite(t, r) ==
  /\ mode[t] = "CLOSED" /\ r \notin Held
  /\ heap' = [heap EXCEPT ![r] = heap[current]]
  /\ mode' = [mode EXCEPT ![t] = "WRITE"] /\ ref' = [ref EXCEPT ![t] = r]
  /\ UNCHANGED <<current, policies>>

\* A read transaction raises ConflictError.
Write(t, e) ==
  /\ mode[t] = "WRITE"
  /\ heap' = [heap EXCEPT ![ref[t]] = Apply(heap[ref[t]], e)]
  /\ UNCHANGED <<current, policies, mode, ref>>

\* commit and abort: neither writes the copy back.
End(t) ==
  /\ mode[t] # "CLOSED"
  /\ mode' = [mode EXCEPT ![t] = "CLOSED"] /\ ref' = [ref EXCEPT ![t] = NoRef]
  /\ heap' = Collected(heap, {current} \cup {ref[u] : u \in Txns \ {t}})
  /\ UNCHANGED <<current, policies>>

\* Mutant: the document is changed where it is.
ChangeInPlace(e, r) ==
  /\ heap' = [heap EXCEPT ![current] = Apply(heap[current], e)]
  /\ UNCHANGED <<current, policies, mode, ref>>

\* patch_data and remove_data
Change(e, r) ==
  /\ r \notin Held
  /\ heap' = Collected([heap EXCEPT ![r] = Apply(heap[current], e)], {r} \cup {ref[t] : t \in Txns})
  /\ current' = r
  /\ UNCHANGED <<policies, mode, ref>>

UpsertPolicy(id, raw) ==
  /\ policies' = [policies EXCEPT ![id] = raw]
  /\ UNCHANGED <<heap, current, mode, ref>>

\* NotFoundError otherwise
DeletePolicy(id) ==
  /\ policies[id] # NoPolicy
  /\ policies' = [policies EXCEPT ![id] = NoPolicy]
  /\ UNCHANGED <<heap, current, mode, ref>>

Next ==
  \/ \E t \in Txns : BeginRead(t) \/ End(t)
  \/ \E t \in Txns, r \in Refs : BeginWrite(t, r)
  \/ \E t \in Txns, e \in Changes : Write(t, e)
  \/ \E e \in Changes, r \in Refs : Change(e, r)
  \/ \E id \in PolicyIds : DeletePolicy(id) \/ \E raw \in Raws : UpsertPolicy(id, raw)

Spec == Init /\ [][Next]_vars

-----------------------------------------------------------------------------
\* What each transaction reads, and the store the contract describes
View == [t \in Txns |-> IF mode[t] = "CLOSED" THEN EmptyDoc ELSE heap[ref[t]]]
Snapshot == INSTANCE SnapshotStore WITH doc <- heap[current], view <- View

\* Transactions are isolated: a reader sees the document of the moment it began however
\* the store changes meanwhile, although it holds the store's own object, and nothing that
\* a write transaction does is seen outside it (InMemoryTransaction, patch_data).
SnapshotIsolation == Snapshot!Spec
=============================================================================
