---------------------------- MODULE StorageProofs ----------------------------
(***************************************************************************)
(* What a server's storage keeps for its clients, with either backend and  *)
(* for any documents, changes, policies and number of transactions.        *)
(***************************************************************************)
EXTENDS Storage, DocumentsProofs

\* Whatever transactions begin, write, commit and abort, and wherever the process ends: the
\* table of policies is the committed one, so that no answered change of a policy is undone.
THEOREM PoliciesAlwaysDurable == Spec => []PoliciesDurable
<1>1. Init => PoliciesDurable
  BY DEF Init, Disk!Init, PoliciesDurable
<1>2. PoliciesDurable /\ [Next]_vars => PoliciesDurable'
  <2> SUFFICES ASSUME PoliciesDurable, [Next]_vars PROVE PoliciesDurable'
    OBVIOUS
  <2> USE DEF PoliciesDurable
  <2>1. ASSUME NEW e \in DiskChanges, Disk!Write(e) PROVE PoliciesDurable'
    BY <2>1 DEF Disk!Write
  <2>2. CASE Disk!Commit \/ Disk!Abort \/ Disk!Restart
    BY <2>2 DEF Disk!Commit, Disk!Abort, Disk!Restart
  <2>3. ASSUME NEW id \in PolicyIds,
               Disk!DeletePolicy(id) \/ \E raw \in Raws : Disk!UpsertPolicy(id, raw)
        PROVE  PoliciesDurable'
    BY <2>3 DEF Disk!DeletePolicy, Disk!UpsertPolicy
  <2>4. CASE UNCHANGED diskVars
    BY <2>4 DEF diskVars
  <2> QED BY <2>1, <2>2, <2>3, <2>4 DEF Next, vars, Disk!Next
<1> QED BY <1>1, <1>2, PTL DEF Spec

-----------------------------------------------------------------------------
\* The in-memory backend implements the isolated transactions of the storage contract.

\* Every reference is to a place of the heap, that of an open transaction too.
HeapInv ==
  /\ DOMAIN heap = Refs /\ current \in Refs
  /\ mode \in [Txns -> {"CLOSED", "READ", "WRITE"}]
  /\ ref \in [Txns -> Refs \cup {NoRef}]
  /\ \A t \in Txns : mode[t] # "CLOSED" => ref[t] \in Refs

\* The copy that a write transaction changes is nobody else's.
OwnCopy ==
  \A t \in Txns : mode[t] = "WRITE" =>
    /\ ref[t] # current
    /\ \A u \in Txns \ {t} : mode[u] # "CLOSED" => ref[u] # ref[t]

MemoryInv == HeapInv /\ OwnCopy

\* Nothing is open at the start.
LEMMA InitHeap == Init => MemoryInv
BY DEF Init, Memory!Init, MemoryInv, HeapInv, OwnCopy

\* With the other backend the one in memory rests.
LEMMA MemorySteps == [Next]_vars => [Memory!Next]_memoryVars
BY DEF Next, vars, memoryVars

\* A new document is taken from the heap where nothing refers to it, so that a copy stays private.
LEMMA NextHeap == MemoryInv /\ [Memory!Next]_memoryVars => MemoryInv'
<1> SUFFICES ASSUME MemoryInv, [Memory!Next]_memoryVars PROVE MemoryInv'
  OBVIOUS
<1> USE DEF MemoryInv, HeapInv, OwnCopy
<1>1. ASSUME NEW t \in Txns, Memory!BeginRead(t) PROVE MemoryInv'
  BY <1>1 DEF Memory!BeginRead
<1>2. ASSUME NEW t \in Txns, Memory!End(t) PROVE MemoryInv'
  BY <1>2 DEF Memory!End, Memory!Collected
<1>3. ASSUME NEW t \in Txns, NEW r \in Refs, Memory!BeginWrite(t, r) PROVE MemoryInv'
  BY <1>3 DEF Memory!BeginWrite, Memory!Held
<1>4. ASSUME NEW t \in Txns, NEW e \in MemoryChanges, Memory!Write(t, e) PROVE MemoryInv'
  BY <1>4 DEF Memory!Write
<1>5. ASSUME NEW e \in MemoryChanges, NEW r \in Refs, Memory!Change(e, r) PROVE MemoryInv'
  BY <1>5 DEF Memory!Change, Memory!Held, Memory!Collected
<1>6. ASSUME NEW id \in PolicyIds, NEW raw \in Raws, Memory!UpsertPolicy(id, raw) PROVE MemoryInv'
  BY <1>6 DEF Memory!UpsertPolicy
<1>7. ASSUME NEW id \in PolicyIds, Memory!DeletePolicy(id) PROVE MemoryInv'
  BY <1>7 DEF Memory!DeletePolicy
<1>8. CASE UNCHANGED memoryVars
  BY <1>8 DEF memoryVars
<1> QED BY <1>1, <1>2, <1>3, <1>4, <1>5, <1>6, <1>7, <1>8 DEF Memory!Next

\* Copies are private in every behaviour.
LEMMA Invariance == Spec => []MemoryInv
BY InitHeap, NextHeap, MemorySteps, PTL DEF Spec

\* The empty heap is the empty store.
LEMMA InitRefines == Init => Memory!Snapshot!Init
BY DEF Init, Memory!Init, Memory!Snapshot!Init, Memory!View

\* Every step of the backend is a step of the contract's store, or none of its concern.
LEMMA StepRefines ==
  MemoryInv /\ MemoryInv' /\ [Memory!Next]_memoryVars
    => [Memory!Snapshot!Next]_<<heap[current], mode, Memory!View>>
<1> SUFFICES ASSUME MemoryInv, MemoryInv', [Memory!Next]_memoryVars
             PROVE Memory!Snapshot!Next \/ UNCHANGED <<heap[current], mode, Memory!View>>
  OBVIOUS
<1> USE DEF MemoryInv, HeapInv, OwnCopy
<1>1. ASSUME NEW t \in Txns, Memory!BeginRead(t) PROVE Memory!Snapshot!Open(t)
  <2>1. \A u \in Txns : Memory!View'[u] = [Memory!View EXCEPT ![t] = heap[current]][u]
    BY <1>1 DEF Memory!BeginRead, Memory!View
  <2>2. Memory!View' = [Memory!View EXCEPT ![t] = heap[current]]
    BY <2>1 DEF Memory!View
  <2> QED BY <1>1, <2>2 DEF Memory!BeginRead, Memory!Snapshot!Open
<1>2. ASSUME NEW t \in Txns, Memory!End(t) PROVE Memory!Snapshot!Close(t)
  <2>1. ASSUME NEW u \in Txns \ {t}, mode[u] # "CLOSED" PROVE heap'[ref[u]] = heap[ref[u]]
    BY <1>2, <2>1 DEF Memory!End, Memory!Collected
  <2>2. heap'[current'] = heap[current]
    BY <1>2 DEF Memory!End, Memory!Collected
  <2>3. \A u \in Txns \ {t} : mode'[u] = mode[u] /\ ref'[u] = ref[u]
    BY <1>2 DEF Memory!End
  <2>4. mode'[t] = "CLOSED"
    BY <1>2 DEF Memory!End
  <2>5. \A u \in Txns : Memory!View'[u] = [Memory!View EXCEPT ![t] = Empty][u]
    BY <2>1, <2>3, <2>4 DEF Memory!View
  <2>6. Memory!View' = [Memory!View EXCEPT ![t] = Empty]
    BY <2>5 DEF Memory!View
  <2> QED BY <1>2, <2>2, <2>6 DEF Memory!End, Memory!Snapshot!Close
<1>3. ASSUME NEW t \in Txns, NEW r \in Refs, Memory!BeginWrite(t, r) PROVE Memory!Snapshot!Open(t)
  <2>1. heap'[current'] = heap[current] /\ heap'[r] = heap[current]
    BY <1>3 DEF Memory!BeginWrite, Memory!Held
  <2>2. \A u \in Txns : mode[u] # "CLOSED" => heap'[ref[u]] = heap[ref[u]]
    BY <1>3 DEF Memory!BeginWrite, Memory!Held
  <2>3. \A u \in Txns \ {t} : mode'[u] = mode[u] /\ ref'[u] = ref[u]
    BY <1>3 DEF Memory!BeginWrite
  <2>4. mode'[t] = "WRITE" /\ ref'[t] = r
    BY <1>3 DEF Memory!BeginWrite
  <2>5. \A u \in Txns : Memory!View'[u] = [Memory!View EXCEPT ![t] = heap[current]][u]
    BY <2>1, <2>2, <2>3, <2>4 DEF Memory!View
  <2>6. Memory!View' = [Memory!View EXCEPT ![t] = heap[current]]
    BY <2>5 DEF Memory!View
  <2> QED BY <1>3, <2>1, <2>6 DEF Memory!BeginWrite, Memory!Snapshot!Open
<1>4. ASSUME NEW t \in Txns, NEW e \in MemoryChanges, Memory!Write(t, e)
      PROVE  Memory!Snapshot!Write(t, e)
  <2>1. heap'[current'] = heap[current]
    BY <1>4 DEF Memory!Write
  <2>2. \A u \in Txns : Memory!View'[u] = [Memory!View EXCEPT ![t] = Changed(Memory!View[t], e)][u]
    BY <1>4 DEF Memory!Write, Memory!View
  <2>3. Memory!View' = [Memory!View EXCEPT ![t] = Changed(Memory!View[t], e)]
    BY <2>2 DEF Memory!View
  <2> QED BY <1>4, <2>1, <2>3 DEF Memory!Write, Memory!Snapshot!Write
<1>5. ASSUME NEW e \in MemoryChanges, NEW r \in Refs, Memory!Change(e, r)
      PROVE  Memory!Snapshot!Change(e)
  <2>1. heap'[current'] = Changed(heap[current], e)
    BY <1>5 DEF Memory!Change, Memory!Collected
  <2>2. \A u \in Txns : mode[u] # "CLOSED" => heap'[ref[u]] = heap[ref[u]]
    BY <1>5 DEF Memory!Change, Memory!Held, Memory!Collected
  <2>3. Memory!View' = Memory!View
    BY <1>5, <2>2 DEF Memory!Change, Memory!View
  <2> QED BY <1>5, <2>1, <2>3 DEF Memory!Change, Memory!Snapshot!Change
<1>6. ASSUME NEW id \in PolicyIds,
             Memory!DeletePolicy(id) \/ \E raw \in Raws : Memory!UpsertPolicy(id, raw)
      PROVE UNCHANGED <<heap[current], mode, Memory!View>>
  BY <1>6 DEF Memory!DeletePolicy, Memory!UpsertPolicy, Memory!View
<1>7. CASE UNCHANGED memoryVars
  BY <1>7 DEF memoryVars, Memory!View
<1> QED BY <1>1, <1>2, <1>3, <1>4, <1>5, <1>6, <1>7 DEF Memory!Next, Memory!Snapshot!Next

\* Whatever the documents, the paths and the number of transactions: the in-memory backend
\* gives each transaction the document of the moment it began, and only its own changes.
THEOREM TransactionsIsolated == Spec => SnapshotIsolation
<1>1. Init => Memory!Snapshot!Init
  BY InitRefines
<1>2. MemoryInv /\ MemoryInv' /\ [Memory!Next]_memoryVars
        => [Memory!Snapshot!Next]_<<heap[current], mode, Memory!View>>
  BY StepRefines
<1> QED BY <1>1, <1>2, MemorySteps, Invariance, PTL
        DEF Spec, SnapshotIsolation, Memory!SnapshotIsolation, Memory!Snapshot!Spec

-----------------------------------------------------------------------------
LEMMA MemoryAlwaysReadsBack == MemoryReadsBack
<1> SUFFICES ASSUME NEW e \in MemoryChanges, e.path # <<>>, ~ThroughList(heap[current], e.path)
             PROVE  LET after == Changed(heap[current], e)
                    IN /\ WalkTo(after, e.path) = IF e.op = "remove" THEN NotFound ELSE e.value
                       /\ \A f \in MemoryChanges : Apart(e.path, f.path) =>
                            WalkTo(after, f.path) = WalkTo(heap[current], f.path)
  BY DEF MemoryReadsBack
<1>1. e.path \in Seq(STRING) /\ \A f \in MemoryChanges : f.path \in Seq(STRING)
  BY ChangesAssumption
<1>2. CASE e.op = "remove"
  BY <1>1, <1>2, CutReads, CutApart DEF Changed
<1>3. CASE e.op # "remove"
  BY <1>1, <1>3, GrownReads, GrownApart DEF Changed, Put
<1> QED BY <1>2, <1>3

\* The rows that LIKE takes for a path without a "_" have its segments, but for the case.
LEMMA LikeIs ==
  ASSUME NEW p, Disk!Plain(p), NEW key \in Seq(STRING), Disk!Like(p, key)
  PROVE  \A i \in DOMAIN p : i \in DOMAIN key /\ Fold[p[i]] = Fold[key[i]]
<1>1. PICK n \in 1..Len(key) - 1 : Disk!Takes(p, SubSeq(key, 1, n))
  BY DEF Disk!Like
<1>2. DOMAIN p = DOMAIN SubSeq(key, 1, n) /\ \A i \in DOMAIN p : Fold[p[i]] = Fold[SubSeq(key, 1, n)[i]]
  BY <1>1 DEF Disk!Takes
<1>3. n \in 1..Len(key) /\ Len(key) \in Nat /\ DOMAIN key = 1..Len(key)
  BY LenProperties
<1>4. \A i \in 1..n : key[i] \in STRING
  BY <1>3, ElementOfSeq
<1>5. /\ SubSeq(key, 1, n) \in Seq(STRING) /\ Len(SubSeq(key, 1, n)) = n
      /\ \A i \in 1..n : SubSeq(key, 1, n)[i] = key[i]
  BY <1>3, <1>4, SubSeqProperties
<1>6. DOMAIN SubSeq(key, 1, n) = 1..n
  BY <1>5, LenProperties
<1> QED BY <1>2, <1>3, <1>5, <1>6

\* Every row's key is a path.
RowsInv == \A key \in DOMAIN rows \cup DOMAIN saved[1] : key \in Seq(STRING)

LEMMA KeysArePaths == Spec => []RowsInv
<1>1. Init => RowsInv
  BY DEF Init, Disk!Init, RowsInv
<1>2. RowsInv /\ [Next]_vars => RowsInv'
  <2> SUFFICES ASSUME RowsInv, [Next]_vars PROVE RowsInv'
    OBVIOUS
  <2> USE DEF RowsInv
  <2>1. ASSUME NEW e \in DiskChanges, Disk!Write(e) PROVE RowsInv'
    BY <2>1, ChangesAssumption DEF Disk!Write, Disk!Written, Disk!Removed, Disk!Stored
  <2>2. CASE Disk!Commit \/ Disk!Abort \/ Disk!Restart
    BY <2>2 DEF Disk!Commit, Disk!Abort, Disk!Restart
  <2>3. ASSUME NEW id \in PolicyIds,
               Disk!DeletePolicy(id) \/ \E raw \in Raws : Disk!UpsertPolicy(id, raw)
        PROVE  RowsInv'
    BY <2>3 DEF Disk!DeletePolicy, Disk!UpsertPolicy
  <2>4. CASE UNCHANGED diskVars
    BY <2>4 DEF diskVars
  <2> QED BY <2>1, <2>2, <2>3, <2>4 DEF Next, vars, Disk!Next
<1> QED BY <1>1, <1>2, PTL DEF Spec

LEMMA DiskAlwaysReadsBack == RowsInv => DiskReadsBack
<1> SUFFICES ASSUME RowsInv, NEW e \in DiskChanges, e.path # <<>>
             PROVE  LET after == Disk!Written(rows, e)
                    IN /\ e.op = "remove" => Disk!ReadRows(after, e.path) = NotFound
                       /\ e.op # "remove" /\ NoneMistaken(e.path) => Disk!ReadRows(after, e.path) = e.value
                       /\ \A f \in DiskChanges :
                            Disk!Plain(e.path) /\ Disk!Plain(f.path) /\ ApartForLike(e.path, f.path) =>
                              Disk!ReadRows(after, f.path) = Disk!ReadRows(rows, f.path)
  BY DEF DiskReadsBack
<1> DEFINE p == e.path
           after == Disk!Written(rows, e)
<1>1. p \in Seq(STRING) /\ \A f \in DiskChanges : f.path \in Seq(STRING)
  BY ChangesAssumption
<1>2. /\ e.op = "remove" =>
           /\ DOMAIN after = {k \in DOMAIN rows : k # p /\ ~Disk!Like(p, k)}
           /\ \A k \in DOMAIN after : after[k] = rows[k]
      /\ e.op # "remove" =>
           /\ DOMAIN after = DOMAIN rows \cup {p}
           /\ \A k \in DOMAIN after : after[k] = IF k = p THEN e.value ELSE rows[k]
  BY DEF Disk!Written, Disk!Removed, Disk!Stored
<1> HIDE DEF after
<1>3. ASSUME e.op = "remove" PROVE Disk!ReadRows(after, p) = NotFound
  <2>1. p \notin DOMAIN after /\ Disk!Below(after, p) = {}
    BY <1>2, <1>3 DEF Disk!Below
  <2> QED BY <2>1 DEF Disk!ReadRows, Disk!NotFound, NotFound
<1>4. ASSUME e.op # "remove", NoneMistaken(p) PROVE Disk!ReadRows(after, p) = e.value
  <2>1. p \in DOMAIN after /\ after[p] = e.value
    BY <1>2, <1>4
  <2>2. IsPrefix(p, p)
    BY <1>1, SubSeqFull DEF IsPrefix
  <2>3. \A key \in Disk!Below(after, p) : IsPrefix(p, key)
    BY <1>2, <1>4, <2>2 DEF Disk!Below, NoneMistaken
  <2>4. Disk!Mistaken(after, p) = {}
    BY <2>3 DEF Disk!Mistaken, Disk!IsPrefix, IsPrefix
  <2> QED BY <2>1, <2>4 DEF Disk!ReadRows
<1>5. ASSUME NEW f \in DiskChanges, Disk!Plain(p), Disk!Plain(f.path), ApartForLike(p, f.path)
      PROVE  Disk!ReadRows(after, f.path) = Disk!ReadRows(rows, f.path)
  <2> DEFINE q == f.path
  <2>1. PICK i \in DOMAIN p \cap DOMAIN q : Fold[p[i]] # Fold[q[i]]
    BY <1>5 DEF ApartForLike
  <2>2. q \in Seq(STRING) /\ p # q /\ q # <<>>
    BY <1>1, <2>1
  <2>3. ~Disk!Like(p, q) /\ ~Disk!Like(q, p)
    BY <1>1, <1>5, <2>1, LikeIs
  <2>4. q \in DOMAIN after <=> q \in DOMAIN rows
    BY <1>2, <2>2, <2>3
  <2>5. q \in DOMAIN after => after[q] = rows[q]
    BY <1>2, <2>2, <2>3
  <2>6. \A k \in DOMAIN rows : Disk!Like(q, k) => k # p /\ ~Disk!Like(p, k)
    BY <1>5, <2>1, <2>3, LikeIs DEF RowsInv
  <2>7. Disk!Below(after, q) = Disk!Below(rows, q)
    BY <1>2, <2>2, <2>3, <2>6 DEF Disk!Below
  <2>8. \A k \in Disk!Below(rows, q) : after[k] = rows[k]
    BY <1>2, <2>2, <2>6, <2>7 DEF Disk!Below
  <2>9. Disk!Mistaken(after, q) = Disk!Mistaken(rows, q)
    BY <2>7 DEF Disk!Mistaken
  <2>10. /\ Disk!Rows(after, Disk!Below(after, q)) = Disk!Rows(rows, Disk!Below(rows, q))
         /\ Disk!Rows(after, Disk!Mistaken(after, q)) = Disk!Rows(rows, Disk!Mistaken(rows, q))
    BY <2>7, <2>8, <2>9 DEF Disk!Rows, Disk!Mistaken
  <2> QED BY <2>4, <2>5, <2>7, <2>9, <2>10 DEF Disk!ReadRows
<1> QED BY <1>3, <1>4, <1>5 DEF after

\* Whatever the documents, the rows, the changes and the depth of their paths: with either
\* backend a read after a write gives what was written, one after a removal gives nothing,
\* and a read of a path that parts from the written one is as before; on disk as far as
\* LIKE tells paths apart.
THEOREM AlwaysReadsBack == Spec => []ReadsBack
<1>1. RowsInv => ReadsBack
  BY MemoryAlwaysReadsBack, DiskAlwaysReadsBack DEF ReadsBack
<1> QED BY <1>1, KeysArePaths, PTL
=============================================================================
