------------------------------- MODULE Storage -------------------------------
(***************************************************************************)
(* A server with either storage backend (create_app, server/app.py:47-53), *)
(* and what its reads owe to its writes.                                   *)
(***************************************************************************)
EXTENDS Documents

CONSTANTS Txns, MemoryChanges, DiskChanges, PolicyIds, Raws, NoPolicy, Refs, NoRef, Order,
          Fold, Wild, WildTakes

\* Paths are lists of strings.
ASSUME ChangesAssumption == \A e \in MemoryChanges \cup DiskChanges : e.path \in Seq(STRING)

VARIABLES backend,         \* config.storage.backend
          heap, current, mpolicies, mode, ref,   \* the in-memory storage
          rows, dpolicies, saved            \* the disk storage

Memory == INSTANCE InMemoryStorage WITH policies <- mpolicies, Changes <- MemoryChanges,
                                     EmptyDoc <- Empty, Apply <- Changed
Disk == INSTANCE DiskStorage WITH policies <- dpolicies, Changes <- DiskChanges

memoryVars == <<heap, current, mpolicies, mode, ref>>
diskVars == <<rows, dpolicies, saved>>
vars == <<backend, memoryVars, diskVars>>

Init == backend \in {"memory", "disk"} /\ Memory!Init /\ Disk!Init
Next ==
  \/ backend = "memory" /\ Memory!Next /\ UNCHANGED <<backend, diskVars>>
  \/ backend = "disk" /\ Disk!Next /\ UNCHANGED <<backend, memoryVars>>
Spec == Init /\ [][Next]_vars

-----------------------------------------------------------------------------
\* A value written below the root is what a read of its path gives, and one removed is gone
\* unless it is an item of a list; a read of a path that neither leads to the other sees no
\* difference (patch_data, remove_data and _walk of storage/inmemory.py).
MemoryReadsBack ==
  \A e \in MemoryChanges : backend = "memory" /\ e.path # <<>> /\ ~ThroughList(heap[current], e.path) =>
    LET after == Changed(heap[current], e)
    IN /\ WalkTo(after, e.path) = IF e.op = "remove" THEN NotFound ELSE e.value
       /\ \A f \in MemoryChanges : Apart(e.path, f.path) => WalkTo(after, f.path) = WalkTo(heap[current], f.path)

\* SQLite's LIKE takes no row for one below the path that is not.
NoneMistaken(path) == \A key \in DOMAIN rows : Disk!Like(path, key) => IsPrefix(path, key)

\* Segments that differ by more than the case of their letters part the paths.
ApartForLike(p, q) == \E i \in DOMAIN p \cap DOMAIN q : Fold[p[i]] # Fold[q[i]]

\* On disk, whatever rows are above or below the path: what was removed is gone, and what was
\* written is read, unless LIKE takes another's rows for rows below it; and without a "_" in
\* either path a change does not show where the two part by more than the case of letters
\* (DiskTransaction.read and write of storage/disk.py).
DiskReadsBack ==
  \A e \in DiskChanges : backend = "disk" /\ e.path # <<>> =>
    LET after == Disk!Written(rows, e)
    IN /\ e.op = "remove" => Disk!ReadRows(after, e.path) = NotFound
       /\ e.op # "remove" /\ NoneMistaken(e.path) => Disk!ReadRows(after, e.path) = e.value
       /\ \A f \in DiskChanges :
            Disk!Plain(e.path) /\ Disk!Plain(f.path) /\ ApartForLike(e.path, f.path) =>
              Disk!ReadRows(after, f.path) = Disk!ReadRows(rows, f.path)

\* Whatever the backend, a read after a write gives what was written.
ReadsBack == MemoryReadsBack /\ DiskReadsBack

\* No crash and no transaction's abort takes back a change of a policy that was answered
\* (DiskStorage.upsert_policy and delete_policy commit before they return).
PoliciesDurable == saved[2] = dpolicies

\* A reader sees the document of the moment it began, and a writer its own copy
\* (InMemoryTransaction).
SnapshotIsolation == Memory!SnapshotIsolation
=============================================================================
