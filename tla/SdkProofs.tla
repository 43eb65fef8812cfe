------------------------------ MODULE SdkProofs ------------------------------
(***************************************************************************)
(* The SDK's evaluator and its query cache, for any texts, bundles and     *)
(* deltas, and for any keys, values, size of the cache and time to live.   *)
(***************************************************************************)
EXTENDS Sdk, DocumentsProofs

-----------------------------------------------------------------------------
\* The evaluator

Current == outcome = "ok" => modules = <<>> \/ evaluator = modules

\* What every step owes to the evaluator
Whole ==
  /\ evaluator' # evaluator => evaluator' = modules' /\ Range(modules') \cap BadTexts = {}
  /\ outcome' = "ok" => modules' = <<>> \/ evaluator' = modules'

\* A rebuild keeps the evaluator, or makes it one of all the texts there are.
LEMMA RebuildWhole == ASSUME NEW texts, Rebuild(texts) PROVE Whole
BY DEF Rebuild, Rebuilt, Whole

LEMMA StepWhole == Current /\ [Next]_vars => Whole
<1> SUFFICES ASSUME Current, [Next]_vars PROVE Whole
  OBVIOUS
<1>1. \A texts : Rebuild(texts) => Whole
  BY RebuildWhole
<1>2. modules' = modules /\ evaluator' = evaluator /\ outcome' = outcome => Whole
  BY DEF Current, Whole
<1>3. \A bundle : LoadBundle(bundle) => Whole
  <2> SUFFICES ASSUME NEW bundle, LoadBundle(bundle) PROVE Whole
    OBVIOUS
  <2>1. CASE GetData(bundle.files) = Failed
    BY <2>1 DEF LoadBundle, Whole
  <2>2. CASE GetData(bundle.files) # Failed
    <3>1. Rebuild(Updated(modules, GetPolicies(bundle.files)))
      BY <2>2 DEF LoadBundle
    <3> QED BY <1>1, <3>1
  <2> QED BY <2>1, <2>2
<1>4. ASSUME NEW id \in Ids, RemovePolicy(id) \/ \E text \in Texts : LoadPolicies([p \in {id} |-> text])
      PROVE  Whole
  BY <1>1, <1>4 DEF RemovePolicy, LoadPolicies
<1>5. ASSUME NEW e \in DataChanges, LoadData(e) PROVE Whole
  BY <1>2, <1>5 DEF LoadData
<1>6. ASSUME NEW members \in Archives, LoadBundleFromFile(members) PROVE Whole
  BY <1>3, <1>6 DEF LoadBundleFromFile
<1>7. ASSUME NEW tree \in Trees, LoadBundleFromDir(tree) PROVE Whole
  BY <1>3, <1>7 DEF LoadBundleFromDir
<1>8. ASSUME NEW files \in Deltas, ApplyDeltaBundle(files) PROVE Whole
  BY <1>1, <1>2, <1>8 DEF ApplyDeltaBundle
<1>9. CASE UNCHANGED engineVars
  BY <1>2, <1>9 DEF engineVars
<1>10. CASE EngineNext
  BY <1>4, <1>5, <1>6, <1>7, <1>8, <1>10 DEF EngineNext
<1> QED BY <1>9, <1>10 DEF Next, vars

\* Queries are never answered by some of the policies: whatever is loaded, removed and
\* patched, and whatever fails, the evaluator changes only to one of every text, all of
\* which parse, and it is that one after each call that returns.
THEOREM EvaluatorAlwaysWhole == Spec => EvaluatorWhole
<1>1. Init => Current
  BY DEF Init, Current
<1>2. Current /\ [Next]_vars => Current'
  BY StepWhole DEF Current, Whole
<1>3. Current /\ [Next]_vars => [Whole]_vars
  BY StepWhole
<1> QED BY <1>1, <1>2, <1>3, PTL DEF Spec, EvaluatorWhole, Whole

-----------------------------------------------------------------------------
\* The order of the cache

\* A strict total order of the members of S
Linear(rel, S) ==
  /\ rel \subseteq S \X S
  /\ \A i, j \in S : i # j => <<i, j>> \in rel \/ <<j, i>> \in rel
  /\ \A i, j \in S : ~(<<i, j>> \in rel /\ <<j, i>> \in rel)
  /\ \A i, j, l \in S : <<i, j>> \in rel /\ <<j, l>> \in rel => <<i, l>> \in rel

LEMMA LinearWithin ==
  ASSUME NEW S, NEW rel, Linear(rel, S), NEW T \in SUBSET S
  PROVE  Linear(Cache!Within(rel, T), T)
<1>1. \A i, j \in T : <<i, j>> \in Cache!Within(rel, T) <=> <<i, j>> \in rel
  BY DEF Cache!Within
<1>2. Cache!Within(rel, T) \subseteq T \X T
  BY DEF Cache!Within, Linear
<1> QED BY <1>1, <1>2 DEF Linear

\* move_to_end keeps the order of the others.
LEMMA LinearAtEnd ==
  ASSUME NEW S, NEW rel, Linear(rel, S), NEW T, NEW k \in T, T \ {k} \subseteq S
  PROVE  Linear(Cache!AtEnd(rel, T, k), T)
<1> DEFINE new == Cache!AtEnd(rel, T, k)
<1>1. \A i, j : <<i, j>> \in new <=>
        \/ i \in T \ {k} /\ j \in T \ {k} /\ <<i, j>> \in rel
        \/ i \in T \ {k} /\ j = k
  BY DEF Cache!AtEnd, Cache!Within
<1>2. new \subseteq T \X T
  BY DEF Cache!AtEnd, Cache!Within, Linear
<1> HIDE DEF new
<1>3. \A i, j \in T : i # j => <<i, j>> \in new \/ <<j, i>> \in new
  BY <1>1 DEF Linear
<1>4. \A i, j \in T : ~(<<i, j>> \in new /\ <<j, i>> \in new)
  BY <1>1 DEF Linear
<1>5. \A i, j, l \in T : <<i, j>> \in new /\ <<j, l>> \in new => <<i, l>> \in new
  BY <1>1 DEF Linear
<1>6. Linear(new, T)
  BY <1>2, <1>3, <1>4, <1>5 DEF Linear
<1> QED BY <1>6 DEF new

\* A finite set that is not empty has a first element.
LEMMA FirstExists ==
  ASSUME NEW S, IsFiniteSet(S), S # {}, NEW rel, Linear(rel, S)
  PROVE  \E k \in S : \A j \in S \ {k} : <<k, j>> \in rel
<1> DEFINE Before(k) == {j \in S : <<j, k>> \in rel}
           T == {Before(k) : k \in S}
<1>1. T \subseteq FiniteSubsetsOf(S) /\ T # {}
  <2>1. FiniteSubsetsOf(S) = SUBSET S
    BY FS_FiniteSubsetsOfFinite
  <2>2. \A k \in S : Before(k) \in SUBSET S
    OBVIOUS
  <2> HIDE DEF Before
  <2>3. PICK k \in S : TRUE
    OBVIOUS
  <2>4. Before(k) \in T
    OBVIOUS
  <2> QED BY <2>1, <2>2, <2>4
<1>2. \E x \in T : \A y \in T : ~(<<y, x>> \in StrictSubsetOrdering(S))
  BY <1>1, FS_StrictSubsetOrderingWellFounded, WFMin
<1>3. PICK k \in S : \A i \in S : ~(<<Before(i), Before(k)>> \in StrictSubsetOrdering(S))
  BY <1>2
<1>4. ASSUME NEW i \in S, <<i, k>> \in rel PROVE FALSE
  <2>1. Before(i) \subseteq Before(k)
    BY <1>4 DEF Linear
  <2>2. i \in Before(k) /\ i \notin Before(i)
    BY <1>4 DEF Linear
  <2> QED BY <1>3, <2>1, <2>2 DEF StrictSubsetOrdering
<1> QED BY <1>4 DEF Linear

-----------------------------------------------------------------------------
\* The cache

Entries == [value : Values \cup {"none"}, created_at : Nat]

\* An entry is what was put last under its key; the order is that of the last uses.
CacheInv ==
  /\ clock \in Nat /\ put \in [Keys -> Entries]
  /\ DOMAIN store \subseteq Keys /\ IsFiniteSet(DOMAIN store)
  /\ \A k \in DOMAIN store : store[k] = put[k]
  /\ last_use \subseteq Keys \X Keys
  /\ order = Cache!Within(last_use, DOMAIN store)
  /\ Linear(order, DOMAIN store)
  /\ Cardinality(DOMAIN store) <= MaxSize

LEMMA InitCacheInv == Init => CacheInv
<1> SUFFICES ASSUME Init PROVE CacheInv
  OBVIOUS
<1>1. /\ clock = 0 /\ DOMAIN store = {} /\ order = {} /\ last_use = {}
      /\ put = [k \in Keys |-> [value |-> "none", created_at |-> 0]]
  BY DEF Init, Cache!Init, Cache!Nothing
<1>2. IsFiniteSet({}) /\ Cardinality({}) = 0
  BY FS_EmptySet
<1>3. order = Cache!Within(last_use, DOMAIN store) /\ Linear(order, DOMAIN store)
  BY <1>1 DEF Cache!Within, Linear
<1> QED BY <1>1, <1>2, <1>3, CacheAssumption DEF CacheInv, Entries

\* A use moves a key to the end of the dictionary as it does in the history.
LEMMA UseKeepsOrder ==
  ASSUME NEW D \in SUBSET Keys, NEW T \in SUBSET Keys, NEW k \in T, T \ {k} \subseteq D,
         last_use \subseteq Keys \X Keys, order = Cache!Within(last_use, D), Linear(order, D)
  PROVE  /\ Cache!AtEnd(last_use, Keys, k) \subseteq Keys \X Keys
         /\ Cache!AtEnd(order, T, k) = Cache!Within(Cache!AtEnd(last_use, Keys, k), T)
         /\ Linear(Cache!AtEnd(order, T, k), T)
<1>1. Linear(Cache!AtEnd(order, T, k), T)
  BY LinearAtEnd
<1>2. Cache!AtEnd(last_use, Keys, k) \subseteq Keys \X Keys
  BY DEF Cache!AtEnd, Cache!Within
<1>3. \A i, j : <<i, j>> \in Cache!AtEnd(order, T, k)
                  <=> <<i, j>> \in Cache!Within(Cache!AtEnd(last_use, Keys, k), T)
  BY DEF Cache!AtEnd, Cache!Within
<1>4. /\ Cache!AtEnd(order, T, k) \subseteq Keys \X Keys
      /\ Cache!Within(Cache!AtEnd(last_use, Keys, k), T) \subseteq Keys \X Keys
  BY <1>1, <1>2 DEF Linear, Cache!Within
<1> QED BY <1>1, <1>2, <1>3, <1>4

\* What stays when a key is put: all of a dictionary with room, and else all but the first.
LEMMA StayingFits ==
  ASSUME CacheInv, NEW k \in Keys
  PROVE  /\ Cache!Staying(k) \subseteq DOMAIN store /\ IsFiniteSet(Cache!Staying(k) \cup {k})
         /\ Cardinality(Cache!Staying(k) \cup {k}) <= MaxSize
         /\ \A j \in DOMAIN store \ Cache!Staying(k) : \A l \in DOMAIN store \ {j} :
              l \in Cache!Staying(k) /\ <<j, l>> \in order
<1> DEFINE D == DOMAIN store
<1>1. IsFiniteSet(D) /\ Cardinality(D) <= MaxSize /\ Cardinality(D) \in Nat /\ Linear(order, D)
  BY FS_CardinalityType DEF CacheInv
<1>2. Cache!Cardinality(D) = Cardinality(D)
  BY DEF Cache!Cardinality, Cardinality
<1>3. CASE k \in D
  <2>1. Cache!Staying(k) = D /\ D \cup {k} = D
    BY <1>3 DEF Cache!Staying
  <2> QED BY <1>1, <2>1
<1>4. CASE k \notin D /\ Cardinality(D) < MaxSize
  <2>1. Cache!Staying(k) = D
    BY <1>2, <1>4 DEF Cache!Staying
  <2>2. IsFiniteSet(D \cup {k}) /\ Cardinality(D \cup {k}) = Cardinality(D) + 1
    BY <1>1, <1>4, FS_AddElement
  <2> QED BY <1>1, <1>4, <2>1, <2>2, CacheAssumption
<1>5. CASE k \notin D /\ ~(Cardinality(D) < MaxSize)
  <2>1. Cache!Staying(k) = D \ Cache!Oldest
    BY <1>2, <1>5 DEF Cache!Staying
  <2>2. D # {}
    BY <1>1, <1>5, FS_EmptySet, CacheAssumption
  <2>3. PICK first \in D : \A l \in D \ {first} : <<first, l>> \in order
    BY <1>1, <2>2, FirstExists
  <2>4. Cache!Oldest = {first}
    BY <1>1, <2>3 DEF Cache!Oldest, Linear
  <2>5. IsFiniteSet(D \ {first}) /\ Cardinality(D \ {first}) = Cardinality(D) - 1
    BY <1>1, FS_RemoveElement
  <2>6. k \notin D \ {first}
    BY <1>5
  <2>7. /\ IsFiniteSet((D \ {first}) \cup {k})
        /\ Cardinality((D \ {first}) \cup {k}) = Cardinality(D \ {first}) + 1
    BY <2>5, <2>6, FS_AddElement
  <2> QED BY <1>1, <2>1, <2>3, <2>4, <2>5, <2>7, CacheAssumption
<1> QED BY <1>3, <1>4, <1>5

\* Deletions keep the order of what stays; a key that is not there any more may have been
\* forgotten by put.
LEMMA KeepKeepsInv ==
  ASSUME CacheInv, NEW keys \in SUBSET DOMAIN store, Cache!Keep(keys),
         put' \in [Keys -> Entries], \A k \in keys : put'[k] = put[k],
         clock' = clock, last_use' = last_use
  PROVE  CacheInv'
<1>1. DOMAIN store' = keys /\ \A k \in keys : store'[k] = store[k]
  BY DEF Cache!Keep
<1>2. IsFiniteSet(keys) /\ Cardinality(keys) <= Cardinality(DOMAIN store)
      /\ Cardinality(keys) \in Nat /\ Cardinality(DOMAIN store) \in Nat
  BY FS_Subset, FS_CardinalityType DEF CacheInv
<1>3. order' = Cache!Within(last_use', DOMAIN store')
  BY <1>1 DEF CacheInv, Cache!Keep, Cache!Within
<1>4. Linear(order', DOMAIN store')
  BY <1>1, LinearWithin DEF CacheInv, Cache!Keep
<1>5. Cardinality(keys) <= MaxSize
  BY <1>2, CacheAssumption DEF CacheInv
<1> QED BY <1>1, <1>2, <1>3, <1>4, <1>5 DEF CacheInv

LEMMA GetKeepsInv == ASSUME CacheInv, NEW k \in Keys, Cache!Get(k) PROVE CacheInv'
<1>1. clock' = clock /\ put' = put
  BY DEF Cache!Get
<1>2. CASE UNCHANGED <<store, order, last_use>>
  BY <1>1, <1>2 DEF CacheInv
<1>3. CASE Cache!Keep(DOMAIN store \ {k}) /\ UNCHANGED last_use
  <2>1. put' \in [Keys -> Entries] /\ \A j \in DOMAIN store \ {k} : put'[j] = put[j]
    BY <1>1 DEF CacheInv
  <2> QED BY <1>1, <1>3, <2>1, KeepKeepsInv
<1>4. CASE k \in DOMAIN store /\ Cache!Hit(k)
  <2>1. /\ last_use' = Cache!AtEnd(last_use, Keys, k) /\ store' = store
        /\ order' = Cache!AtEnd(order, DOMAIN store, k)
    BY <1>4 DEF Cache!Hit, Cache!Used
  <2>2. /\ last_use' \subseteq Keys \X Keys
        /\ order' = Cache!Within(last_use', DOMAIN store) /\ Linear(order', DOMAIN store)
    BY <1>4, <2>1, UseKeepsOrder DEF CacheInv
  <2> QED BY <1>1, <2>1, <2>2 DEF CacheInv
<1> QED BY <1>2, <1>3, <1>4 DEF Cache!Get

LEMMA PutKeepsInv ==
  ASSUME CacheInv, NEW k \in Keys, NEW v \in Values, Cache!Put(k, v)
  PROVE  CacheInv'
<1> DEFINE e == [value |-> v, created_at |-> clock]
           T == Cache!Staying(k) \cup {k}
<1>1. /\ store' = [j \in T |-> IF j = k THEN e ELSE store[j]] /\ clock' = clock
      /\ order' = Cache!AtEnd(order, T, k) /\ last_use' = Cache!AtEnd(last_use, Keys, k)
      /\ put' = [put EXCEPT ![k] = e]
  BY DEF Cache!Put, Cache!Stored, Cache!Used
<1>2. T \subseteq Keys /\ T \ {k} \subseteq DOMAIN store /\ IsFiniteSet(T) /\ Cardinality(T) <= MaxSize
  BY StayingFits DEF CacheInv
<1>3. e \in Entries
  BY DEF CacheInv, Entries
<1> HIDE DEF e, T
<1>4. put' \in [Keys -> Entries]
  BY <1>1, <1>3 DEF CacheInv
<1>5. DOMAIN store' = T /\ \A j \in T : store'[j] = put'[j]
  BY <1>1, <1>2 DEF CacheInv
<1>6. k \in T
  BY DEF T
<1>7. last_use' \subseteq Keys \X Keys /\ order' = Cache!Within(last_use', T) /\ Linear(order', T)
  BY <1>1, <1>2, <1>6, UseKeepsOrder DEF CacheInv
<1> QED BY <1>1, <1>2, <1>4, <1>5, <1>7 DEF CacheInv

LEMMA NextCacheInv == CacheInv /\ [Next]_vars => CacheInv'
<1> SUFFICES ASSUME CacheInv, [Next]_vars PROVE CacheInv'
  OBVIOUS
<1>1. CASE Cache!Tick
  BY <1>1 DEF Cache!Tick, CacheInv
<1>2. ASSUME NEW keys \in SUBSET Keys, Cache!Invalidate(keys) PROVE CacheInv'
  <2>1. put' \in [Keys -> Entries]
    BY <1>2 DEF Cache!Invalidate, Cache!Nothing, CacheInv, Entries
  <2>2. \A k \in DOMAIN store \ keys : put'[k] = put[k]
    BY <1>2 DEF Cache!Invalidate, CacheInv
  <2> QED BY <1>2, <2>1, <2>2, KeepKeepsInv DEF Cache!Invalidate
<1>3. CASE UNCHANGED cacheVars
  BY <1>3 DEF cacheVars, CacheInv
<1>4. CASE Cache!Next
  <2>1. \A keys \in {{k} : k \in Keys} \cup Modules \cup {Keys} : keys \in SUBSET Keys
    BY CacheAssumption
  <2> QED BY <1>1, <1>2, <1>4, <2>1, GetKeepsInv, PutKeepsInv DEF Cache!Next
<1> QED BY <1>3, <1>4 DEF Next, vars

\* A hit answers with the value that was put last under its key and not invalidated since,
\* at most a time to live ago, whatever was evicted, expired and put again in between.
THEOREM AlwaysAnswersLastPut == Spec => AnswersLastPut
<1> DEFINE Answers ==
      answer' # answer /\ answer' # Cache!Miss =>
        answer'.entry = put[answer'.key] /\ clock - answer'.entry.created_at <= Ttl
<1>1. CacheInv /\ [Next]_vars => [Answers]_(Cache!vars)
  <2> SUFFICES ASSUME CacheInv, [Next]_vars, answer' # answer, answer' # Cache!Miss
               PROVE  answer'.entry = put[answer'.key] /\ clock - answer'.entry.created_at <= Ttl
    OBVIOUS
  <2>1. PICK k \in Keys : Cache!Get(k)
    BY DEF Next, vars, cacheVars, Cache!Next, Cache!Tick, Cache!Put, Cache!Invalidate
  <2>2. k \in DOMAIN store /\ ~Cache!Expired(store[k]) /\ answer' = [key |-> k, entry |-> store[k]]
    BY <2>1 DEF Cache!Get, Cache!Hit
  <2>3. store[k] = put[k] /\ put[k].created_at \in Nat /\ clock \in Nat
    BY <2>2 DEF CacheInv, Entries
  <2>4. clock - store[k].created_at <= Ttl
    BY <2>2, <2>3, CacheAssumption DEF Cache!Expired
  <2> QED BY <2>2, <2>3, <2>4
<1> QED BY <1>1, InitCacheInv, NextCacheInv, PTL DEF Spec, AnswersLastPut, Cache!AnswersLastPut

\* The cache keeps its bound, and a put that needs room drops the one entry that was used,
\* by a get or a put, before all the others.
THEOREM AlwaysEvictsLeastRecent == Spec => EvictsLeastRecent
<1> DEFINE Evicts ==
      DOMAIN store' \ DOMAIN store # {} =>
        /\ Cache!Cardinality(DOMAIN store') <= MaxSize
        /\ \A k \in DOMAIN store \ DOMAIN store' : \A j \in DOMAIN store \ {k} :
             j \in DOMAIN store' /\ <<k, j>> \in last_use
<1>1. CacheInv /\ CacheInv' /\ [Next]_vars => [Evicts]_(Cache!vars)
  <2> SUFFICES ASSUME CacheInv, CacheInv', [Next]_vars, DOMAIN store' \ DOMAIN store # {}
               PROVE  Evicts
    OBVIOUS
  <2>1. Cache!Cardinality(DOMAIN store') = Cardinality(DOMAIN store')
    BY DEF Cache!Cardinality, Cardinality
  <2>2. PICK k \in Keys, v \in Values : Cache!Put(k, v)
    BY DEF Next, vars, cacheVars, Cache!Next, Cache!Tick, Cache!Get, Cache!Hit, Cache!Keep,
           Cache!Invalidate
  <2>3. DOMAIN store' = Cache!Staying(k) \cup {k}
    BY <2>2 DEF Cache!Put, Cache!Stored
  <2>4. order \subseteq last_use
    BY DEF CacheInv, Cache!Within
  <2> QED BY <2>1, <2>3, <2>4, StayingFits DEF CacheInv
<1> QED BY <1>1, InitCacheInv, NextCacheInv, PTL DEF Spec, EvictsLeastRecent, Cache!EvictsLeastRecent

-----------------------------------------------------------------------------
\* The patches of a delta bundle, however many there are and however deep their paths lead

\* The merge of no files is the empty document.
LEMMA NothingMerged == ASSUME NEW files, DataFiles(files) = <<>> PROVE GetData(files) = Empty
<1> DEFINE Is(f) == f = [n \in 0..0 |-> IF n = 0 THEN Empty ELSE Place(f[n - 1], <<>>[n])]
<1>1. Len(<<>>) = 0
  OBVIOUS
<1>2. Is([n \in 0..0 |-> Empty])
  OBVIOUS
<1>3. Merged(<<>>) = CHOOSE f : Is(f)
  BY <1>1 DEF Merged
<1>4. Is(Merged(<<>>))
  <2> HIDE DEF Is
  <2> QED BY <1>2, <1>3
<1>5. Merged(<<>>)[0] = Empty
  BY <1>4
<1> QED BY <1>1, <1>5 DEF GetData

\* Patches change the document and the policies one after the other.
LEMMA PatchedIs ==
  ASSUME NEW doc, NEW policies, NEW patches, Len(patches) \in Nat
  PROVE  /\ Patched(doc, policies, patches)[0] = [data |-> doc, policies |-> policies]
         /\ \A n \in 1..Len(patches) :
              Patched(doc, policies, patches)[n]
                = [data |-> PatchData(Patched(doc, policies, patches)[n - 1].data, patches[n]),
                   policies |->
                     PatchPolicies(Patched(doc, policies, patches)[n - 1].policies, patches[n])]
<1> DEFINE N == Len(patches)
           First == [data |-> doc, policies |-> policies]
           After(now, n) == [data |-> PatchData(now.data, patches[n]),
                             policies |-> PatchPolicies(now.policies, patches[n])]
           Is(f, m) == f = [n \in 0..m |-> IF n = 0 THEN First ELSE After(f[n - 1], n)]
           S == {m \in 0..N : \E f : Is(f, m)}
<1>1. N \in Nat
  OBVIOUS
<1>6. Patched(doc, policies, patches) = CHOOSE f : Is(f, N)
  BY DEF Patched
<1> HIDE DEF N, First, After
<1>2. 0 \in S
  <2>1. Is([n \in 0..0 |-> First], 0)
    OBVIOUS
  <2> HIDE DEF Is
  <2> QED BY <1>1, <2>1
<1>3. ASSUME NEW m \in 0..(N - 1), m \in S PROVE m + 1 \in S
  <2>1. PICK f : Is(f, m)
    BY <1>3
  <2> DEFINE g == [n \in 0..(m + 1) |-> IF n = m + 1 THEN After(f[m], m + 1) ELSE f[n]]
  <2>2. \A n \in 0..(m + 1) : g[n] = IF n = 0 THEN First ELSE After(g[n - 1], n)
    <3> SUFFICES ASSUME NEW n \in 0..(m + 1) PROVE g[n] = IF n = 0 THEN First ELSE After(g[n - 1], n)
      OBVIOUS
    <3>1. CASE n = 0
      BY <1>3, <2>1, <3>1
    <3>2. CASE n = m + 1
      BY <1>3, <3>2
    <3>3. CASE n \in 1..m
      BY <1>3, <2>1, <3>3
    <3> QED BY <3>1, <3>2, <3>3
  <2>3. Is(g, m + 1)
    BY <2>2
  <2>4. m + 1 \in 0..N
    BY <1>1, <1>3
  <2> QED BY <2>3, <2>4
<1>4. \A m \in 0..N : m \in S
  <2> HIDE DEF S
  <2> QED BY <1>1, <1>2, <1>3, UpTo
<1>5. \E f : Is(f, N)
  <2> HIDE DEF Is
  <2> QED BY <1>1, <1>4
<1>7. Is(Patched(doc, policies, patches), N)
  BY <1>5, <1>6
<1> QED BY <1>1, <1>7 DEF N, First, After

LEMMA PatchedOnce ==
  ASSUME NEW doc, NEW policies, NEW patches, Len(patches) \in Nat
  PROVE  /\ Patched(doc, policies, patches)[0].data = doc
         /\ Patched(doc, policies, patches)[0].policies = policies
         /\ \A n \in 1..Len(patches) :
              /\ Patched(doc, policies, patches)[n].data
                   = PatchData(Patched(doc, policies, patches)[n - 1].data, patches[n])
              /\ Patched(doc, policies, patches)[n].policies
                   = PatchPolicies(Patched(doc, policies, patches)[n - 1].policies, patches[n])
<1> DEFINE D == Patched(doc, policies, patches)
<1>1. /\ D[0] = [data |-> doc, policies |-> policies]
      /\ \A n \in 1..Len(patches) :
           D[n] = [data |-> PatchData(D[n - 1].data, patches[n]),
                   policies |-> PatchPolicies(D[n - 1].policies, patches[n])]
  BY PatchedIs
<1> HIDE DEF D
<1>2. D[0].data = doc /\ D[0].policies = policies
  BY <1>1
<1>3. ASSUME NEW n \in 1..Len(patches)
      PROVE  /\ D[n].data = PatchData(D[n - 1].data, patches[n])
             /\ D[n].policies = PatchPolicies(D[n - 1].policies, patches[n])
  <2>1. D[n] = [data |-> PatchData(D[n - 1].data, patches[n]),
                policies |-> PatchPolicies(D[n - 1].policies, patches[n])]
    BY <1>1
  <2> QED BY <2>1
<1> QED BY <1>2, <1>3 DEF D

\* Paths of which neither is the beginning of the other part somewhere.
LEMMA UnrelatedPart ==
  ASSUME NEW p \in Seq(STRING), NEW q \in Seq(STRING), ~Related(p, q)
  PROVE  Apart(p, q) /\ Apart(q, p)
<1>1. ASSUME NEW s \in Seq(STRING), NEW t \in Seq(STRING), Len(s) <= Len(t), ~Apart(s, t)
      PROVE  IsPrefix(s, t)
  <2>1. \A i \in 1..Len(s) : s[i] = t[i]
    BY <1>1 DEF Apart
  <2>2. SubSeq(t, 1, Len(s)) = SubSeq(s, 1, Len(s))
    BY <1>1, <2>1
  <2> QED BY <1>1, <2>2 DEF IsPrefix
<1>2. Apart(p, q) <=> Apart(q, p)
  BY DEF Apart
<1>3. Len(p) <= Len(q) \/ Len(q) <= Len(p)
  OBVIOUS
<1> QED BY <1>1, <1>2, <1>3 DEF Related

\* One patch changes what it is about, and nothing that parts from it.
LEMMA PatchReads ==
  ASSUME NEW doc, NEW patch, patch.path \in Seq(STRING), Scope(patch) = "data",
         ~ThroughList(doc, patch.path)
  PROVE  /\ patch.path # <<>> =>
              WalkTo(PatchData(doc, patch), patch.path)
                = IF patch.op = "remove" THEN NotFound ELSE patch.value
         /\ \A q \in Seq(STRING) : Apart(patch.path, q) =>
              WalkTo(PatchData(doc, patch), q) = WalkTo(doc, q)
<1>1. CASE patch.op = "remove"
  <2>1. PatchData(doc, patch) = Cut(doc, patch.path)
    BY <1>1 DEF PatchData, Changed
  <2>2. \A q : Apart(patch.path, q) => patch.path # <<>>
    BY DEF Apart
  <2> QED BY <1>1, <2>1, <2>2, CutReads, CutApart
<1>2. CASE patch.op # "remove"
  <2>1. patch.path # <<>> => PatchData(doc, patch) = Grown(doc, patch.path, patch.value)
    BY <1>2 DEF PatchData, Changed, Put
  <2>2. \A q : Apart(patch.path, q) => patch.path # <<>>
    BY DEF Apart
  <2> QED BY <1>2, <2>1, <2>2, GrownReads, GrownApart
<1> QED BY <1>1, <1>2

\* What no patch from the k-th on is about is in the end as it was after the k-th.
PathsAreLists(patches) == \A i \in 1..Len(patches) : patches[i].path \in Seq(STRING)
NoListsChanged(doc, policies, patches) ==
  \A i \in 1..Len(patches) : Scope(patches[i]) = "data" =>
    ~ThroughList(Patched(doc, policies, patches)[i - 1].data, patches[i].path)
PartFrom(patches, k, q) ==
  \A i \in (k + 1)..Len(patches) : Scope(patches[i]) = "data" => Apart(patches[i].path, q)

LEMMA DataStays ==
  ASSUME NEW doc, NEW policies, NEW patches, Len(patches) \in Nat,
         PathsAreLists(patches), NoListsChanged(doc, policies, patches),
         NEW q \in Seq(STRING), NEW k \in 0..Len(patches), PartFrom(patches, k, q)
  PROVE  WalkTo(Patched(doc, policies, patches)[Len(patches)].data, q)
           = WalkTo(Patched(doc, policies, patches)[k].data, q)
<1> DEFINE D == Patched(doc, policies, patches)
           N == Len(patches)
           At(n) == WalkTo(D[n].data, q)
           S == {m \in 0..N : m >= k => At(m) = At(k)}
<1>1. N \in Nat /\ k \in 0..N
  OBVIOUS
<1>2. \A n \in 1..N : D[n].data = PatchData(D[n - 1].data, patches[n])
  BY PatchedOnce
<1>3. \A n \in (k + 1)..N : At(n) = At(n - 1)
  <2> SUFFICES ASSUME NEW n \in (k + 1)..N PROVE At(n) = At(n - 1)
    OBVIOUS
  <2>1. n \in 1..N
    BY <1>1
  <2>2. D[n].data = PatchData(D[n - 1].data, patches[n])
    BY <1>2, <2>1
  <2>3. CASE Scope(patches[n]) = "data"
    <3>1. patches[n].path \in Seq(STRING) /\ ~ThroughList(D[n - 1].data, patches[n].path)
      BY <2>1, <2>3 DEF PathsAreLists, NoListsChanged
    <3>2. Apart(patches[n].path, q)
      BY <2>3 DEF PartFrom
    <3>3. WalkTo(PatchData(D[n - 1].data, patches[n]), q) = WalkTo(D[n - 1].data, q)
      <4> HIDE DEF D
      <4> QED BY <2>3, <3>1, <3>2, PatchReads
    <3> QED BY <2>2, <3>3
  <2>4. CASE Scope(patches[n]) # "data"
    BY <2>2, <2>4 DEF PatchData
  <2> QED BY <2>3, <2>4
<1> HIDE DEF At, N
<1>4. 0 \in S
  BY <1>1
<1>5. ASSUME NEW m \in 0..(N - 1), m \in S PROVE m + 1 \in S
  <2>1. CASE m + 1 < k
    BY <1>1, <2>1
  <2>2. CASE m + 1 = k
    BY <1>1, <2>2
  <2>3. CASE m + 1 > k
    <3>1. At(m) = At(k) /\ m + 1 \in (k + 1)..N /\ (m + 1) - 1 = m
      BY <1>1, <1>5, <2>3
    <3>2. At(m + 1) = At(k)
      BY <1>3, <3>1
    <3> QED BY <1>1, <3>2
  <2> QED BY <1>1, <2>1, <2>2, <2>3
<1>6. \A m \in 0..N : m \in S
  <2> HIDE DEF S
  <2> QED BY <1>1, <1>4, <1>5, UpTo
<1>7. At(N) = At(k)
  BY <1>1, <1>6
<1> QED BY <1>7 DEF At, N

LEMMA DataInOrder ==
  ASSUME NEW files \in Deltas, DataFiles(files) = <<>>
  PROVE  DataPatchesInOrder(files)
<1> DEFINE patches == PatchesOf(files)
           D == Patched(data, modules, patches)
           N == Len(patches)
<1>1. /\ N \in Nat /\ DOMAIN patches = 1..N /\ \A i \in 1..N : patches[i].path \in Seq(STRING)
      /\ \A e \in DataChanges : e.path \in Seq(STRING)
  BY DeltasAssumption
<1>2. ApplyDelta(files, data, modules).data = D[N].data
  <2>1. KidsOf(GetData(files)) = <<>>
    BY NothingMerged DEF KidsOf, Empty, Tree, IsTree
  <2> QED BY <2>1 DEF ApplyDelta
<1> SUFFICES ASSUME \A i \in 1..N :
                      Scope(patches[i]) = "data" => ~ThroughList(D[i - 1].data, patches[i].path)
             PROVE  /\ \A i \in 1..N :
                         /\ Scope(patches[i]) = "data" /\ patches[i].path # <<>>
                         /\ \A j \in i+1..N :
                              Scope(patches[j]) = "data" => ~Related(patches[i].path, patches[j].path)
                         => WalkTo(D[N].data, patches[i].path)
                              = IF patches[i].op = "remove" THEN NotFound ELSE patches[i].value
                    /\ \A e \in DataChanges :
                         (\A i \in 1..N : Scope(patches[i]) = "data" => ~Related(patches[i].path, e.path)) =>
                           WalkTo(D[N].data, e.path) = WalkTo(data, e.path)
  BY <1>1, <1>2 DEF DataPatchesInOrder
<1>5. ASSUME NEW q \in Seq(STRING), NEW k \in 0..N,
             \A i \in (k + 1)..N : Scope(patches[i]) = "data" => Apart(patches[i].path, q)
      PROVE  WalkTo(D[N].data, q) = WalkTo(D[k].data, q)
  <2>1. Len(patches) \in Nat /\ k \in 0..Len(patches)
    BY <1>1
  <2>2. PathsAreLists(patches) /\ NoListsChanged(data, modules, patches) /\ PartFrom(patches, k, q)
    BY <1>1, <1>5 DEF PathsAreLists, NoListsChanged, PartFrom
  <2> HIDE DEF patches
  <2> QED BY <2>1, <2>2, DataStays
<1>3. ASSUME NEW i \in 1..N, Scope(patches[i]) = "data", patches[i].path # <<>>,
             \A j \in i+1..N : Scope(patches[j]) = "data" => ~Related(patches[i].path, patches[j].path)
      PROVE  WalkTo(D[N].data, patches[i].path)
               = IF patches[i].op = "remove" THEN NotFound ELSE patches[i].value
  <2>1. \A j \in i+1..N : Scope(patches[j]) = "data" => Apart(patches[j].path, patches[i].path)
    BY <1>1, <1>3, UnrelatedPart
  <2>2. WalkTo(D[N].data, patches[i].path) = WalkTo(D[i].data, patches[i].path)
    <3>1. i \in 0..N
      OBVIOUS
    <3> HIDE DEF patches, D, N
    <3> QED BY <1>1, <1>5, <2>1, <3>1
  <2>3. D[i].data = PatchData(D[i - 1].data, patches[i])
    BY <1>1, PatchedOnce
  <2>4. ~ThroughList(D[i - 1].data, patches[i].path)
    BY <1>3
  <2> HIDE DEF D, patches
  <2> QED BY <1>1, <1>3, <2>2, <2>3, <2>4, PatchReads
<1>4. ASSUME NEW e \in DataChanges,
             \A i \in 1..N : Scope(patches[i]) = "data" => ~Related(patches[i].path, e.path)
      PROVE  WalkTo(D[N].data, e.path) = WalkTo(data, e.path)
  <2>1. \A i \in (0 + 1)..N : Scope(patches[i]) = "data" => Apart(patches[i].path, e.path)
    BY <1>1, <1>4, UnrelatedPart
  <2>2. WalkTo(D[N].data, e.path) = WalkTo(D[0].data, e.path)
    <3>1. 0 \in 0..N
      BY <1>1
    <3> HIDE DEF patches, D, N
    <3> QED BY <1>1, <1>5, <2>1, <3>1
  <2>3. D[0].data = data
    BY <1>1, PatchedOnce
  <2> QED BY <2>2, <2>3
<1> QED BY <1>3, <1>4

\* What no patch of a policy is about stays as it is.
AboutPolicy(patch, p) == Scope(patch) = "policy" /\ patch.path = p
NotAbout(patches, k, p) == \A i \in (k + 1)..Len(patches) : ~AboutPolicy(patches[i], p)
Same(policies, others, p) ==
  /\ p \in DOMAIN policies <=> p \in DOMAIN others
  /\ p \in DOMAIN policies => policies[p] = others[p]

LEMMA PatchLeaves ==
  ASSUME NEW policies, NEW patch, NEW p, ~AboutPolicy(patch, p)
  PROVE  Same(PatchPolicies(policies, patch), policies, p)
<1>1. CASE Scope(patch) # "policy"
  BY <1>1 DEF PatchPolicies, Same
<1>2. CASE Scope(patch) = "policy" /\ patch.op = "remove"
  <2>1. p # patch.path
    BY <1>2 DEF AboutPolicy
  <2> QED BY <1>2, <2>1 DEF PatchPolicies, Same
<1>3. CASE Scope(patch) = "policy" /\ patch.op # "remove"
  <2>1. p # patch.path
    BY <1>3 DEF AboutPolicy
  <2>2. Same(Updated(policies, [q \in {patch.path} |-> patch.value]), policies, p)
    BY <2>1 DEF Updated, Same
  <2> QED BY <1>3, <2>2 DEF PatchPolicies, Same
<1> QED BY <1>1, <1>2, <1>3

LEMMA PolicyStays ==
  ASSUME NEW doc, NEW policies, NEW patches, Len(patches) \in Nat,
         NEW p, NEW k \in 0..Len(patches), NotAbout(patches, k, p)
  PROVE  Same(Patched(doc, policies, patches)[Len(patches)].policies,
              Patched(doc, policies, patches)[k].policies, p)
<1> DEFINE D == Patched(doc, policies, patches)
           N == Len(patches)
           At(n) == Same(D[n].policies, D[k].policies, p)
           S == {m \in 0..N : m >= k => At(m)}
<1>1. N \in Nat /\ k \in 0..N
  OBVIOUS
<1>2. At(k)
  BY DEF Same
<1>3. \A n \in (k + 1)..N : At(n - 1) => At(n)
  <2> SUFFICES ASSUME NEW n \in (k + 1)..N, At(n - 1) PROVE At(n)
    OBVIOUS
  <2>1. n \in 1..N
    BY <1>1
  <2>2. D[n].policies = PatchPolicies(D[n - 1].policies, patches[n])
    BY <2>1, PatchedOnce
  <2>3. ~AboutPolicy(patches[n], p)
    BY DEF NotAbout
  <2> HIDE DEF D
  <2>4. Same(D[n].policies, D[n - 1].policies, p)
    BY <2>2, <2>3, PatchLeaves
  <2> QED BY <2>4 DEF Same
<1> HIDE DEF At, N
<1>4. 0 \in S
  BY <1>1, <1>2
<1>5. ASSUME NEW m \in 0..(N - 1), m \in S PROVE m + 1 \in S
  <2>1. CASE m + 1 < k
    BY <1>1, <2>1
  <2>2. CASE m + 1 = k
    BY <1>1, <1>2, <2>2
  <2>3. CASE m + 1 > k
    <3>1. At(m) /\ m + 1 \in (k + 1)..N /\ (m + 1) - 1 = m
      BY <1>1, <1>5, <2>3
    <3>2. At(m + 1)
      BY <1>3, <3>1
    <3> QED BY <1>1, <3>2
  <2> QED BY <1>1, <2>1, <2>2, <2>3
<1>6. \A m \in 0..N : m \in S
  <2> HIDE DEF S
  <2> QED BY <1>1, <1>4, <1>5, UpTo
<1>7. At(N)
  BY <1>1, <1>6
<1> QED BY <1>7 DEF At, N

\* One patch of a policy removes it or gives it the text it carries.
LEMMA PatchSets ==
  ASSUME NEW policies, NEW patch, Scope(patch) = "policy"
  PROVE  /\ patch.op = "remove" => patch.path \notin DOMAIN PatchPolicies(policies, patch)
         /\ patch.op # "remove" /\ patch.value[1] = "text" =>
              /\ patch.path \in DOMAIN PatchPolicies(policies, patch)
              /\ PatchPolicies(policies, patch)[patch.path] = patch.value
<1>1. CASE patch.op = "remove"
  BY <1>1 DEF PatchPolicies
<1>2. CASE patch.op # "remove" /\ patch.value[1] = "text"
  <2>1. PatchPolicies(policies, patch) = Updated(policies, [q \in {patch.path} |-> patch.value])
    BY <1>2 DEF PatchPolicies
  <2> QED BY <1>2, <2>1 DEF Updated
<1> QED BY <1>1, <1>2

LEMMA PoliciesInOrder ==
  ASSUME NEW files \in Deltas, DataFiles(files) = <<>>
  PROVE  PolicyPatchesInOrder(files)
<1> DEFINE patches == PatchesOf(files)
           D == Patched(data, modules, patches)
           N == Len(patches)
           own == DOMAIN GetPolicies(files)
           after == ApplyDelta(files, data, modules).policies
<1>1. N \in Nat /\ DOMAIN patches = 1..N
  BY DeltasAssumption
<1>2. after = Updated(D[N].policies, GetPolicies(files))
  <2>1. GetData(files) # Failed
    BY NothingMerged DEF Empty, Tree, Failed
  <2> QED BY <2>1 DEF ApplyDelta
<1>3. \A p : p \notin own => Same(after, D[N].policies, p)
  BY <1>2 DEF Updated, Same
<1>4. ASSUME NEW i \in 1..N, NEW p \in {patches[i].path} \ own, AboutPolicy(patches[i], p),
             \A j \in i+1..N : ~AboutPolicy(patches[j], p)
      PROVE  /\ patches[i].op = "remove" => p \notin DOMAIN after
             /\ patches[i].op # "remove" /\ patches[i].value[1] = "text" =>
                  p \in DOMAIN after /\ after[p] = patches[i].value
  <2>1. NotAbout(patches, i, p) /\ i \in 0..N
    BY <1>1, <1>4 DEF NotAbout
  <2>2. Same(D[N].policies, D[i].policies, p)
    <3> HIDE DEF patches
    <3> QED BY <1>1, <2>1, PolicyStays
  <2>3. D[i].policies = PatchPolicies(D[i - 1].policies, patches[i])
    BY <1>1, PatchedOnce
  <2>4. Scope(patches[i]) = "policy" /\ patches[i].path = p
    BY <1>4 DEF AboutPolicy
  <2> HIDE DEF D, after, patches, N, own
  <2>5. /\ patches[i].op = "remove" => p \notin DOMAIN D[i].policies
        /\ patches[i].op # "remove" /\ patches[i].value[1] = "text" =>
             p \in DOMAIN D[i].policies /\ D[i].policies[p] = patches[i].value
    BY <2>3, <2>4, PatchSets
  <2>6. Same(after, D[N].policies, p)
    BY <1>3
  <2> QED BY <2>2, <2>5, <2>6 DEF Same
<1>5. ASSUME NEW p \in Ids \ own, \A i \in 1..N : ~AboutPolicy(patches[i], p)
      PROVE  Same(after, modules, p)
  <2>1. NotAbout(patches, 0, p) /\ 0 \in 0..N
    BY <1>1, <1>5 DEF NotAbout
  <2>2. Same(D[N].policies, D[0].policies, p)
    <3> HIDE DEF patches
    <3> QED BY <1>1, <2>1, PolicyStays
  <2>3. D[0].policies = modules
    BY <1>1, PatchedOnce
  <2>4. Same(after, D[N].policies, p)
    BY <1>3
  <2> HIDE DEF D, after, patches, N, own
  <2> QED BY <2>2, <2>3, <2>4 DEF Same
<1> HIDE DEF after, own
<1> QED BY <1>1, <1>4, <1>5 DEF PolicyPatchesInOrder, AboutPolicy, Same, after, own

\* Whatever the patches of a delta bundle without data files, and however deep their paths
\* lead: the last patch about a path or a policy is in force, and the rest is as it was.
THEOREM PatchesAlwaysInOrder == Spec => []DeltaPatchesInOrder
<1>1. DeltaPatchesInOrder
  BY DataInOrder, PoliciesInOrder DEF DeltaPatchesInOrder
<1> QED BY <1>1, PTL

-----------------------------------------------------------------------------
\* Lists of the files of a set, and what is chosen and sorted

\* A sequence that names each member of a set once
Lists(s, S) ==
  /\ s \in Seq(S) /\ \A x \in S : \E i \in 1..Len(s) : s[i] = x
  /\ \A i, j \in 1..Len(s) : s[i] = s[j] => i = j

LEMMA AppendLists ==
  ASSUME NEW S, NEW s, Lists(s, S), NEW x, x \notin S
  PROVE  Lists(Append(s, x), S \cup {x})
<1> DEFINE t == Append(s, x)
           n == Len(s)
<1>1. s \in Seq(S) /\ n \in Nat /\ \A i \in 1..n : s[i] \in S
  BY DEF Lists
<1>2. s \in Seq(S \cup {x}) /\ x \in S \cup {x}
  BY <1>1
<1>3. t \in Seq(S \cup {x}) /\ Len(t) = n + 1 /\ t[n + 1] = x /\ \A i \in 1..n : t[i] = s[i]
  BY <1>2, AppendProperties
<1> HIDE DEF t
<1>4. ASSUME NEW y \in S \cup {x} PROVE \E i \in 1..Len(t) : t[i] = y
  <2>1. CASE y = x
    BY <1>1, <1>3, <2>1
  <2>2. CASE y \in S
    <3>1. PICK i \in 1..n : s[i] = y
      BY <2>2 DEF Lists
    <3>2. i \in 1..Len(t) /\ t[i] = y
      BY <1>1, <1>3, <3>1
    <3> QED BY <3>2
  <2> QED BY <2>1, <2>2
<1>5. ASSUME NEW i \in 1..Len(t), NEW j \in 1..Len(t), t[i] = t[j] PROVE i = j
  <2>1. \A l \in 1..Len(t) : l \in 1..n \/ l = n + 1
    BY <1>1, <1>3
  <2>2. CASE i \in 1..n /\ j \in 1..n
    BY <1>3, <1>5, <2>2 DEF Lists
  <2>3. \A l \in 1..n : t[l] # x
    BY <1>1, <1>3
  <2> QED BY <1>3, <1>5, <2>1, <2>2, <2>3
<1> QED BY <1>3, <1>4, <1>5 DEF Lists, t

\* What is chosen of the first n files
Choice(files, some, at) ==
  /\ at[0] = <<>>
  /\ \A n \in 1..Len(files) : /\ files[n] \in some => at[n] = Append(at[n - 1], files[n])
                              /\ files[n] \notin some => at[n] = at[n - 1]

LEMMA ChosenIs ==
  ASSUME NEW files, Len(files) \in Nat, NEW some
  PROVE  \E at : Choice(files, some, at) /\ Chosen(files, some) = at[Len(files)]
<1> DEFINE N == Len(files)
           After(now, n) == IF files[n] \in some THEN Append(now, files[n]) ELSE now
           Is(f, m) == f = [n \in 0..m |-> IF n = 0 THEN <<>> ELSE After(f[n - 1], n)]
           S == {m \in 0..N : \E f : Is(f, m)}
           F == CHOOSE f : Is(f, N)
<1>1. N \in Nat
  OBVIOUS
<1>2. Chosen(files, some) = F[N]
  BY DEF Chosen
<1> HIDE DEF N, After
<1>3. 0 \in S
  <2>1. Is([n \in 0..0 |-> <<>>], 0)
    OBVIOUS
  <2> HIDE DEF Is
  <2> QED BY <1>1, <2>1
<1>4. ASSUME NEW m \in 0..(N - 1), m \in S PROVE m + 1 \in S
  <2>1. PICK f : Is(f, m)
    BY <1>4
  <2> DEFINE g == [n \in 0..(m + 1) |-> IF n = m + 1 THEN After(f[m], m + 1) ELSE f[n]]
  <2>2. \A n \in 0..(m + 1) : g[n] = IF n = 0 THEN <<>> ELSE After(g[n - 1], n)
    <3> SUFFICES ASSUME NEW n \in 0..(m + 1) PROVE g[n] = IF n = 0 THEN <<>> ELSE After(g[n - 1], n)
      OBVIOUS
    <3>1. CASE n = 0
      BY <1>4, <2>1, <3>1
    <3>2. CASE n = m + 1
      BY <1>4, <3>2
    <3>3. CASE n \in 1..m
      BY <1>4, <2>1, <3>3
    <3> QED BY <3>1, <3>2, <3>3
  <2>3. Is(g, m + 1)
    BY <2>2
  <2>4. m + 1 \in 0..N
    BY <1>1, <1>4
  <2> QED BY <2>3, <2>4
<1>5. \A m \in 0..N : m \in S
  <2> HIDE DEF S
  <2> QED BY <1>1, <1>3, <1>4, UpTo
<1>6. Is(F, N)
  <2>1. \E f : Is(f, N)
    <3> HIDE DEF Is
    <3> QED BY <1>1, <1>5
  <2> QED BY <2>1
<1> HIDE DEF F
<1>7. F[0] = <<>> /\ \A n \in 1..N : F[n] = After(F[n - 1], n)
  BY <1>1, <1>6
<1>8. Choice(files, some, F)
  BY <1>7 DEF Choice, After, N
<1> QED BY <1>2, <1>8 DEF N

\* What is chosen is among the files, and among what is to be chosen.
LEMMA ChosenAmong ==
  ASSUME NEW files, Len(files) \in Nat, DOMAIN files = 1..Len(files), NEW some
  PROVE  Chosen(files, some) \in Seq(Range(files) \cap some)
<1> DEFINE N == Len(files)
           X == Range(files) \cap some
<1>1. N \in Nat /\ \A i \in 1..N : files[i] \in Range(files)
  BY DEF Range
<1>2. PICK at : Choice(files, some, at) /\ Chosen(files, some) = at[N]
  BY ChosenIs
<1>3. at[0] = <<>> /\ \A n \in 1..N : /\ files[n] \in some => at[n] = Append(at[n - 1], files[n])
                                      /\ files[n] \notin some => at[n] = at[n - 1]
  BY <1>2 DEF Choice
<1> DEFINE S == {n \in 0..N : at[n] \in Seq(X)}
<1> HIDE DEF N, X
<1>4. 0 \in S
  <2>1. <<>> \in Seq(X)
    OBVIOUS
  <2>2. at[0] \in Seq(X)
    BY <1>3, <2>1
  <2>3. 0 \in 0..N
    BY <1>1
  <2> QED BY <2>2, <2>3
<1>5. ASSUME NEW m \in 0..(N - 1), m \in S PROVE m + 1 \in S
  <2>1. m + 1 \in 1..N /\ (m + 1) - 1 = m /\ m + 1 \in 0..N
    BY <1>1
  <2>2. CASE files[m + 1] \in some
    <3>1. at[m + 1] = Append(at[m], files[m + 1]) /\ files[m + 1] \in X /\ at[m] \in Seq(X)
      BY <1>1, <1>3, <1>5, <2>1, <2>2 DEF X
    <3>2. Append(at[m], files[m + 1]) \in Seq(X)
      BY <3>1, AppendProperties
    <3> QED BY <2>1, <3>1, <3>2
  <2>3. CASE files[m + 1] \notin some
    BY <1>3, <1>5, <2>1, <2>3
  <2> QED BY <2>2, <2>3
<1>6. \A m \in 0..N : m \in S
  <2> HIDE DEF S
  <2> QED BY <1>1, <1>4, <1>5, UpTo
<1>7. N \in S
  <2> HIDE DEF S
  <2> QED BY <1>1, <1>6
<1> QED BY <1>2, <1>7 DEF X

\* What is chosen from a list lists what is to be chosen.
LEMMA ChosenLists ==
  ASSUME NEW files, Len(files) \in Nat, DOMAIN files = 1..Len(files),
         \A i, j \in 1..Len(files) : files[i] = files[j] => i = j, NEW some
  PROVE  Lists(Chosen(files, some), Range(files) \cap some)
<1> DEFINE N == Len(files)
           Upto(n) == {files[i] : i \in 1..n}
<1>1. N \in Nat /\ \A i, j \in 1..N : files[i] = files[j] => i = j
  OBVIOUS
<1>2. Range(files) = Upto(N)
  BY DEF Range
<1>3. PICK at : Choice(files, some, at) /\ Chosen(files, some) = at[N]
  BY ChosenIs
<1>4. at[0] = <<>> /\ \A n \in 1..N : /\ files[n] \in some => at[n] = Append(at[n - 1], files[n])
                                      /\ files[n] \notin some => at[n] = at[n - 1]
  <2> HIDE DEF Upto
  <2> QED BY <1>3 DEF Choice
<1> DEFINE T == {n \in 0..N : Lists(at[n], Upto(n) \cap some)}
<1> HIDE DEF N
<1>5. 0 \in T
  <2>1. Upto(0) \cap some = {}
    OBVIOUS
  <2>2. Lists(<<>>, {})
    BY DEF Lists
  <2>3. Lists(at[0], Upto(0) \cap some)
    BY <1>4, <2>1, <2>2
  <2> QED BY <1>1, <2>3
<1>6. ASSUME NEW m \in 0..(N - 1), m \in T PROVE m + 1 \in T
  <2> DEFINE n == m + 1
  <2>1. n \in 1..N /\ n \in 0..N /\ n - 1 = m /\ m \in Nat
    BY <1>1
  <2>2. Lists(at[m], Upto(m) \cap some)
    BY <1>6
  <2>3. Upto(n) = Upto(m) \cup {files[n]}
    <3>1. \A i : i \in 1..n <=> i \in 1..m \/ i = n
      BY <2>1
    <3> QED BY <3>1
  <2>4. files[n] \notin Upto(m)
    <3>1. \A i \in 1..m : i \in 1..N /\ i # n
      BY <1>1, <2>1
    <3> QED BY <1>1, <2>1, <3>1
  <2> HIDE DEF n, Upto
  <2>5. CASE files[n] \in some
    <3>1. Upto(n) \cap some = (Upto(m) \cap some) \cup {files[n]}
      BY <2>3, <2>5
    <3>2. at[n] = Append(at[m], files[n])
      BY <1>4, <2>1, <2>5
    <3>3. Lists(at[n], Upto(n) \cap some)
      BY <2>2, <2>4, <3>1, <3>2, AppendLists
    <3> QED BY <2>1, <3>3 DEF n
  <2>6. CASE files[n] \notin some
    <3>1. Upto(n) \cap some = Upto(m) \cap some
      BY <2>3, <2>6
    <3>2. at[n] = at[m]
      BY <1>4, <2>1, <2>6
    <3>3. Lists(at[n], Upto(n) \cap some)
      BY <2>2, <3>1, <3>2
    <3> QED BY <2>1, <3>3 DEF n
  <2> QED BY <2>5, <2>6
<1>7. \A m \in 0..N : m \in T
  <2> HIDE DEF T
  <2> QED BY <1>1, <1>5, <1>6, UpTo
<1>8. N \in T
  <2> HIDE DEF T
  <2> QED BY <1>1, <1>7
<1>9. Lists(at[N], Upto(N) \cap some)
  <2> HIDE DEF Upto
  <2> QED BY <1>8
<1> HIDE DEF Upto
<1> QED BY <1>2, <1>3, <1>9 DEF N

\* Lists one after the other
LEMMA BothList ==
  ASSUME NEW S, NEW s, Lists(s, S), NEW T, NEW t, Lists(t, T), S \cap T = {}
  PROVE  Lists(s \o t, S \cup T)
<1> DEFINE u == s \o t
           m == Len(s)
           n == Len(t)
<1>1. /\ m \in Nat /\ s \in Seq(S) /\ \A i \in 1..m : s[i] \in S
      /\ n \in Nat /\ t \in Seq(T) /\ \A i \in 1..n : t[i] \in T
  BY DEF Lists
<1>2. s \in Seq(S \cup T) /\ t \in Seq(S \cup T)
  BY <1>1
<1>3. /\ u \in Seq(S \cup T) /\ Len(u) = m + n
      /\ \A i \in 1..(m + n) : u[i] = IF i <= m THEN s[i] ELSE t[i - m]
  BY <1>2, ConcatProperties
<1>4. /\ \A x \in S : \E i \in 1..m : s[i] = x
      /\ \A x \in T : \E i \in 1..n : t[i] = x
      /\ \A i, j \in 1..m : s[i] = s[j] => i = j
      /\ \A i, j \in 1..n : t[i] = t[j] => i = j
  BY DEF Lists
<1> HIDE DEF u, m, n
<1>5. \A i \in 1..m : i \in 1..(m + n) /\ u[i] = s[i]
  BY <1>1, <1>3
<1>6. \A i \in 1..n : i + m \in 1..(m + n) /\ u[i + m] = t[i]
  BY <1>1, <1>3
<1>7. \A x \in S \cup T : \E i \in 1..(m + n) : u[i] = x
  BY <1>4, <1>5, <1>6
<1>8. \A i \in 1..(m + n) : i \in 1..m \/ (i - m \in 1..n /\ (i - m) + m = i /\ i > m)
  BY <1>1
<1>9. ASSUME NEW i \in 1..(m + n), NEW j \in 1..(m + n), u[i] = u[j] PROVE i = j
  <2>1. CASE i \in 1..m /\ j \in 1..m
    BY <1>4, <1>5, <1>9, <2>1
  <2>2. CASE i \notin 1..m /\ j \notin 1..m
    <3>1. u[i] = t[i - m] /\ u[j] = t[j - m] /\ i - m \in 1..n /\ j - m \in 1..n
      BY <1>6, <1>8, <2>2
    <3>2. i - m = j - m
      BY <1>4, <1>9, <3>1
    <3> QED BY <1>1, <3>2
  <2>3. \A k \in 1..(m + n) : (k \in 1..m => u[k] \in S) /\ (k \notin 1..m => u[k] \in T)
    <3>1. \A k \in 1..(m + n) : k \notin 1..m => u[k] = t[k - m] /\ k - m \in 1..n
      BY <1>6, <1>8
    <3> QED BY <1>1, <1>5, <3>1
  <2> QED BY <1>9, <2>1, <2>2, <2>3
<1>10. Lists(u, S \cup T)
  BY <1>3, <1>7, <1>9 DEF Lists
<1> QED BY <1>10 DEF u

LEMMA OneLists == ASSUME NEW x PROVE Lists(<<x>>, {x})
  BY DEF Lists

LEMMA NoneLists == Lists(<<>>, {})
  BY DEF Lists

\* Files with different paths that the assumption on the order is about
Orderly(files) ==
  /\ IsFiniteSet(files) /\ \A f \in files : f.path \in PolicyPaths
  /\ \A f, g \in files : f.path = g.path => f = g

InOrder(s, files) ==
  /\ Range(s) = files
  /\ \A i, j \in DOMAIN s : i < j => InPathOrder(s[i].path, s[j].path)

LEMMA FirstFile ==
  ASSUME NEW T, Orderly(T), T # {}
  PROVE  \E f \in T : \A g \in T \ {f} : InPathOrder(f.path, g.path)
<1> DEFINE rel == {x \in T \X T : InPathOrder(x[1].path, x[2].path)}
<1>1. \A f, g \in T : <<f, g>> \in rel <=> InPathOrder(f.path, g.path)
  OBVIOUS
<1>2. rel \subseteq T \X T
  OBVIOUS
<1> HIDE DEF rel
<1>3. Linear(rel, T)
  <2>1. \A f, g \in T : f # g => f.path # g.path
    BY DEF Orderly
  <2>2. \A f \in T : f.path \in PolicyPaths
    BY DEF Orderly
  <2> QED BY <1>1, <1>2, <2>1, <2>2, PathsAssumption DEF Linear
<1>4. IsFiniteSet(T)
  BY DEF Orderly
<1>5. PICK f \in T : \A g \in T \ {f} : <<f, g>> \in rel
  BY <1>3, <1>4, FirstExists
<1> QED BY <1>1, <1>5

LEMMA OrderExists ==
  ASSUME NEW files, Orderly(files)
  PROVE  \E s \in [1..Cardinality(files) -> files] : InOrder(s, files)
<1> DEFINE N == Cardinality(files)
           Fine(n) == \A T \in SUBSET files : Cardinality(T) = n => \E s \in [1..n -> T] : InOrder(s, T)
           S == {n \in 0..N : Fine(n)}
<1>1. N \in Nat /\ IsFiniteSet(files)
  BY FS_CardinalityType DEF Orderly
<1> HIDE DEF N
<1>2. Fine(0)
  <2> SUFFICES ASSUME NEW T \in SUBSET files, Cardinality(T) = 0
               PROVE  \E s \in [1..0 -> T] : InOrder(s, T)
    OBVIOUS
  <2>1. T = {}
    BY <1>1, FS_Subset, FS_EmptySet
  <2> DEFINE s == [i \in 1..0 |-> {}]
  <2>2. s \in [1..0 -> T] /\ InOrder(s, T)
    BY <2>1 DEF InOrder, Range
  <2> QED BY <2>2
<1>3. ASSUME NEW n \in 0..(N - 1), Fine(n) PROVE Fine(n + 1)
  <2> SUFFICES ASSUME NEW T \in SUBSET files, Cardinality(T) = n + 1
               PROVE  \E s \in [1..(n + 1) -> T] : InOrder(s, T)
    OBVIOUS
  <2>1. IsFiniteSet(T) /\ Orderly(T)
    BY <1>1, FS_Subset DEF Orderly
  <2>2. T # {} /\ n \in Nat
    BY <1>1, FS_EmptySet
  <2>3. PICK f \in T : \A g \in T \ {f} : InPathOrder(f.path, g.path)
    BY <2>1, <2>2, FirstFile
  <2>4. Cardinality(T \ {f}) = n
    BY <2>1, <2>2, FS_RemoveElement
  <2>5. PICK r \in [1..n -> T \ {f}] : InOrder(r, T \ {f})
    BY <1>3, <2>4
  <2> DEFINE s == [i \in 1..(n + 1) |-> IF i = 1 THEN f ELSE r[i - 1]]
  <2>6. s \in [1..(n + 1) -> T]
    BY <2>2
  <2>7. /\ s[1] = f /\ \A i \in 2..(n + 1) : i - 1 \in 1..n /\ s[i] = r[i - 1]
        /\ \A i \in 1..n : i + 1 \in 1..(n + 1) /\ s[i + 1] = r[i]
        /\ DOMAIN s = 1..(n + 1) /\ DOMAIN r = 1..n
    BY <2>2
  <2> HIDE DEF s
  <2>8. \A g \in T : \E i \in 1..(n + 1) : s[i] = g
    <3> SUFFICES ASSUME NEW g \in T PROVE \E i \in 1..(n + 1) : s[i] = g
      OBVIOUS
    <3>1. CASE g = f
      <4>1. 1 \in 1..(n + 1)
        BY <2>2
      <4> QED BY <2>7, <3>1, <4>1
    <3>2. CASE g # f
      <4>1. PICK i \in 1..n : r[i] = g
        BY <2>5, <2>7, <3>2 DEF InOrder, Range
      <4> QED BY <2>7, <4>1
    <3> QED BY <3>1, <3>2
  <2>9. Range(s) = T
    BY <2>6, <2>7, <2>8 DEF Range
  <2>10. ASSUME NEW i \in 1..(n + 1), NEW j \in 1..(n + 1), i < j
         PROVE  InPathOrder(s[i].path, s[j].path)
    <3>1. j \in 2..(n + 1) /\ s[j] = r[j - 1] /\ j - 1 \in 1..n
      BY <2>2, <2>7, <2>10
    <3>2. CASE i = 1
      <4>1. s[j] \in T \ {f}
        BY <2>5, <3>1
      <4> QED BY <2>3, <2>7, <3>2, <4>1
    <3>3. CASE i # 1
      <4>1. i - 1 \in 1..n /\ i - 1 < j - 1 /\ s[i] = r[i - 1]
        BY <2>2, <2>7, <2>10, <3>3
      <4> QED BY <2>5, <2>7, <3>1, <4>1 DEF InOrder
    <3> QED BY <3>2, <3>3
  <2>11. InOrder(s, T)
    BY <2>7, <2>9, <2>10 DEF InOrder
  <2> QED BY <2>6, <2>11
<1>4. \A n \in 0..N : n \in S
  <2>1. 0 \in S
    BY <1>1, <1>2
  <2>2. \A n \in 0..(N - 1) : n \in S => n + 1 \in S
    <3>1. \A n \in 0..(N - 1) : n \in 0..N /\ n + 1 \in 0..N
      BY <1>1
    <3> HIDE DEF Fine
    <3> QED BY <1>3, <3>1
  <2> HIDE DEF S
  <2> QED BY <1>1, <2>1, <2>2, UpTo
<1>5. Fine(N)
  <2> HIDE DEF Fine
  <2> QED BY <1>1, <1>4
<1>6. files \in SUBSET files /\ Cardinality(files) = N
  BY DEF N
<1> QED BY <1>5, <1>6

LEMMA SortedLists ==
  ASSUME NEW files, Orderly(files)
  PROVE  Lists(Sorted(files), files)
<1> DEFINE s == Sorted(files)
<1>1. s \in [1..Cardinality(files) -> files] /\ InOrder(s, files)
  BY OrderExists DEF Sorted, InOrder
<1>2. Cardinality(files) \in Nat
  BY FS_CardinalityType DEF Orderly
<1> HIDE DEF s
<1>3. s \in Seq(files) /\ Len(s) = Cardinality(files) /\ DOMAIN s = 1..Len(s)
  BY <1>1, <1>2
<1>4. \A f \in files : \E i \in 1..Len(s) : s[i] = f
  BY <1>1, <1>3 DEF InOrder, Range
<1>5. ASSUME NEW i \in 1..Len(s), NEW j \in 1..Len(s), s[i] = s[j] PROVE i = j
  <2>1. i \in Int /\ j \in Int /\ s[i] \in files /\ s[i].path \in PolicyPaths
    BY <1>1, <1>3 DEF Orderly
  <2>2. ~InPathOrder(s[i].path, s[i].path)
    BY <2>1, PathsAssumption
  <2>3. ~(i < j) /\ ~(j < i)
    BY <1>1, <1>3, <1>5, <2>2 DEF InOrder
  <2> QED BY <2>1, <2>3
<1>6. Lists(s, files)
  BY <1>3, <1>4, <1>5 DEF Lists
<1> QED BY <1>6 DEF s

-----------------------------------------------------------------------------
\* Data files that do not meet merge in any order

\* The data files change the document one after the other.
LEMMA MergedIs ==
  ASSUME NEW files, Len(files) \in Nat
  PROVE  /\ Merged(files)[0] = Empty
         /\ \A n \in 1..Len(files) : Merged(files)[n] = Place(Merged(files)[n - 1], files[n])
<1> DEFINE N == Len(files)
           Is(f, m) == f = [n \in 0..m |-> IF n = 0 THEN Empty ELSE Place(f[n - 1], files[n])]
           S == {m \in 0..N : \E f : Is(f, m)}
<1>1. N \in Nat
  OBVIOUS
<1>6. Merged(files) = CHOOSE f : Is(f, N)
  BY DEF Merged
<1> HIDE DEF N
<1>2. 0 \in S
  <2>1. Is([n \in 0..0 |-> Empty], 0)
    OBVIOUS
  <2> HIDE DEF Is
  <2> QED BY <1>1, <2>1
<1>3. ASSUME NEW m \in 0..(N - 1), m \in S PROVE m + 1 \in S
  <2>1. PICK f : Is(f, m)
    BY <1>3
  <2> DEFINE g == [n \in 0..(m + 1) |-> IF n = m + 1 THEN Place(f[m], files[m + 1]) ELSE f[n]]
  <2>2. \A n \in 0..(m + 1) : g[n] = IF n = 0 THEN Empty ELSE Place(g[n - 1], files[n])
    <3> SUFFICES ASSUME NEW n \in 0..(m + 1)
                 PROVE  g[n] = IF n = 0 THEN Empty ELSE Place(g[n - 1], files[n])
      OBVIOUS
    <3>1. CASE n = 0
      BY <1>3, <2>1, <3>1
    <3>2. CASE n = m + 1
      BY <1>3, <3>2
    <3>3. CASE n \in 1..m
      BY <1>3, <2>1, <3>3
    <3> QED BY <3>1, <3>2, <3>3
  <2>3. Is(g, m + 1)
    BY <2>2
  <2>4. m + 1 \in 0..N
    BY <1>1, <1>3
  <2> QED BY <2>3, <2>4
<1>4. \A m \in 0..N : m \in S
  <2> HIDE DEF S
  <2> QED BY <1>1, <1>2, <1>3, UpTo
<1>5. \E f : Is(f, N)
  <2> HIDE DEF Is
  <2> QED BY <1>1, <1>4
<1>7. Is(Merged(files), N)
  BY <1>5, <1>6
<1> QED BY <1>1, <1>7 DEF N

\* A document, or none once a file did not merge
Mergeable(doc) == doc = Failed \/ IsTree(doc)

\* The same document comes of two files in either order.
Commute(f, g) ==
  \A doc : Mergeable(doc) => Place(Place(doc, f), g) = Place(Place(doc, g), f)

InDirectories(files) == \A f \in files : Dir(f) \in Seq(STRING)

LEMMA PlaceMerges ==
  ASSUME NEW doc, NEW f, Dir(f) \in Seq(STRING)
  PROVE  Mergeable(Place(doc, f))
<1> DEFINE v == Tree(Updated(KidsOf(WalkTo(doc, Dir(f))), Given(f)))
           p == Dir(f)
<1>1. Place(doc, f) = Failed \/ Place(doc, f) = Put(doc, p, v)
  BY DEF Place
<1> HIDE DEF v
<1>2. IsTree(Put(doc, p, v))
  <2>1. CASE p = <<>>
    BY <2>1 DEF Put, Tree, IsTree
  <2>2. CASE p # <<>>
    <3>1. Len(p) \in 1..Len(p)
      BY <2>2
    <3>2. \A n \in 1..Len(p) : Raised(Above(doc, p), p, v)[n]
            = With(Above(doc, p)[Len(p) - n], p[Len(p) - n + 1], Raised(Above(doc, p), p, v)[n - 1])
      BY RaisedIs
    <3> HIDE DEF p
    <3>3. Put(doc, p, v) = Raised(Above(doc, p), p, v)[Len(p)]
      BY <2>2 DEF Put, Grown
    <3>4. \A d, k, x : IsTree(With(d, k, x))
      BY DEF With, Tree, IsTree
    <3> QED BY <3>1, <3>2, <3>3, <3>4
  <2> QED BY <2>1, <2>2
<1> QED BY <1>1, <1>2 DEF Mergeable

LEMMA MergedMerges ==
  ASSUME NEW S, InDirectories(S), NEW s \in Seq(S), NEW n \in 0..Len(s)
  PROVE  Mergeable(Merged(s)[n])
<1>1. Len(s) \in Nat
  OBVIOUS
<1>2. CASE n = 0
  BY <1>1, <1>2, MergedIs DEF Mergeable, Empty, Tree, IsTree
<1>3. CASE n # 0
  <2>1. n \in 1..Len(s) /\ s[n] \in S
    BY <1>3
  <2>2. Merged(s)[n] = Place(Merged(s)[n - 1], s[n])
    BY <1>1, <2>1, MergedIs
  <2> QED BY <2>1, <2>2, PlaceMerges DEF InDirectories
<1> QED BY <1>2, <1>3

\* A list without its i-th file
Rest(s, i) == [j \in 1..(Len(s) - 1) |-> IF j < i THEN s[j] ELSE s[j + 1]]

LEMMA RestLists ==
  ASSUME NEW S, NEW s, Lists(s, S), NEW i \in 1..Len(s)
  PROVE  /\ Lists(Rest(s, i), S \ {s[i]}) /\ Len(Rest(s, i)) = Len(s) - 1
         /\ \A j \in 1..(Len(s) - 1) : Rest(s, i)[j] = IF j < i THEN s[j] ELSE s[j + 1]
<1> DEFINE r == Rest(s, i)
           n == Len(s) - 1
<1>1. Len(s) = n + 1 /\ n \in Nat /\ i \in 1..(n + 1) /\ \A j \in 1..(n + 1) : s[j] \in S
  BY DEF Lists
<1>2. r = [j \in 1..n |-> IF j < i THEN s[j] ELSE s[j + 1]]
  BY DEF Rest
<1>8. \A j, l \in 1..(n + 1) : s[j] = s[l] => j = l
  BY <1>1 DEF Lists
<1>9. \A x \in S : \E j \in 1..(n + 1) : s[j] = x
  BY <1>1 DEF Lists
<1> HIDE DEF r, n
<1>3. \A j \in 1..n : /\ j < i => r[j] = s[j] /\ j \in 1..(n + 1)
                      /\ ~(j < i) => r[j] = s[j + 1] /\ j + 1 \in 1..(n + 1) /\ j + 1 > i
  BY <1>1, <1>2
<1>4. \A j \in 1..n : r[j] \in S \ {s[i]}
  BY <1>1, <1>3, <1>8
<1>5. r \in Seq(S \ {s[i]}) /\ Len(r) = n
  BY <1>1, <1>2, <1>4
<1>6. ASSUME NEW x \in S \ {s[i]} PROVE \E j \in 1..n : r[j] = x
  <2>1. PICK j \in 1..(n + 1) : s[j] = x
    BY <1>9
  <2>2. CASE j < i
    <3>1. j \in 1..n /\ r[j] = x
      BY <1>1, <1>3, <2>1, <2>2
    <3> QED BY <3>1
  <2>3. CASE j > i
    <3>1. j - 1 \in 1..n /\ ~(j - 1 < i) /\ (j - 1) + 1 = j
      BY <1>1, <2>3
    <3>2. r[j - 1] = x
      BY <1>3, <2>1, <3>1
    <3> QED BY <3>1, <3>2
  <2> QED BY <1>1, <2>1, <2>2, <2>3
<1>7. ASSUME NEW j \in 1..n, NEW l \in 1..n, r[j] = r[l] PROVE j = l
  BY <1>1, <1>3, <1>7, <1>8
<1>10. Lists(r, S \ {s[i]})
  BY <1>5, <1>6, <1>7 DEF Lists
<1>11. \A j \in 1..n : r[j] = IF j < i THEN s[j] ELSE s[j + 1]
  BY <1>2
<1> QED BY <1>5, <1>10, <1>11 DEF r, n

\* A file that commutes with the others may as well be the last.
LEMMA MovedToEnd ==
  ASSUME NEW S, InDirectories(S), NEW s, Lists(s, S), NEW i \in 1..Len(s),
         \A g \in S \ {s[i]} : Commute(s[i], g)
  PROVE  Merged(s)[Len(s)] = Place(Merged(Rest(s, i))[Len(s) - 1], s[i])
<1> DEFINE r == Rest(s, i)
           n == Len(s) - 1
           A(j) == Merged(s)[j]
           B(j) == Merged(r)[j]
           Fine(j) == /\ j < i => A(j) = B(j)
                      /\ j + 1 >= i => A(j + 1) = Place(B(j), s[i])
           U == {j \in 0..n : Fine(j)}
<1>1. Len(s) = n + 1 /\ n \in Nat /\ i \in 1..(n + 1) /\ s \in Seq(S)
  BY DEF Lists
<1>2. /\ Lists(r, S \ {s[i]}) /\ Len(r) = n
      /\ \A j \in 1..n : r[j] = IF j < i THEN s[j] ELSE s[j + 1]
  BY RestLists
<1>3. A(0) = Empty /\ \A j \in 1..(n + 1) : A(j) = Place(A(j - 1), s[j])
  BY <1>1, MergedIs
<1>4. B(0) = Empty /\ \A j \in 1..n : B(j) = Place(B(j - 1), r[j])
  BY <1>1, <1>2, MergedIs
<1>5. \A j \in 0..n : Mergeable(B(j))
  <2>1. InDirectories(S \ {s[i]}) /\ r \in Seq(S \ {s[i]})
    BY <1>2 DEF InDirectories, Lists
  <2> HIDE DEF r
  <2> QED BY <1>2, <2>1, MergedMerges
<1>6. \A j \in 1..n : r[j] \in S \ {s[i]}
  <2>1. r \in Seq(S \ {s[i]})
    BY <1>2 DEF Lists
  <2> HIDE DEF r
  <2> QED BY <1>2, <2>1
<1> HIDE DEF A, B, r, n
<1>7. Fine(0)
  <2>1. 0 < i => A(0) = B(0)
    BY <1>3, <1>4
  <2>2. 0 + 1 >= i => A(0 + 1) = Place(B(0), s[i])
    <3> SUFFICES ASSUME 1 >= i PROVE A(1) = Place(B(0), s[i])
      OBVIOUS
    <3>1. i = 1 /\ 1 \in 1..(n + 1) /\ 1 - 1 = 0
      BY <1>1
    <3>2. A(1) = Place(A(0), s[1])
      BY <1>3, <3>1
    <3> QED BY <1>3, <1>4, <3>1, <3>2
  <2> QED BY <2>1, <2>2
<1>8. ASSUME NEW j \in 0..(n - 1), Fine(j) PROVE Fine(j + 1)
  <2> DEFINE k == j + 1
  <2>1. k \in 1..n /\ k - 1 = j /\ j \in 0..n /\ k + 1 \in 1..(n + 1) /\ (k + 1) - 1 = k /\ k \in 1..(n + 1)
    BY <1>1
  <2>2. /\ A(k) = Place(A(j), s[k]) /\ A(k + 1) = Place(A(k), s[k + 1])
        /\ B(k) = Place(B(j), r[k])
    BY <1>3, <1>4, <2>1
  <2>3. k < i => r[k] = s[k] /\ A(j) = B(j)
    BY <1>1, <1>2, <1>8, <2>1
  <2>4. k < i => A(k) = B(k)
    BY <2>2, <2>3
  <2>5. k + 1 >= i => A(k + 1) = Place(B(k), s[i])
    <3>1. CASE k + 1 = i
      BY <1>1, <2>1, <2>2, <2>4, <3>1
    <3>2. CASE k >= i
      <4>1. r[k] = s[k + 1] /\ A(k) = Place(B(j), s[i])
        BY <1>1, <1>2, <1>8, <2>1, <3>2
      <4>2. Commute(s[i], r[k]) /\ Mergeable(B(j))
        BY <1>5, <1>6, <2>1
      <4>3. Place(Place(B(j), s[i]), r[k]) = Place(Place(B(j), r[k]), s[i])
        BY <4>2 DEF Commute
      <4> QED BY <2>2, <4>1, <4>3
    <3> QED BY <1>1, <2>1, <3>1, <3>2
  <2> QED BY <2>4, <2>5
<1>9. \A j \in 0..n : j \in U
  <2>1. 0 \in U
    BY <1>1, <1>7
  <2>2. \A j \in 0..(n - 1) : j \in U => j + 1 \in U
    <3>1. \A j \in 0..(n - 1) : j \in 0..n /\ j + 1 \in 0..n
      BY <1>1
    <3> HIDE DEF Fine
    <3> QED BY <1>8, <3>1
  <2> HIDE DEF U
  <2> QED BY <1>1, <2>1, <2>2, UpTo
<1>10. Fine(n)
  <2> HIDE DEF Fine
  <2> QED BY <1>1, <1>9
<1>11. A(n + 1) = Place(B(n), s[i])
  BY <1>1, <1>10
<1> QED BY <1>1, <1>11 DEF A, B, n, r

\* Files that commute merge into the same document in any order.
LEMMA MergedSame ==
  ASSUME NEW files, InDirectories(files), \A f, g \in files : f # g => Commute(f, g),
         NEW s, Lists(s, files), NEW t, Lists(t, files)
  PROVE  Merged(s)[Len(s)] = Merged(t)[Len(t)]
<1> DEFINE Alike(n) == \A S \in SUBSET files : \A q, r : Lists(q, S) /\ Lists(r, S) /\ Len(q) = n =>
                        Merged(q)[Len(q)] = Merged(r)[Len(r)]
           U == {n \in 0..Len(s) : Alike(n)}
<1>1. Len(s) \in Nat
  BY DEF Lists
<1>2. Alike(0)
  <2> SUFFICES ASSUME NEW S \in SUBSET files, NEW q, NEW r, Lists(q, S), Lists(r, S), Len(q) = 0
               PROVE  Merged(q)[Len(q)] = Merged(r)[Len(r)]
    OBVIOUS
  <2>1. S = {} /\ Len(r) \in Nat
    BY DEF Lists
  <2>2. Len(r) = 0
    <3>1. \A i \in 1..Len(r) : r[i] \in S
      BY DEF Lists
    <3> QED BY <2>1, <3>1
  <2> QED BY <2>1, <2>2, MergedIs
<1>3. ASSUME NEW n \in 0..(Len(s) - 1), Alike(n) PROVE Alike(n + 1)
  <2> SUFFICES ASSUME NEW S \in SUBSET files, NEW q, NEW r, Lists(q, S), Lists(r, S), Len(q) = n + 1
               PROVE  Merged(q)[Len(q)] = Merged(r)[Len(r)]
    OBVIOUS
  <2> DEFINE f == q[n + 1]
  <2>1. n \in Nat /\ n + 1 \in 1..Len(q) /\ f \in S
    BY <1>1 DEF Lists
  <2>2. PICK i \in 1..Len(r) : r[i] = f
    BY <2>1 DEF Lists
  <2>3. InDirectories(S) /\ \A g \in S \ {f} : Commute(f, g)
    BY <2>1 DEF InDirectories
  <2>4. Merged(q)[Len(q)] = Place(Merged(Rest(q, n + 1))[Len(q) - 1], f)
    BY <2>1, <2>3, MovedToEnd
  <2>5. Merged(r)[Len(r)] = Place(Merged(Rest(r, i))[Len(r) - 1], f)
    BY <2>2, <2>3, MovedToEnd
  <2>6. Lists(Rest(q, n + 1), S \ {f}) /\ Len(Rest(q, n + 1)) = Len(q) - 1
    BY <2>1, RestLists
  <2>7. Lists(Rest(r, i), S \ {f}) /\ Len(Rest(r, i)) = Len(r) - 1
    <3>1. Lists(Rest(r, i), S \ {r[i]}) /\ Len(Rest(r, i)) = Len(r) - 1
      BY RestLists
    <3> HIDE DEF f
    <3> QED BY <2>2, <3>1
  <2>8. Len(q) - 1 = n /\ S \ {f} \in SUBSET files
    BY <2>1
  <2> HIDE DEF f
  <2>9. Merged(Rest(q, n + 1))[Len(q) - 1] = Merged(Rest(r, i))[Len(r) - 1]
    BY <1>3, <2>6, <2>7, <2>8
  <2> QED BY <2>4, <2>5, <2>9
<1>4. \A n \in 0..Len(s) : n \in U
  <2>1. 0 \in U
    BY <1>1, <1>2
  <2>2. \A n \in 0..(Len(s) - 1) : n \in U => n + 1 \in U
    <3>1. \A n \in 0..(Len(s) - 1) : n \in 0..Len(s) /\ n + 1 \in 0..Len(s)
      BY <1>1
    <3> HIDE DEF Alike
    <3> QED BY <1>3, <3>1
  <2> HIDE DEF U
  <2> QED BY <1>1, <2>1, <2>2, UpTo
<1>5. Alike(Len(s))
  <2> HIDE DEF Alike
  <2> QED BY <1>1, <1>4
<1>6. files \in SUBSET files
  OBVIOUS
<1> QED BY <1>5, <1>6

\* What cannot be passed on the way to a directory
Closed(v) == v # NotFound /\ ~IsTree(v)

\* Place, of the members K and the directory p
PlaceAt(doc, p, K) ==
  IF doc = Failed \/ \E v \in OnTheWay(doc, p) : v # NotFound /\ ~IsTree(v) THEN Failed
  ELSE Put(doc, p, Tree(Updated(KidsOf(WalkTo(doc, p)), K)))

LEMMA OnTheWayIs ==
  ASSUME NEW doc, NEW p \in Seq(STRING)
  PROVE  OnTheWay(doc, p) = {Walked(doc, p)[i] : i \in 1..Len(p)}
<1>1. ASSUME NEW i \in 1..Len(p) PROVE WalkTo(doc, SubSeq(p, 1, i)) = Walked(doc, p)[i]
  <2> DEFINE q == SubSeq(p, 1, i)
  <2>1. q \in Seq(STRING) /\ Len(q) = i /\ i \in 0..Len(q) /\ i <= Len(p) /\ \A j \in 1..i : q[j] = p[j]
    OBVIOUS
  <2>2. WalkTo(doc, q) = Walked(doc, q)[i]
    BY <2>1 DEF WalkTo
  <2> HIDE DEF q
  <2>3. Walked(doc, q)[i] = Walked(doc, p)[i]
    BY <2>1, SamePrefix
  <2> QED BY <2>2, <2>3 DEF q
<1> QED BY <1>1 DEF OnTheWay

LEMMA NoWay == ASSUME NEW doc PROVE OnTheWay(doc, <<>>) = {}
<1>1. <<>> \in Seq(STRING) /\ Len(<<>>) = 0 /\ 1..0 = {}
  OBVIOUS
<1>2. OnTheWay(doc, <<>>) = {Walked(doc, <<>>)[i] : i \in 1..Len(<<>>)}
  BY <1>1, OnTheWayIs
<1>3. OnTheWay(doc, <<>>) = {Walked(doc, <<>>)[i] : i \in {}}
  BY <1>1, <1>2
<1> QED BY <1>3

LEMMA WalkHere == ASSUME NEW doc PROVE WalkTo(doc, <<>>) = doc
<1>1. <<>> \in Seq(STRING) /\ Len(<<>>) = 0
  OBVIOUS
<1> QED BY <1>1, WalkedIs DEF WalkTo

LEMMA WalkToTail ==
  ASSUME NEW doc, NEW p \in Seq(STRING), p # <<>>
  PROVE  WalkTo(doc, p) = WalkTo(Step(doc, p[1]), Tail(p))
<1>1. Len(p) \in 1..Len(p) /\ Len(Tail(p)) = Len(p) - 1
  BY TailIs
<1> QED BY <1>1, WalkShift DEF WalkTo

LEMMA OnTheWayTail ==
  ASSUME NEW doc, NEW p \in Seq(STRING), p # <<>>
  PROVE  OnTheWay(doc, p) = {Step(doc, p[1])} \cup OnTheWay(Step(doc, p[1]), Tail(p))
<1> DEFINE a == Walked(doc, p)
           b == Walked(Step(doc, p[1]), Tail(p))
           N == Len(p)
<1>1. Tail(p) \in Seq(STRING) /\ Len(Tail(p)) = N - 1 /\ N \in Nat \ {0}
  BY TailIs
<1>2. \A i \in 1..N : a[i] = b[i - 1]
  BY WalkShift
<1>3. b[0] = Step(doc, p[1])
  BY <1>1, WalkedIs
<1>4. OnTheWay(doc, p) = {a[i] : i \in 1..N}
  BY OnTheWayIs
<1>5. OnTheWay(Step(doc, p[1]), Tail(p)) = {b[i] : i \in 1..(N - 1)}
  BY <1>1, OnTheWayIs
<1> HIDE DEF a, b, N
<1>6. ASSUME NEW i \in 1..N PROVE a[i] \in {b[0]} \cup {b[j] : j \in 1..(N - 1)}
  <2>1. i - 1 = 0 \/ i - 1 \in 1..(N - 1)
    BY <1>1
  <2> QED BY <1>2, <2>1
<1>7. ASSUME NEW j \in 1..(N - 1) PROVE b[j] \in {a[i] : i \in 1..N}
  <2>1. j + 1 \in 1..N /\ (j + 1) - 1 = j
    BY <1>1
  <2> QED BY <1>2, <2>1
<1>8. b[0] \in {a[i] : i \in 1..N}
  <2>1. 1 \in 1..N /\ 1 - 1 = 0
    BY <1>1
  <2> QED BY <1>2, <2>1
<1>9. {a[i] : i \in 1..N} = {b[0]} \cup {b[j] : j \in 1..(N - 1)}
  BY <1>6, <1>7, <1>8
<1> QED BY <1>3, <1>4, <1>5, <1>9

\* Nothing is below what is not there, nor in an empty object.
LEMMA WalkNowhere ==
  ASSUME NEW p \in Seq(STRING)
  PROVE  /\ WalkTo(NotFound, p) = NotFound
         /\ \A v \in OnTheWay(NotFound, p) : v = NotFound
<1>1. Walked(NotFound, p)[0] = NotFound
  BY WalkedIs
<1>2. \A n \in 0..Len(p) : Walked(NotFound, p)[n] = NotFound
  BY <1>1, NothingBelow
<1> QED BY <1>2, OnTheWayIs DEF WalkTo

LEMMA WalkEmpty ==
  ASSUME NEW p \in Seq(STRING)
  PROVE  /\ KidsOf(WalkTo(Empty, p)) = <<>>
         /\ \A v \in OnTheWay(Empty, p) : v = NotFound
<1>1. KidsOf(Empty) = <<>> /\ KidsOf(NotFound) = <<>>
  BY DEF KidsOf, Empty, Tree, IsTree, NotFound
<1>2. CASE p = <<>>
  <2>1. OnTheWay(Empty, p) = {}
    BY <1>2, NoWay
  <2> QED BY <1>1, <1>2, <2>1, WalkHere
<1>3. CASE p # <<>>
  <2>1. Step(Empty, p[1]) = NotFound
    BY StepTree DEF Empty
  <2>2. Tail(p) \in Seq(STRING)
    BY <1>3, TailIs
  <2>3. WalkTo(Empty, p) = WalkTo(NotFound, Tail(p)) /\ OnTheWay(Empty, p) = {NotFound} \cup OnTheWay(NotFound, Tail(p))
    BY <1>3, <2>1, WalkToTail, OnTheWayTail
  <2>4. WalkTo(NotFound, Tail(p)) = NotFound /\ \A v \in OnTheWay(NotFound, Tail(p)) : v = NotFound
    BY <2>2, WalkNowhere
  <2> QED BY <1>1, <2>3, <2>4
<1> QED BY <1>2, <1>3

\* A document, or its part, whose parts are found as its members
LEMMA KidStep ==
  ASSUME NEW doc, ~Closed(doc), NEW s
  PROVE  Step(doc, s) = KidAt(doc, s) \/ (Step(doc, s) = NotFound /\ KidAt(doc, s) = Empty)
<1>1. doc[1] # "array"
  <2>1. NotFound[1] # "array"
    BY DEF NotFound
  <2>2. doc = NotFound \/ doc[1] = "object"
    BY DEF Closed, IsTree
  <2> QED BY <2>1, <2>2
<1>2. Step(doc, s) = IF s \in DOMAIN KidsOf(doc) THEN KidsOf(doc)[s] ELSE NotFound
  BY <1>1, StepIs
<1>3. CASE s \in DOMAIN KidsOf(doc)
  <2>1. Step(doc, s) = KidsOf(doc)[s]
    BY <1>2, <1>3
  <2>2. KidAt(doc, s) = KidsOf(doc)[s]
    BY <1>3 DEF KidAt
  <2> QED BY <2>1, <2>2
<1>4. CASE s \notin DOMAIN KidsOf(doc)
  BY <1>2, <1>4 DEF KidAt
<1> QED BY <1>3, <1>4

LEMMA WayThroughKid ==
  ASSUME NEW doc, ~Closed(doc), NEW p \in Seq(STRING), p # <<>>
  PROVE  /\ KidsOf(WalkTo(doc, p)) = KidsOf(WalkTo(KidAt(doc, p[1]), Tail(p)))
         /\ (\E v \in OnTheWay(doc, p) : Closed(v))
            <=> Closed(Step(doc, p[1])) \/ \E v \in OnTheWay(KidAt(doc, p[1]), Tail(p)) : Closed(v)
<1>1. Tail(p) \in Seq(STRING)
  BY TailIs
<1>2. CASE Step(doc, p[1]) = KidAt(doc, p[1])
  BY <1>2, WalkToTail, OnTheWayTail
<1>3. CASE Step(doc, p[1]) = NotFound /\ KidAt(doc, p[1]) = Empty
  <2>1. KidsOf(NotFound) = <<>> /\ ~Closed(NotFound)
    BY DEF KidsOf, IsTree, NotFound, Closed
  <2>2. /\ WalkTo(doc, p) = WalkTo(NotFound, Tail(p))
        /\ OnTheWay(doc, p) = {NotFound} \cup OnTheWay(NotFound, Tail(p))
    BY <1>3, WalkToTail, OnTheWayTail
  <2>3. WalkTo(doc, p) = NotFound /\ \A v \in OnTheWay(doc, p) : v = NotFound
    BY <1>1, <2>2, WalkNowhere
  <2>4. /\ KidsOf(WalkTo(KidAt(doc, p[1]), Tail(p))) = <<>>
        /\ \A v \in OnTheWay(KidAt(doc, p[1]), Tail(p)) : v = NotFound
    BY <1>1, <1>3, WalkEmpty
  <2> QED BY <1>3, <2>1, <2>3, <2>4
<1> QED BY <1>2, <1>3, KidStep

\* What is put into a directory is put into the kid on the way to it.
LEMMA PlaceHere ==
  ASSUME NEW doc, doc # Failed, NEW K
  PROVE  PlaceAt(doc, <<>>, K) = Tree(Updated(KidsOf(doc), K))
<1>1. OnTheWay(doc, <<>>) = {}
  BY NoWay
<1>2. \A f : KidsOf(Tree(f)) = f
  BY DEF KidsOf, Tree, IsTree
<1> QED BY <1>1, <1>2, WalkHere DEF PlaceAt, Put

LEMMA PlaceBelow ==
  ASSUME NEW doc, ~Closed(doc), NEW p \in Seq(STRING), p # <<>>, NEW K
  PROVE  PlaceAt(doc, p, K)
           = LET r == PlaceAt(KidAt(doc, p[1]), Tail(p), K)
             IN IF Closed(Step(doc, p[1])) \/ r = Failed THEN Failed ELSE With(doc, p[1], r)
<1> DEFINE s == p[1]
           kid == KidAt(doc, p[1])
           t == Tail(p)
           v == Tree(Updated(KidsOf(WalkTo(doc, p)), K))
           w == Tree(Updated(KidsOf(WalkTo(kid, t)), K))
           no == \E u \in OnTheWay(doc, p) : Closed(u)
           nor == \E u \in OnTheWay(kid, t) : Closed(u)
<1>1. t \in Seq(STRING)
  BY TailIs
<1>2. v = w /\ (no <=> Closed(Step(doc, s)) \/ nor)
  BY WayThroughKid
<1>3. ~Closed(Failed) => FALSE
  BY DEF Closed, Failed, NotFound, IsTree
<1>4. doc # Failed
  BY <1>3
<1>5. Put(doc, p, v) = With(doc, s, Grown(kid, t, v))
  BY GrownShift DEF Put
<1>6. Put(kid, t, v) = Grown(kid, t, v)
  <2>1. CASE t = <<>>
    BY <2>1, GrownHere DEF Put, Tree, KidsOf, IsTree
  <2>2. CASE t # <<>>
    BY <2>2 DEF Put
  <2> QED BY <2>1, <2>2
<1>7. PlaceAt(doc, p, K) = IF no THEN Failed ELSE Put(doc, p, v)
  BY <1>4 DEF PlaceAt, Closed
<1>8. PlaceAt(kid, t, K) = IF kid = Failed \/ nor THEN Failed ELSE Put(kid, t, w)
  BY DEF PlaceAt, Closed
<1>9. \A x, k, y : With(x, k, y) # Failed
  BY DEF With, Tree, Failed
<1>10. ~Closed(Step(doc, s)) => kid # Failed
  <2>1. Empty # Failed /\ (~Closed(Step(doc, s)) => Step(doc, s) # Failed)
    BY <1>3 DEF Empty, Failed, Tree
  <2> QED BY <2>1, KidStep
<1>11. Put(kid, t, w) # Failed
  <2>1. CASE t = <<>>
    BY <2>1 DEF Put, Tree, Failed
  <2>2. CASE t # <<>>
    <3>1. Grown(kid, t, w) = With(kid, t[1], Grown(KidAt(kid, t[1]), Tail(t), w))
      BY <1>1, <2>2, GrownShift
    <3> QED BY <1>9, <2>2, <3>1 DEF Put
  <2> QED BY <2>1, <2>2
<1> HIDE DEF v, w, no, nor, t, kid, s
<1>12. PlaceAt(doc, p, K) = LET r == PlaceAt(kid, t, K)
                            IN IF Closed(Step(doc, s)) \/ r = Failed THEN Failed ELSE With(doc, s, r)
  <2>1. CASE Closed(Step(doc, s)) \/ nor
    BY <1>2, <1>7, <1>8, <2>1
  <2>2. CASE ~Closed(Step(doc, s)) /\ ~nor
    BY <1>2, <1>5, <1>6, <1>7, <1>8, <1>10, <1>11, <2>2
  <2> QED BY <2>1, <2>2
<1> QED BY <1>12 DEF s, t, kid

\* Members that two files give to two directories and that do not meet: neither file gives
\* a member that the other one gives or that the other's directory is or is in.
Separate(p, K, q, L) ==
  \/ Apart(p, q)
  \/ Len(p) = Len(q) /\ DOMAIN K \cap DOMAIN L = {}
  \/ Len(p) < Len(q) /\ q[Len(p) + 1] \notin DOMAIN K
  \/ Len(q) < Len(p) /\ p[Len(q) + 1] \notin DOMAIN L

LEMMA TreeIs ==
  ASSUME NEW f
  PROVE  KidsOf(Tree(f)) = f /\ IsTree(Tree(f)) /\ Tree(f) # Failed /\ ~Closed(Tree(f))
  BY DEF KidsOf, Tree, IsTree, Failed, Closed

HasKid(w, v, s, kid) ==
  /\ DOMAIN KidsOf(w) = DOMAIN KidsOf(v) \cup {s} /\ KidsOf(w)[s] = kid
  /\ \A k \in DOMAIN KidsOf(v) : k # s => KidsOf(w)[k] = KidsOf(v)[k]

LEMMA WithIs ==
  ASSUME NEW v, NEW s, NEW kid
  PROVE  /\ IsTree(With(v, s, kid)) /\ With(v, s, kid) # Failed /\ ~Closed(With(v, s, kid))
         /\ HasKid(With(v, s, kid), v, s, kid)
<1> DEFINE f == [k \in DOMAIN KidsOf(v) \cup {s} |-> IF k = s THEN kid ELSE KidsOf(v)[k]]
<1>1. /\ DOMAIN f = DOMAIN KidsOf(v) \cup {s} /\ f[s] = kid
      /\ \A k \in DOMAIN KidsOf(v) : k # s => f[k] = KidsOf(v)[k]
  OBVIOUS
<1>2. With(v, s, kid) = Tree(f)
  BY DEF With
<1> HIDE DEF f
<1>3. IsTree(Tree(f)) /\ Tree(f) # Failed /\ ~Closed(Tree(f)) /\ KidsOf(Tree(f)) = f
  BY TreeIs
<1>4. HasKid(Tree(f), v, s, kid)
  BY <1>1, <1>3 DEF HasKid
<1> QED BY <1>2, <1>3, <1>4

LEMMA FailedClosed == Closed(Failed) /\ \A p, K : PlaceAt(Failed, p, K) = Failed
  BY DEF Closed, Failed, NotFound, IsTree, PlaceAt

\* Two objects that have a member in common, or neither has it
SameKid(v, w, s) ==
  /\ s \in DOMAIN KidsOf(v) <=> s \in DOMAIN KidsOf(w)
  /\ s \in DOMAIN KidsOf(v) => KidsOf(v)[s] = KidsOf(w)[s]

LEMMA SameKidSteps ==
  ASSUME NEW v, ~Closed(v), NEW w, ~Closed(w), NEW s, SameKid(v, w, s)
  PROVE  Step(v, s) = Step(w, s) /\ KidAt(v, s) = KidAt(w, s)
<1>1. \A d : ~Closed(d) => d[1] # "array"
  <2>1. NotFound[1] # "array"
    BY DEF NotFound
  <2>2. \A d : ~Closed(d) => d = NotFound \/ d[1] = "object"
    BY DEF Closed, IsTree
  <2> QED BY <2>1, <2>2
<1>2. /\ Step(v, s) = IF s \in DOMAIN KidsOf(v) THEN KidsOf(v)[s] ELSE NotFound
      /\ Step(w, s) = IF s \in DOMAIN KidsOf(w) THEN KidsOf(w)[s] ELSE NotFound
  BY <1>1, StepIs
<1> QED BY <1>2 DEF SameKid, KidAt

\* What happens below the directory happens to the kid.
LEMMA PlaceSplit ==
  ASSUME NEW doc, ~Closed(doc), NEW p \in Seq(STRING), p # <<>>, NEW K,
         NEW r, r = PlaceAt(KidAt(doc, p[1]), Tail(p), K)
  PROVE  /\ Closed(Step(doc, p[1])) \/ r = Failed => PlaceAt(doc, p, K) = Failed
         /\ ~Closed(Step(doc, p[1])) /\ r # Failed => PlaceAt(doc, p, K) = With(doc, p[1], r)
  BY PlaceBelow

LEMMA PlaceTree ==
  ASSUME NEW doc, ~Closed(doc), NEW p \in Seq(STRING), NEW K, PlaceAt(doc, p, K) # Failed
  PROVE  IsTree(PlaceAt(doc, p, K)) /\ ~Closed(PlaceAt(doc, p, K))
<1>1. CASE p = <<>>
  <2>1. PlaceAt(doc, <<>>, K) = Tree(Updated(KidsOf(doc), K))
    BY PlaceHere, FailedClosed
  <2> QED BY <1>1, <2>1, TreeIs
<1>2. CASE p # <<>>
  <2>1. PICK r : PlaceAt(doc, p, K) = With(doc, p[1], r)
    BY <1>2, PlaceSplit
  <2>2. IsTree(With(doc, p[1], r)) /\ ~Closed(With(doc, p[1], r))
    BY WithIs
  <2> QED BY <2>1, <2>2
<1> QED BY <1>1, <1>2

\* Members of the root, and what is put below another member
LEMMA RootCommutes ==
  ASSUME NEW doc, ~Closed(doc), NEW K, NEW q \in Seq(STRING), q # <<>>, q[1] \notin DOMAIN K, NEW L
  PROVE  PlaceAt(PlaceAt(doc, <<>>, K), q, L) = PlaceAt(PlaceAt(doc, q, L), <<>>, K)
<1> DEFINE s == q[1]
           root == Tree(Updated(KidsOf(doc), K))
           r == PlaceAt(KidAt(doc, s), Tail(q), L)
<1>1. PlaceAt(doc, <<>>, K) = root
  BY PlaceHere, FailedClosed
<1>2. ~Closed(root) /\ KidsOf(root) = Updated(KidsOf(doc), K)
  BY TreeIs
<1>3. SameKid(root, doc, s)
  BY <1>2 DEF SameKid, Updated
<1>4. Step(root, s) = Step(doc, s) /\ KidAt(root, s) = KidAt(doc, s)
  BY <1>2, <1>3, SameKidSteps
<1> HIDE DEF root
<1>5. CASE Closed(Step(doc, s)) \/ r = Failed
  <2>1. PlaceAt(doc, q, L) = Failed /\ PlaceAt(root, q, L) = Failed
    BY <1>2, <1>4, <1>5, PlaceSplit
  <2> QED BY <1>1, <2>1, FailedClosed
<1>6. CASE ~Closed(Step(doc, s)) /\ r # Failed
  <2>1. PlaceAt(doc, q, L) = With(doc, s, r) /\ PlaceAt(root, q, L) = With(root, s, r)
    BY <1>2, <1>4, <1>6, PlaceSplit
  <2>2. PlaceAt(With(doc, s, r), <<>>, K) = Tree(Updated(KidsOf(With(doc, s, r)), K))
    <3>1. With(doc, s, r) # Failed
      BY WithIs
    <3> HIDE DEF s, r
    <3> QED BY <3>1, PlaceHere
  <2>3. [k \in DOMAIN KidsOf(root) \cup {s} |-> IF k = s THEN r ELSE KidsOf(root)[k]]
          = Updated(KidsOf(With(doc, s, r)), K)
    <3> DEFINE a == KidsOf(doc)
               b == KidsOf(With(doc, s, r))
    <3>1. DOMAIN b = DOMAIN a \cup {s} /\ b[s] = r /\ \A k \in DOMAIN a : k # s => b[k] = a[k]
      <4>1. HasKid(With(doc, s, r), doc, s, r)
        BY WithIs
      <4> HIDE DEF s, r
      <4> QED BY <4>1 DEF HasKid
    <3>2. s \notin DOMAIN K
      OBVIOUS
    <3>3. KidsOf(root) = Updated(a, K)
      BY <1>2
    <3> HIDE DEF a, b, s, r
    <3>4. [k \in DOMAIN KidsOf(root) \cup {s} |-> IF k = s THEN r ELSE KidsOf(root)[k]] = Updated(b, K)
      BY <3>1, <3>2, <3>3 DEF Updated
    <3> QED BY <3>4 DEF b
  <2> QED BY <1>1, <2>1, <2>2, <2>3 DEF With
<1> QED BY <1>5, <1>6

\* What is put below two different members of the root
LEMMA KidsCommute ==
  ASSUME NEW doc, ~Closed(doc), NEW p \in Seq(STRING), p # <<>>, NEW K,
         NEW q \in Seq(STRING), q # <<>>, p[1] # q[1], NEW L
  PROVE  PlaceAt(PlaceAt(doc, p, K), q, L) = PlaceAt(PlaceAt(doc, q, L), p, K)
<1> DEFINE s == p[1]
           t == q[1]
           a == PlaceAt(KidAt(doc, s), Tail(p), K)
           b == PlaceAt(KidAt(doc, t), Tail(q), L)
           noA == Closed(Step(doc, s)) \/ a = Failed
           noB == Closed(Step(doc, t)) \/ b = Failed
<1>1. \A x : /\ Step(With(doc, s, x), t) = Step(doc, t) /\ KidAt(With(doc, s, x), t) = KidAt(doc, t)
             /\ Step(With(doc, t, x), s) = Step(doc, s) /\ KidAt(With(doc, t, x), s) = KidAt(doc, s)
  <2> SUFFICES ASSUME NEW x
               PROVE  /\ Step(With(doc, s, x), t) = Step(doc, t) /\ KidAt(With(doc, s, x), t) = KidAt(doc, t)
                      /\ Step(With(doc, t, x), s) = Step(doc, s) /\ KidAt(With(doc, t, x), s) = KidAt(doc, s)
    OBVIOUS
  <2>1. SameKid(With(doc, s, x), doc, t) /\ SameKid(With(doc, t, x), doc, s)
    <3>1. s # t
      OBVIOUS
    <3> HIDE DEF s, t
    <3>2. HasKid(With(doc, s, x), doc, s, x) /\ HasKid(With(doc, t, x), doc, t, x)
      BY WithIs
    <3> QED BY <3>1, <3>2 DEF SameKid, HasKid
  <2>2. ~Closed(With(doc, s, x)) /\ ~Closed(With(doc, t, x))
    BY WithIs
  <2> QED BY <2>1, <2>2, SameKidSteps
<1>2. /\ noA => PlaceAt(doc, p, K) = Failed
      /\ ~noA => PlaceAt(doc, p, K) = With(doc, s, a)
      /\ noB => PlaceAt(doc, q, L) = Failed
      /\ ~noB => PlaceAt(doc, q, L) = With(doc, t, b)
  BY PlaceSplit
<1>3. \A x : ~Closed(With(doc, s, x)) /\ ~Closed(With(doc, t, x))
  BY WithIs
<1>4. \A x : /\ noB => PlaceAt(With(doc, s, x), q, L) = Failed
             /\ ~noB => PlaceAt(With(doc, s, x), q, L) = With(With(doc, s, x), t, b)
             /\ noA => PlaceAt(With(doc, t, x), p, K) = Failed
             /\ ~noA => PlaceAt(With(doc, t, x), p, K) = With(With(doc, t, x), s, a)
  BY <1>1, <1>3, PlaceSplit
<1>5. With(With(doc, s, a), t, b) = With(With(doc, t, b), s, a)
  <2> DEFINE f == KidsOf(doc)
             g == KidsOf(With(doc, s, a))
             h == KidsOf(With(doc, t, b))
  <2>1. /\ DOMAIN g = DOMAIN f \cup {s} /\ g[s] = a /\ \A k \in DOMAIN f : k # s => g[k] = f[k]
        /\ DOMAIN h = DOMAIN f \cup {t} /\ h[t] = b /\ \A k \in DOMAIN f : k # t => h[k] = f[k]
    <3> HIDE DEF s, t, a, b
    <3>1. HasKid(With(doc, s, a), doc, s, a) /\ HasKid(With(doc, t, b), doc, t, b)
      BY WithIs
    <3> QED BY <3>1 DEF HasKid
  <2>2. s # t
    OBVIOUS
  <2> HIDE DEF f, g, h, s, t, a, b
  <2>3. [k \in DOMAIN g \cup {t} |-> IF k = t THEN b ELSE g[k]]
          = [k \in DOMAIN h \cup {s} |-> IF k = s THEN a ELSE h[k]]
    BY <2>1, <2>2
  <2> QED BY <2>3 DEF With, g, h
<1> HIDE DEF noA, noB, a, b, s, t
<1> QED BY <1>2, <1>4, <1>5, FailedClosed

\* The directories are below one member of the root: what holds there holds here.
LEMMA SameKidCommutes ==
  ASSUME NEW doc, ~Closed(doc), NEW p \in Seq(STRING), p # <<>>, NEW K,
         NEW q \in Seq(STRING), q # <<>>, p[1] = q[1], NEW L
  PROVE  LET kid == KidAt(doc, p[1])
             both == PlaceAt(PlaceAt(kid, Tail(p), K), Tail(q), L)
         IN PlaceAt(PlaceAt(doc, p, K), q, L)
              = IF Closed(Step(doc, p[1])) \/ both = Failed THEN Failed ELSE With(doc, p[1], both)
<1> DEFINE s == p[1]
           kid == KidAt(doc, s)
           a == PlaceAt(kid, Tail(p), K)
           both == PlaceAt(a, Tail(q), L)
<1>1. CASE Closed(Step(doc, s)) \/ a = Failed
  <2>1. PlaceAt(doc, p, K) = Failed
    BY <1>1, PlaceSplit
  <2>2. a = Failed => both = Failed
    BY FailedClosed
  <2> QED BY <1>1, <2>1, <2>2, FailedClosed
<1>2. CASE ~Closed(Step(doc, s)) /\ a # Failed
  <2> DEFINE x == With(doc, s, a)
  <2>1. PlaceAt(doc, p, K) = x
    BY <1>2, PlaceSplit
  <2>2. ~Closed(kid)
    <3>1. ~Closed(Empty)
      BY TreeIs DEF Empty
    <3> QED BY <1>2, <3>1, KidStep
  <2>3. ~Closed(a)
    <3>1. Tail(p) \in Seq(STRING)
      BY TailIs
    <3> QED BY <1>2, <2>2, <3>1, PlaceTree
  <2>4. ~Closed(x) /\ KidAt(x, s) = a /\ Step(x, s) = a
    <3>1. Step(x, s) = a
      BY StepWith
    <3>2. ~Closed(x) /\ s \in DOMAIN KidsOf(x) /\ KidsOf(x)[s] = a
      <4> HIDE DEF s, a
      <4>1. HasKid(With(doc, s, a), doc, s, a) /\ ~Closed(With(doc, s, a))
        BY WithIs
      <4> QED BY <4>1 DEF HasKid
    <3> HIDE DEF x, s, a
    <3> QED BY <3>1, <3>2 DEF KidAt
  <2>5. both = Failed => PlaceAt(x, q, L) = Failed
    <3> HIDE DEF x, a
    <3> QED BY <2>4, PlaceSplit
  <2>6. both # Failed => PlaceAt(x, q, L) = With(x, s, both)
    <3> HIDE DEF x, a
    <3> QED BY <2>3, <2>4, PlaceSplit
  <2>7. With(x, s, both) = With(doc, s, both)
    <3> DEFINE f == KidsOf(doc)
               g == KidsOf(x)
    <3>1. DOMAIN g = DOMAIN f \cup {s} /\ \A k \in DOMAIN f : k # s => g[k] = f[k]
      <4> HIDE DEF s, a
      <4>1. HasKid(With(doc, s, a), doc, s, a) /\ ~Closed(With(doc, s, a))
        BY WithIs
      <4> QED BY <4>1 DEF HasKid
    <3> HIDE DEF x, a, both, s, f, g
    <3>2. [k \in DOMAIN g \cup {s} |-> IF k = s THEN both ELSE g[k]]
            = [k \in DOMAIN f \cup {s} |-> IF k = s THEN both ELSE f[k]]
      BY <3>1
    <3> QED BY <3>2 DEF With, f, g
  <2> HIDE DEF x, a, s, kid
  <2>8. PlaceAt(PlaceAt(doc, p, K), q, L) = IF both = Failed THEN Failed ELSE With(doc, s, both)
    BY <2>1, <2>5, <2>6, <2>7
  <2> QED BY <1>2, <2>8 DEF a, s, kid
<1> QED BY <1>1, <1>2

\* What is put into two directories is there in either order.
Commutes(p, K, q, L) ==
  \A doc : ~Closed(doc) => PlaceAt(PlaceAt(doc, p, K), q, L) = PlaceAt(PlaceAt(doc, q, L), p, K)

LEMMA SeparateTails ==
  ASSUME NEW p \in Seq(STRING), p # <<>>, NEW K, NEW q \in Seq(STRING), q # <<>>, NEW L,
         p[1] = q[1], Separate(p, K, q, L)
  PROVE  Separate(Tail(p), K, Tail(q), L)
<1> DEFINE s == Tail(p)
           t == Tail(q)
           m == Len(p) - 1
           n == Len(q) - 1
<1>1. /\ s \in Seq(STRING) /\ Len(s) = m /\ m \in Nat /\ \A i \in 1..m : s[i] = p[i + 1]
      /\ t \in Seq(STRING) /\ Len(t) = n /\ n \in Nat /\ \A i \in 1..n : t[i] = q[i + 1]
      /\ Len(p) = m + 1 /\ Len(q) = n + 1
  BY TailIs
<1> HIDE DEF s, t, m, n
<1>2. CASE Apart(p, q)
  <2>1. PICK i \in 1..Len(p) \cap 1..Len(q) : p[i] # q[i]
    BY <1>2 DEF Apart
  <2>2. i - 1 \in 1..m /\ i - 1 \in 1..n /\ (i - 1) + 1 = i
    BY <1>1, <2>1
  <2>3. s[i - 1] = p[i] /\ t[i - 1] = q[i]
    BY <1>1, <2>2
  <2>4. DOMAIN s = 1..m /\ DOMAIN t = 1..n
    BY <1>1
  <2>5. Apart(s, t)
    BY <2>1, <2>2, <2>3, <2>4 DEF Apart
  <2> QED BY <2>5 DEF Separate, s, t
<1>3. CASE Len(p) = Len(q) /\ DOMAIN K \cap DOMAIN L = {}
  BY <1>1, <1>3 DEF Separate, s, t
<1>4. CASE Len(p) < Len(q) /\ q[Len(p) + 1] \notin DOMAIN K
  <2>1. m < n /\ m + 1 \in 1..n /\ (m + 1) + 1 = Len(p) + 1
    BY <1>1, <1>4
  <2>2. t[m + 1] = q[Len(p) + 1]
    BY <1>1, <2>1
  <2> QED BY <1>1, <1>4, <2>1, <2>2 DEF Separate, s, t
<1>5. CASE Len(q) < Len(p) /\ p[Len(q) + 1] \notin DOMAIN L
  <2>1. n < m /\ n + 1 \in 1..m /\ (n + 1) + 1 = Len(q) + 1
    BY <1>1, <1>5
  <2>2. s[n + 1] = p[Len(q) + 1]
    BY <1>1, <2>1
  <2> QED BY <1>1, <1>5, <2>1, <2>2 DEF Separate, s, t
<1> QED BY <1>2, <1>3, <1>4, <1>5 DEF Separate

LEMMA RootsCommute ==
  ASSUME NEW K, NEW L, DOMAIN K \cap DOMAIN L = {}
  PROVE  Commutes(<<>>, K, <<>>, L)
<1> SUFFICES ASSUME NEW doc, ~Closed(doc)
             PROVE  PlaceAt(PlaceAt(doc, <<>>, K), <<>>, L) = PlaceAt(PlaceAt(doc, <<>>, L), <<>>, K)
  BY DEF Commutes
<1> DEFINE a == KidsOf(doc)
<1>1. Updated(Updated(a, K), L) = Updated(Updated(a, L), K)
  <2> HIDE DEF a
  <2> QED BY DEF Updated
<1>2. PlaceAt(doc, <<>>, K) = Tree(Updated(a, K)) /\ PlaceAt(doc, <<>>, L) = Tree(Updated(a, L))
  BY PlaceHere, FailedClosed
<1>3. \A f, M : PlaceAt(Tree(f), <<>>, M) = Tree(Updated(f, M))
  BY PlaceHere, TreeIs
<1> HIDE DEF a
<1> QED BY <1>1, <1>2, <1>3

LEMMA BelowOneKid ==
  ASSUME NEW p \in Seq(STRING), p # <<>>, NEW K, NEW q \in Seq(STRING), q # <<>>, NEW L,
         p[1] = q[1], Commutes(Tail(p), K, Tail(q), L)
  PROVE  Commutes(p, K, q, L)
<1> SUFFICES ASSUME NEW doc, ~Closed(doc)
             PROVE  PlaceAt(PlaceAt(doc, p, K), q, L) = PlaceAt(PlaceAt(doc, q, L), p, K)
  BY DEF Commutes
<1> DEFINE s == p[1]
           kid == KidAt(doc, s)
           one == PlaceAt(PlaceAt(kid, Tail(p), K), Tail(q), L)
           other == PlaceAt(PlaceAt(kid, Tail(q), L), Tail(p), K)
<1>1. PlaceAt(PlaceAt(doc, p, K), q, L)
        = IF Closed(Step(doc, s)) \/ one = Failed THEN Failed ELSE With(doc, s, one)
  BY SameKidCommutes
<1>2. PlaceAt(PlaceAt(doc, q, L), p, K)
        = IF Closed(Step(doc, s)) \/ other = Failed THEN Failed ELSE With(doc, s, other)
  BY SameKidCommutes
<1>3. ~Closed(Step(doc, s)) => one = other
  <2>1. ~Closed(Empty)
    BY TreeIs DEF Empty
  <2>2. ~Closed(Step(doc, s)) => ~Closed(kid)
    BY <2>1, KidStep
  <2> QED BY <2>2 DEF Commutes
<1> HIDE DEF one, other, kid, s
<1> QED BY <1>1, <1>2, <1>3

LEMMA SeparateCommute ==
  ASSUME NEW K, NEW L, NEW path \in Seq(STRING), NEW other \in Seq(STRING),
         Separate(path, K, other, L)
  PROVE  Commutes(path, K, other, L)
<1> DEFINE Fine(n) == \A p, q \in Seq(STRING) : Len(p) = n /\ Separate(p, K, q, L) => Commutes(p, K, q, L)
           N == Len(path)
           S == {n \in 0..N : Fine(n)}
<1>1. N \in Nat
  OBVIOUS
<1>2. <<>> \in Seq(STRING) /\ Len(<<>>) = 0 /\ \A r : ~Apart(<<>>, r) /\ ~Apart(r, <<>>)
  BY DEF Apart
<1>3. Fine(0)
  <2> SUFFICES ASSUME NEW p \in Seq(STRING), NEW q \in Seq(STRING), Len(p) = 0, Separate(p, K, q, L)
               PROVE  Commutes(p, K, q, L)
    OBVIOUS
  <2>1. p = <<>>
    BY EmptySeq
  <2>2. CASE q = <<>>
    <3>1. DOMAIN K \cap DOMAIN L = {}
      BY <1>2, <2>1, <2>2 DEF Separate
    <3> QED BY <2>1, <2>2, <3>1, RootsCommute
  <2>3. CASE q # <<>>
    <3>1. Len(q) \in Nat \ {0}
      BY <2>3, EmptySeq
    <3>2. q[1] \notin DOMAIN K
      BY <1>2, <2>1, <3>1 DEF Separate
    <3> QED BY <2>1, <2>3, <3>2, RootCommutes DEF Commutes
  <2> QED BY <2>2, <2>3
<1>4. ASSUME NEW n \in 0..(N - 1), Fine(n) PROVE Fine(n + 1)
  <2> SUFFICES ASSUME NEW p \in Seq(STRING), NEW q \in Seq(STRING), Len(p) = n + 1, Separate(p, K, q, L)
               PROVE  Commutes(p, K, q, L)
    OBVIOUS
  <2>1. n \in Nat /\ p # <<>>
    BY <1>1, <1>2
  <2>2. CASE q = <<>>
    <3>1. p[1] \notin DOMAIN L
      BY <1>2, <2>1, <2>2 DEF Separate
    <3>2. \A doc : ~Closed(doc) => PlaceAt(PlaceAt(doc, <<>>, L), p, K) = PlaceAt(PlaceAt(doc, p, K), <<>>, L)
      BY <2>1, <3>1, RootCommutes
    <3> QED BY <2>2, <3>2 DEF Commutes
  <2>3. CASE q # <<>> /\ p[1] # q[1]
    BY <2>1, <2>3, KidsCommute DEF Commutes
  <2>4. CASE q # <<>> /\ p[1] = q[1]
    <3>1. Separate(Tail(p), K, Tail(q), L)
      BY <2>1, <2>4, SeparateTails
    <3>2. Tail(p) \in Seq(STRING) /\ Tail(q) \in Seq(STRING) /\ Len(Tail(p)) = n
      BY <2>1, <2>4, TailIs
    <3>3. Commutes(Tail(p), K, Tail(q), L)
      BY <1>4, <3>1, <3>2
    <3> QED BY <2>1, <2>4, <3>3, BelowOneKid
  <2> QED BY <2>2, <2>3, <2>4
<1>5. \A n \in 0..N : n \in S
  <2>1. 0 \in S
    BY <1>1, <1>3
  <2>2. \A n \in 0..(N - 1) : n \in S => n + 1 \in S
    <3>1. \A n \in 0..(N - 1) : n \in 0..N /\ n + 1 \in 0..N
      BY <1>1
    <3> HIDE DEF Fine, N
    <3> QED BY <1>4, <3>1
  <2> HIDE DEF S, N
  <2> QED BY <1>1, <2>1, <2>2, UpTo
<1>6. Fine(N)
  <2> HIDE DEF Fine, N
  <2> QED BY <1>1, <1>5
<1> QED BY <1>6

\* The one path begins with the other.
Agree(q, p) == \A i \in 1..Len(p) : q[i] = p[i]

\* A file with strings for the members that it gives to its directory
Placeable(f) == Dir(f) \in Seq(STRING) /\ DOMAIN Given(f) \subseteq STRING
Unrelated(f, g) == \A p \in Members(f), q \in Members(g) : ~Related(p, q)

LEMMA AppendIs ==
  ASSUME NEW S, NEW p \in Seq(S), NEW k \in S
  PROVE  /\ Append(p, k) \in Seq(S) /\ Len(Append(p, k)) = Len(p) + 1
         /\ Append(p, k)[Len(p) + 1] = k /\ Agree(Append(p, k), p)
  BY AppendProperties DEF Agree

\* A member that is the other's directory, or on the way to it, leads to all its members.
LEMMA MembersBelow ==
  ASSUME NEW f, Placeable(f), NEW g, Placeable(g), Unrelated(f, g), ~Apart(Dir(f), Dir(g)),
         Len(Dir(f)) < Len(Dir(g))
  PROVE  Dir(g)[Len(Dir(f)) + 1] \notin DOMAIN Given(f)
<1> DEFINE p == Dir(f)
           q == Dir(g)
           k == q[Len(p) + 1]
           a == Append(p, k)
<1>1. /\ p \in Seq(STRING) /\ q \in Seq(STRING) /\ Len(p) \in Nat /\ Len(q) \in Nat /\ Len(p) < Len(q)
      /\ \A i \in 1..Len(p) : p[i] = q[i]
  BY DEF Placeable, Apart
<1> SUFFICES ASSUME k \in DOMAIN Given(f) PROVE FALSE
  OBVIOUS
<1>2. k \in STRING /\ a \in Members(f)
  BY DEF Placeable, Members
<1>3. a \in Seq(STRING) /\ Len(a) = Len(p) + 1 /\ a[Len(p) + 1] = k /\ Agree(a, p)
  BY <1>1, <1>2, AppendIs
<1>4. PICK b \in Members(g) : b \in Seq(STRING) /\ Len(b) >= Len(q) /\ Agree(b, q)
  <2>1. CASE DOMAIN Given(g) = {}
    <3>1. q # <<>>
      BY <1>1, EmptySeq
    <3>2. q \in Members(g)
      BY <2>1, <3>1 DEF Members
    <3>3. Agree(q, q)
      BY DEF Agree
    <3> QED BY <1>1, <3>2, <3>3
  <2>2. CASE DOMAIN Given(g) # {}
    <3>1. PICK l \in DOMAIN Given(g) : l \in STRING
      BY <2>2 DEF Placeable
    <3>2. Append(q, l) \in Members(g)
      BY <2>2 DEF Members
    <3>3. Append(q, l) \in Seq(STRING) /\ Len(Append(q, l)) = Len(q) + 1 /\ Agree(Append(q, l), q)
      BY <1>1, <3>1, AppendIs
    <3>4. Len(Append(q, l)) >= Len(q)
      BY <1>1, <3>3
    <3> QED BY <3>2, <3>3, <3>4
  <2> QED BY <2>1, <2>2
<1>5. Apart(a, b)
  <2>1. ~Related(a, b)
    BY <1>2, <1>4 DEF Unrelated
  <2> HIDE DEF a
  <2> QED BY <1>3, <1>4, <2>1, UnrelatedPart
<1> HIDE DEF a, k, p, q
<1>6. PICK i \in 1..Len(a) : i \in 1..Len(b) /\ a[i] # b[i]
  BY <1>3, <1>4, <1>5 DEF Apart
<1>7. i \in 1..Len(q) /\ (i \in 1..Len(p) \/ i = Len(p) + 1)
  BY <1>1, <1>3, <1>6
<1>8. a[i] = q[i]
  BY <1>1, <1>3, <1>7 DEF k, Agree
<1>9. b[i] = q[i]
  BY <1>4, <1>7 DEF Agree
<1> QED BY <1>9, <1>6, <1>7, <1>8

LEMMA MembersBeside ==
  ASSUME NEW f, Placeable(f), NEW g, Placeable(g), Unrelated(f, g), ~Apart(Dir(f), Dir(g)),
         Len(Dir(f)) = Len(Dir(g))
  PROVE  DOMAIN Given(f) \cap DOMAIN Given(g) = {}
<1> DEFINE p == Dir(f)
           q == Dir(g)
<1>1. /\ p \in Seq(STRING) /\ q \in Seq(STRING) /\ Len(p) \in Nat /\ Len(q) = Len(p)
      /\ \A i \in 1..Len(p) : p[i] = q[i]
  BY DEF Placeable, Apart
<1> SUFFICES ASSUME NEW k \in DOMAIN Given(f), k \in DOMAIN Given(g) PROVE FALSE
  OBVIOUS
<1>2. k \in STRING /\ Append(p, k) \in Members(f) /\ Append(q, k) \in Members(g)
  BY DEF Placeable, Members
<1>3. ~Related(Append(p, k), Append(q, k))
  BY <1>2 DEF Unrelated
<1> HIDE DEF p, q
<1>4. /\ Append(p, k) \in Seq(STRING) /\ Len(Append(p, k)) = Len(p) + 1
      /\ Append(p, k)[Len(p) + 1] = k /\ Agree(Append(p, k), p)
  BY <1>1, <1>2, AppendIs
<1>5. /\ Append(q, k) \in Seq(STRING) /\ Len(Append(q, k)) = Len(p) + 1
      /\ Append(q, k)[Len(p) + 1] = k /\ Agree(Append(q, k), q)
  <2>1. /\ Append(q, k) \in Seq(STRING) /\ Len(Append(q, k)) = Len(q) + 1
        /\ Append(q, k)[Len(q) + 1] = k /\ Agree(Append(q, k), q)
    BY <1>1, <1>2, AppendIs
  <2> QED BY <1>1, <2>1
<1>6. Apart(Append(p, k), Append(q, k))
  BY <1>3, <1>4, <1>5, UnrelatedPart
<1>7. PICK i \in 1..(Len(p) + 1) : Append(p, k)[i] # Append(q, k)[i]
  BY <1>4, <1>5, <1>6 DEF Apart
<1>8. i \in 1..Len(p) \/ i = Len(p) + 1
  BY <1>1
<1> QED BY <1>1, <1>4, <1>5, <1>7, <1>8 DEF Agree

\* Files that give members none of which is another's, or in it, merge in either order.
LEMMA FilesCommute ==
  ASSUME NEW f, Placeable(f), NEW g, Placeable(g), Unrelated(f, g)
  PROVE  Commute(f, g)
<1> DEFINE p == Dir(f)
           q == Dir(g)
<1>1. p \in Seq(STRING) /\ q \in Seq(STRING) /\ Len(p) \in Nat /\ Len(q) \in Nat
  BY DEF Placeable
<1>2. Unrelated(g, f) /\ (Apart(p, q) <=> Apart(q, p))
  BY DEF Unrelated, Related, Apart
<1>3. Separate(p, Given(f), q, Given(g))
  <2>1. CASE Apart(p, q)
    BY <2>1 DEF Separate
  <2>2. CASE ~Apart(p, q) /\ Len(p) = Len(q)
    BY <2>2, MembersBeside DEF Separate
  <2>3. CASE ~Apart(p, q) /\ Len(p) < Len(q)
    BY <2>3, MembersBelow DEF Separate
  <2>4. CASE ~Apart(p, q) /\ Len(q) < Len(p)
    BY <1>2, <2>4, MembersBelow DEF Separate
  <2> QED BY <1>1, <2>1, <2>2, <2>3, <2>4
<1>4. Commutes(p, Given(f), q, Given(g))
  BY <1>1, <1>3, SeparateCommute
<1>5. \A doc : Place(doc, f) = PlaceAt(doc, p, Given(f)) /\ Place(doc, g) = PlaceAt(doc, q, Given(g))
  BY DEF Place, PlaceAt
<1> HIDE DEF p, q
<1>6. ASSUME NEW doc, Mergeable(doc) PROVE Place(Place(doc, f), g) = Place(Place(doc, g), f)
  <2>1. CASE doc = Failed
    BY <1>5, <2>1, FailedClosed
  <2>2. CASE IsTree(doc)
    <3>1. ~Closed(doc)
      BY <2>2 DEF Closed
    <3> QED BY <1>4, <1>5, <3>1 DEF Commutes
  <2> QED BY <1>6, <2>1, <2>2 DEF Mergeable
<1> QED BY <1>6 DEF Commute

-----------------------------------------------------------------------------
\* An archive and a directory of the same files

LEMMA ListIs ==
  ASSUME NEW S, NEW s, Lists(s, S)
  PROVE  /\ Range(s) = S /\ Len(s) \in Nat /\ DOMAIN s = 1..Len(s)
         /\ \A i, j \in 1..Len(s) : s[i] = s[j] => i = j
<1>1. s \in Seq(S) /\ (\A x \in S : \E i \in 1..Len(s) : s[i] = x) /\ \A i, j \in 1..Len(s) : s[i] = s[j] => i = j
  BY DEF Lists
<1>2. Len(s) \in Nat /\ DOMAIN s = 1..Len(s) /\ \A i \in 1..Len(s) : s[i] \in S
  BY <1>1
<1> QED BY <1>1, <1>2 DEF Range

\* The data files of a list, in its order
DataOf(files) == {f \in files : IsData(f)}

LEMMA DataLists == ASSUME NEW S, NEW s, Lists(s, S) PROVE Lists(DataFiles(s), DataOf(S))
<1>1. DataFiles(s) = Chosen(s, {f \in S : IsData(f)})
  BY ListIs DEF DataFiles
<1>2. Lists(Chosen(s, {f \in S : IsData(f)}), S \cap {f \in S : IsData(f)})
  BY ListIs, ChosenLists
<1>3. S \cap {f \in S : IsData(f)} = DataOf(S)
  BY DEF DataOf
<1> QED BY <1>1, <1>2, <1>3

\* Lists with the same data files, which do not meet, have the same document.
LEMMA SameDocument ==
  ASSUME NEW S, NEW s, Lists(s, S), NEW T, NEW t, Lists(t, T), DataOf(S) = DataOf(T),
         \A f \in DataOf(S) : Placeable(f), \A f, g \in DataOf(S) : f # g => Unrelated(f, g)
  PROVE  GetData(s) = GetData(t)
<1> DEFINE D == DataOf(S)
<1>1. Lists(DataFiles(s), D) /\ Lists(DataFiles(t), D)
  BY DataLists
<1>2. InDirectories(D)
  BY DEF InDirectories, Placeable
<1>3. \A f, g \in D : f # g => Commute(f, g)
  BY FilesCommute
<1> HIDE DEF D
<1> QED BY <1>1, <1>2, <1>3, MergedSame DEF GetData

LEMMA SamePolicies ==
  ASSUME NEW S, NEW s, Lists(s, S), NEW T, NEW t, Lists(t, T),
         {f \in S : IsRego(f)} = {f \in T : IsRego(f)}
  PROVE  GetPolicies(s) = GetPolicies(t)
<1> DEFINE Of(rego) == [p \in {f.path : f \in rego} |-> (CHOOSE f \in rego : f.path = p).content]
<1>1. Range(s) = S /\ Range(t) = T
  BY ListIs
<1>2. GetPolicies(s) = Of({f \in Range(s) : IsRego(f)}) /\ GetPolicies(t) = Of({f \in Range(t) : IsRego(f)})
  BY DEF GetPolicies
<1> HIDE DEF Of
<1>3. {f \in Range(s) : IsRego(f)} = {f \in Range(t) : IsRego(f)}
  BY <1>1
<1> QED BY <1>2, <1>3

\* A manifest and a file of signatures are neither policies nor data.
LEMMA NeitherKind ==
  ASSUME NEW f, f.path = <<".signatures.json">> \/ f.path = <<".manifest">>
  PROVE  ~IsRego(f) /\ ~IsData(f)
<1>1. Last(f.path) = ".signatures.json" \/ Last(f.path) = ".manifest"
  BY DEF Last
<1> QED BY <1>1, NamesAssumption DEF IsRego, IsData, DataNames

\* What a load of an archive keeps
Loadable(f) == ~Climbs(f.path) /\ f.path \notin {<<".manifest">>, <<".signatures.json">>}
Named(f) == File(Stripped(f.path), f.content)

LEMMA LoadedLists ==
  ASSUME NEW s, Len(s) \in Nat, DOMAIN s = 1..Len(s),
         \A i, j \in 1..Len(s) : Stripped(s[i].path) = Stripped(s[j].path) => i = j
  PROVE  Lists(LoadFromBytes(s).files, {f \in {Named(g) : g \in Range(s)} : Loadable(f)})
<1> DEFINE N == Len(s)
           named == [i \in DOMAIN s |-> Named(s[i])]
           Z == {Named(g) : g \in Range(s)}
<1>1. LoadFromBytes(s).files = Chosen(named, {f \in Range(named) : Loadable(f)})
  BY DEF LoadFromBytes, Bundle, Loadable, Named
<1>2. \A i \in 1..N : Named(s[i]).path = Stripped(s[i].path)
  BY DEF Named, File
<1>3. \A i, j \in 1..N : Named(s[i]) = Named(s[j]) => i = j
  BY <1>2
<1>4. N \in Nat /\ DOMAIN s = 1..N /\ Range(s) = {s[i] : i \in 1..N}
  BY DEF Range
<1> HIDE DEF N
<1>5. Len(named) = N /\ DOMAIN named = 1..N /\ \A i \in 1..N : named[i] = Named(s[i])
  <2>1. named = [i \in 1..N |-> Named(s[i])]
    BY <1>4
  <2> HIDE DEF named
  <2> QED BY <1>4, <2>1
<1> HIDE DEF named
<1>6. Range(named) = Z
  <2>1. Range(named) = {named[i] : i \in 1..N}
    BY <1>5 DEF Range
  <2>2. Z = {Named(s[i]) : i \in 1..N}
    BY <1>4
  <2> HIDE DEF Z
  <2> QED BY <1>5, <2>1, <2>2
<1> HIDE DEF Z
<1>7. \A i, j \in 1..Len(named) : named[i] = named[j] => i = j
  BY <1>3, <1>5
<1>8. Lists(Chosen(named, {f \in Range(named) : Loadable(f)}), Range(named) \cap {f \in Range(named) : Loadable(f)})
  BY <1>4, <1>5, <1>7, ChosenLists
<1>9. Range(named) \cap {f \in Range(named) : Loadable(f)} = {f \in Z : Loadable(f)}
  BY <1>6
<1> QED BY <1>1, <1>8, <1>9 DEF Z

\* What an archive of files whose names begin with no dot is loaded as
LEMMA ArchiveLists ==
  ASSUME NEW members \in Archives, \A f \in Range(members) : Stripped(f.path) = f.path
  PROVE  Lists(LoadFromBytes(members).files, {f \in Range(members) : Loadable(f)})
<1>1. /\ Len(members) \in Nat /\ DOMAIN members = 1..Len(members)
      /\ \A i, j \in 1..Len(members) : members[i].path = members[j].path => i = j
  BY FilesAssumption
<1>2. \A i \in 1..Len(members) : members[i] \in Range(members)
  BY <1>1 DEF Range
<1>3. \A f \in Range(members) : Named(f) = f
  <2>1. Range(members) \subseteq Files
    BY DEF Files
  <2> QED BY <2>1, FilesAssumption DEF Named
<1>4. \A i, j \in 1..Len(members) : Stripped(members[i].path) = Stripped(members[j].path) => i = j
  BY <1>1, <1>2
<1>5. {Named(g) : g \in Range(members)} = Range(members)
  BY <1>3
<1> QED BY <1>1, <1>4, <1>5, LoadedLists

LEMMA ArchiveIsList ==
  ASSUME NEW members \in Archives
  PROVE  /\ IsFiniteSet(Range(members)) /\ Range(members) \subseteq Files
         /\ \A f, g \in Range(members) : f.path = g.path => f = g
<1> DEFINE N == Len(members)
<1>1. /\ N \in Nat /\ DOMAIN members = 1..N
      /\ \A i, j \in 1..N : members[i].path = members[j].path => i = j
  BY FilesAssumption
<1> HIDE DEF N
<1>2. Range(members) = {members[i] : i \in 1..N}
  BY <1>1 DEF Range
<1>3. IsFiniteSet(Range(members))
  <2> DEFINE f == [i \in 1..N |-> members[i]]
  <2>1. f \in Surjection(1..N, Range(members))
    BY <1>2 DEF Surjection
  <2>2. IsFiniteSet(1..N)
    BY <1>1, FS_Interval
  <2> QED BY <2>1, <2>2, FS_Surjection
<1>4. Range(members) \subseteq Files
  BY DEF Files
<1> QED BY <1>1, <1>2, <1>3, <1>4

LEMMA DirectoryLists ==
  ASSUME NEW tree, IsFiniteSet(tree), tree \subseteq Files, \A f, g \in tree : f.path = g.path => f = g
  PROVE  Lists(LoadFromDir(tree).files, {f \in tree : ~Climbs(f.path) /\ f.path # <<".manifest">>})
<1> DEFINE plain == {f \in tree : ~Climbs(f.path) /\ f.path # <<".manifest">>}
<1>1. LoadFromDir(tree).files = Sorted(plain)
  BY DEF LoadFromDir, Bundle
<1>2. Orderly(plain)
  <2>1. IsFiniteSet(plain)
    BY FS_Subset
  <2>2. \A f \in plain : f.path \in PolicyPaths
    BY DEF PolicyPaths, FilePaths, PathsOf
  <2> QED BY <2>1, <2>2 DEF Orderly
<1> QED BY <1>1, <1>2, SortedLists

\* Loading a bundle from its archive and from its directory gives the same policies and data.
LEMMA LoadersGiveTheSame == LoadersAgree
<1> SUFFICES ASSUME NEW members \in Archives, DataApart(Range(members)),
                    \A f \in Range(members) : Stripped(f.path) = f.path
             PROVE  /\ GetPolicies(LoadFromBytes(members).files) = GetPolicies(LoadFromDir(Range(members)).files)
                    /\ GetData(LoadFromBytes(members).files) = GetData(LoadFromDir(Range(members)).files)
  BY DEF LoadersAgree
<1> DEFINE s == LoadFromBytes(members).files
           t == LoadFromDir(Range(members)).files
           S == {f \in Range(members) : Loadable(f)}
           T == {f \in Range(members) : ~Climbs(f.path) /\ f.path # <<".manifest">>}
<1>1. Lists(s, S)
  BY ArchiveLists
<1>2. Lists(t, T)
  BY ArchiveIsList, DirectoryLists
<1>3. DataOf(S) = DataOf(T) /\ {f \in S : IsRego(f)} = {f \in T : IsRego(f)}
  BY NeitherKind DEF DataOf, Loadable
<1>4. \A f \in DataOf(S) : f \in Range(members) /\ f \in Files /\ IsData(f)
  BY ArchiveIsList DEF DataOf
<1> HIDE DEF s, t, S, T
<1>5. \A f \in DataOf(S) : Placeable(f)
  <2> SUFFICES ASSUME NEW f \in DataOf(S) PROVE Placeable(f)
    OBVIOUS
  <2>1. f.path \in Seq(STRING) /\ f.path # <<>>
    BY <1>4, PathsAssumption DEF PathsOf, FilePaths
  <2>2. Dir(f) \in Seq(STRING)
    BY <2>1, FrontIs DEF Dir
  <2> QED BY <1>4, <2>2, FilesAssumption DEF Placeable
<1>6. \A f, g \in DataOf(S) : f # g => Unrelated(f, g)
  BY <1>4 DEF DataApart, Unrelated
<1>7. GetData(s) = GetData(t)
  BY <1>1, <1>2, <1>3, <1>5, <1>6, SameDocument
<1>8. GetPolicies(s) = GetPolicies(t)
  BY <1>1, <1>2, <1>3, SamePolicies
<1> QED BY <1>7, <1>8 DEF s, t

\* An engine that an archive was loaded into has what one has that its files were loaded into.
THEOREM LoadersAlwaysAgree == Spec => []LoadersAgree
  BY LoadersGiveTheSame, PTL DEF Spec

-----------------------------------------------------------------------------
\* What the engine holds

\* A document whose root is an object
Rooted(doc) == doc = Tree(KidsOf(doc)) /\ IsFunction(KidsOf(doc))
\* Texts by path, of paths that the order is about
Ordered(texts) == IsFunction(texts) /\ IsFiniteSet(DOMAIN texts) /\ DOMAIN texts \subseteq PolicyPaths

LEMMA TreeRooted == ASSUME NEW f, IsFunction(f) PROVE Rooted(Tree(f))
  BY TreeIs DEF Rooted

LEMMA EmptyRooted == Rooted(Empty) /\ Empty # Failed
<1>1. IsFunction(<<>>)
  BY DEF IsFunction
<1> QED BY <1>1, TreeRooted, TreeIs DEF Empty

LEMMA UpdatedIs == ASSUME NEW f, NEW g PROVE IsFunction(Updated(f, g)) /\ DOMAIN Updated(f, g) = DOMAIN f \cup DOMAIN g
  BY DEF IsFunction, Updated

LEMMA WithRooted == ASSUME NEW v, NEW s, NEW kid PROVE Rooted(With(v, s, kid))
<1>1. IsFunction([k \in DOMAIN KidsOf(v) \cup {s} |-> IF k = s THEN kid ELSE KidsOf(v)[k]])
  BY DEF IsFunction
<1> QED BY <1>1, TreeRooted DEF With

LEMMA WithoutRooted == ASSUME NEW v, NEW s PROVE Rooted(Without(v, s))
<1>1. IsFunction([k \in DOMAIN KidsOf(v) \ {s} |-> KidsOf(v)[k]])
  BY DEF IsFunction
<1> QED BY <1>1, TreeRooted DEF Without

LEMMA GrownRooted ==
  ASSUME NEW doc, NEW path \in Seq(STRING), NEW v, path # <<>> \/ Rooted(v)
  PROVE  Rooted(Grown(doc, path, v))
<1>1. CASE path = <<>>
  BY <1>1, GrownHere
<1>2. CASE path # <<>>
  BY <1>2, GrownShift, WithRooted
<1> QED BY <1>1, <1>2

LEMMA PutRooted ==
  ASSUME NEW doc, NEW path \in Seq(STRING), NEW v, IsFunction(KidsOf(v))
  PROVE  Rooted(Put(doc, path, v))
  BY GrownRooted, TreeRooted DEF Put

LEMMA CutRooted ==
  ASSUME NEW doc, Rooted(doc), NEW path \in Seq(STRING)
  PROVE  Rooted(Cut(doc, path))
<1>1. CASE path = <<>>
  BY <1>1, EmptyRooted DEF Cut
<1>2. CASE path # <<>>
  <2>1. Front(path) \in Seq(STRING)
    BY <1>2, FrontIs
  <2>2. Rooted(Grown(doc, Front(path), Without(Above(doc, path)[Len(path) - 1], Last(path))))
    BY <2>1, WithoutRooted, GrownRooted
  <2> QED BY <1>2, <2>2 DEF Cut
<1> QED BY <1>1, <1>2

LEMMA ChangedRooted ==
  ASSUME NEW doc, Rooted(doc), NEW e, e.path \in Seq(STRING), IsFunction(KidsOf(e.value))
  PROVE  Rooted(Changed(doc, e))
  BY PutRooted, CutRooted DEF Changed

\* What data files merge into
LEMMA PlaceRooted ==
  ASSUME NEW doc, NEW f, Dir(f) \in Seq(STRING)
  PROVE  Place(doc, f) = Failed \/ Rooted(Place(doc, f))
<1> DEFINE v == Tree(Updated(KidsOf(WalkTo(doc, Dir(f))), Given(f)))
<1>1. IsFunction(KidsOf(v))
  BY UpdatedIs, TreeIs
<1>2. Place(doc, f) = Failed \/ Place(doc, f) = Put(doc, Dir(f), v)
  BY DEF Place
<1> HIDE DEF v
<1> QED BY <1>1, <1>2, PutRooted

\* A list of a bundle's files, by the paths that a load gives them
FileList(s) == Len(s) \in Nat /\ DOMAIN s = 1..Len(s) /\ \A f \in Range(s) : f.path \in FilePaths

LEMMA DataRooted ==
  ASSUME NEW s, FileList(s)
  PROVE  GetData(s) = Failed \/ Rooted(GetData(s))
<1> DEFINE d == DataFiles(s)
           n == Len(d)
           D == {f \in Range(s) : IsData(f)}
<1>1. d \in Seq(D) /\ n \in Nat
  <2>1. d \in Seq(Range(s) \cap D)
    BY ChosenAmong DEF FileList, DataFiles
  <2>2. Range(s) \cap D = D
    OBVIOUS
  <2> HIDE DEF d, D
  <2> QED BY <2>1, <2>2
<1>2. \A f \in D : Dir(f) \in Seq(STRING)
  BY PathsAssumption, FrontIs DEF FileList, Dir
<1>3. Merged(d)[0] = Empty /\ \A i \in 1..n : Merged(d)[i] = Place(Merged(d)[i - 1], d[i])
  BY <1>1, MergedIs
<1>4. GetData(s) = Merged(d)[n]
  BY DEF GetData
<1> HIDE DEF d, n, D
<1>5. CASE n = 0
  BY <1>3, <1>4, <1>5, EmptyRooted
<1>6. CASE n # 0
  <2>1. n \in 1..n /\ d[n] \in D
    BY <1>1, <1>6 DEF n
  <2> QED BY <1>2, <1>3, <1>4, <2>1, PlaceRooted
<1> QED BY <1>5, <1>6

LEMMA RangeFinite ==
  ASSUME NEW s, Len(s) \in Nat, DOMAIN s = 1..Len(s)
  PROVE  IsFiniteSet(Range(s))
<1> DEFINE N == Len(s)
           f == [i \in 1..N |-> s[i]]
<1>1. Range(s) = {s[i] : i \in 1..N}
  BY DEF Range
<1>2. f \in Surjection(1..N, Range(s))
  BY <1>1 DEF Surjection
<1>3. IsFiniteSet(1..N)
  BY FS_Interval
<1> HIDE DEF f, N
<1> QED BY <1>2, <1>3, FS_Surjection

LEMMA PoliciesOrdered ==
  ASSUME NEW s, FileList(s)
  PROVE  Ordered(GetPolicies(s))
<1> DEFINE rego == {f \in Range(s) : IsRego(f)}
           paths == {f.path : f \in rego}
           g == [f \in rego |-> f.path]
<1>1. GetPolicies(s) = [p \in paths |-> (CHOOSE f \in rego : f.path = p).content]
  BY DEF GetPolicies
<1>2. IsFiniteSet(rego)
  BY RangeFinite, FS_Subset DEF FileList
<1>3. g \in Surjection(rego, paths)
  BY DEF Surjection
<1>4. IsFiniteSet(paths)
  <2> HIDE DEF g, rego, paths
  <2> QED BY <1>2, <1>3, FS_Surjection
<1>5. paths \subseteq PolicyPaths
  BY DEF PolicyPaths, FileList
<1> HIDE DEF rego, paths
<1> QED BY <1>1, <1>4, <1>5 DEF Ordered, IsFunction

LEMMA UpdatedOrdered ==
  ASSUME NEW f, Ordered(f), NEW g, Ordered(g)
  PROVE  Ordered(Updated(f, g))
<1>1. IsFiniteSet(DOMAIN f \cup DOMAIN g)
  BY FS_Union DEF Ordered
<1>2. IsFunction(Updated(f, g)) /\ DOMAIN Updated(f, g) = DOMAIN f \cup DOMAIN g
  BY UpdatedIs
<1> QED BY <1>1, <1>2 DEF Ordered

\* What a load makes of the files of an archive, of a directory and of a delta
LEMMA ArchiveFiles ==
  ASSUME NEW members \in Archives
  PROVE  FileList(LoadFromBytes(members).files)
<1> DEFINE N == Len(members)
           named == [i \in DOMAIN members |-> File(Stripped(members[i].path), members[i].content)]
           Plain(f) == ~Climbs(f.path) /\ f.path \notin {<<".manifest">>, <<".signatures.json">>}
           s == LoadFromBytes(members).files
<1>1. N \in Nat /\ DOMAIN members = 1..N
  BY FilesAssumption
<1>2. s = Chosen(named, {f \in Range(named) : Plain(f)})
  BY DEF LoadFromBytes, Bundle
<1>3. \A i \in 1..N : named[i].path = Stripped(members[i].path) /\ members[i] \in Range(members)
  BY <1>1 DEF File, Range
<1>4. \A i \in 1..N : named[i].path \in FilePaths
  <2>1. \A i \in 1..N : members[i].path \in PathsOf(UNION {Range(files) : files \in Archives})
    BY <1>3 DEF PathsOf
  <2> HIDE DEF named, N
  <2> QED BY <1>3, <2>1 DEF FilePaths
<1>5. named = [i \in 1..N |-> named[i]]
  BY <1>1
<1> HIDE DEF named, N
<1>6. Len(named) = N /\ DOMAIN named = 1..N
  BY <1>1, <1>5
<1>7. \A f \in Range(named) : f.path \in FilePaths
  BY <1>4, <1>6 DEF Range
<1>8. s \in Seq(Range(named) \cap {f \in Range(named) : Plain(f)})
  BY <1>1, <1>2, <1>6, ChosenAmong
<1> HIDE DEF s
<1>9. Len(s) \in Nat /\ DOMAIN s = 1..Len(s) /\ \A i \in 1..Len(s) : s[i] \in Range(named)
  BY <1>8
<1>10. FileList(s)
  BY <1>7, <1>9 DEF FileList, Range
<1> QED BY <1>10 DEF s

LEMMA DirectoryFiles ==
  ASSUME NEW tree \in Trees
  PROVE  FileList(LoadFromDir(tree).files)
<1> DEFINE T == {f \in tree : ~Climbs(f.path) /\ f.path # <<".manifest">>}
           s == LoadFromDir(tree).files
<1>1. /\ IsFiniteSet(tree) /\ tree \subseteq Files
      /\ \A f, g \in tree : f.path = g.path => f = g
  <2>1. tree \subseteq Files
    <3>1. tree \subseteq UNION Trees
      OBVIOUS
    <3>2. UNION Trees \subseteq Files
      BY DEF Files
    <3> QED BY <3>1, <3>2
  <2> QED BY <2>1, FilesAssumption
<1>2. Lists(s, T)
  BY <1>1, DirectoryLists
<1>3. Range(s) = T /\ Len(s) \in Nat /\ DOMAIN s = 1..Len(s)
  <2> HIDE DEF s, T
  <2> QED BY <1>2, ListIs
<1>4. \A f \in T : f.path \in FilePaths
  BY <1>1 DEF FilePaths, PathsOf
<1> HIDE DEF s, T
<1>5. FileList(s)
  BY <1>3, <1>4 DEF FileList
<1> QED BY <1>5 DEF s

LEMMA DeltaFiles == ASSUME NEW files \in Deltas PROVE FileList(files)
<1>1. Range(files) \subseteq Files
  BY DEF Files
<1>2. \A f \in Files : f.path \in FilePaths
  BY DEF FilePaths, PathsOf
<1> QED BY <1>1, <1>2, FilesAssumption DEF FileList

LEMMA CutOrdered ==
  ASSUME NEW texts, Ordered(texts), NEW p
  PROVE  Ordered([q \in DOMAIN texts \ {p} |-> texts[q]])
<1>1. IsFiniteSet(DOMAIN texts \ {p}) /\ DOMAIN texts \ {p} \subseteq PolicyPaths
  BY FS_Subset DEF Ordered
<1> QED BY <1>1 DEF Ordered, IsFunction

LEMMA OneOrdered ==
  ASSUME NEW p \in PolicyPaths, NEW text
  PROVE  Ordered([q \in {p} |-> text])
<1>1. IsFiniteSet({p}) /\ {p} \subseteq PolicyPaths
  BY FS_Singleton
<1> QED BY <1>1 DEF Ordered, IsFunction

LEMMA PatchPoliciesOrdered ==
  ASSUME NEW texts, Ordered(texts), NEW patch, patch.path \in PolicyPaths
  PROVE  Ordered(PatchPolicies(texts, patch))
<1>1. Ordered([q \in DOMAIN texts \ {patch.path} |-> texts[q]])
  BY CutOrdered
<1>2. Ordered(Updated(texts, [q \in {patch.path} |-> patch.value]))
  BY OneOrdered, UpdatedOrdered
<1> QED BY <1>1, <1>2 DEF PatchPolicies

\* The patches of a delta leave a document and policies.
LEMMA PatchedRooted ==
  ASSUME NEW doc, Rooted(doc), NEW texts, Ordered(texts), NEW files \in Deltas
  PROVE  /\ Rooted(Patched(doc, texts, PatchesOf(files))[Len(PatchesOf(files))].data)
         /\ Ordered(Patched(doc, texts, PatchesOf(files))[Len(PatchesOf(files))].policies)
<1> DEFINE patches == PatchesOf(files)
           N == Len(patches)
           D == Patched(doc, texts, patches)
           At(n) == Rooted(D[n].data) /\ Ordered(D[n].policies)
           S == {n \in 0..N : At(n)}
<1>1. /\ N \in Nat
      /\ \A i \in 1..N : patches[i].path \in Seq(STRING) /\ IsFunction(KidsOf(patches[i].value))
  BY DeltasAssumption
<1>2. \A i \in 1..N : patches[i].path \in PolicyPaths
  <2>1. DOMAIN patches = 1..N
    BY DeltasAssumption
  <2>2. \A i \in 1..N : patches[i].path \in PathsOf(Range(patches))
    BY <2>1 DEF PathsOf, Range
  <2> QED BY <2>2 DEF PolicyPaths
<1>3. At(0) /\ \A n \in 1..N : /\ D[n].data = PatchData(D[n - 1].data, patches[n])
                               /\ D[n].policies = PatchPolicies(D[n - 1].policies, patches[n])
  BY <1>1, PatchedOnce
<1> HIDE DEF patches, N, D
<1>4. ASSUME NEW m \in 0..(N - 1), At(m) PROVE At(m + 1)
  <2>1. m + 1 \in 1..N /\ (m + 1) - 1 = m
    BY <1>1
  <2>2. /\ D[m + 1].data = PatchData(D[m].data, patches[m + 1])
        /\ D[m + 1].policies = PatchPolicies(D[m].policies, patches[m + 1])
    BY <1>3, <2>1
  <2>3. Rooted(PatchData(D[m].data, patches[m + 1]))
    BY <1>1, <1>4, <2>1, ChangedRooted DEF PatchData
  <2>4. Ordered(PatchPolicies(D[m].policies, patches[m + 1]))
    BY <1>2, <1>4, <2>1, PatchPoliciesOrdered
  <2> QED BY <2>2, <2>3, <2>4
<1>5. \A n \in 0..N : n \in S
  <2>1. 0 \in S
    BY <1>1, <1>3
  <2>2. \A n \in 0..(N - 1) : n \in S => n + 1 \in S
    <3>1. \A n \in 0..(N - 1) : n \in 0..N /\ n + 1 \in 0..N
      BY <1>1
    <3> HIDE DEF At
    <3> QED BY <1>4, <3>1
  <2> HIDE DEF S
  <2> QED BY <1>1, <2>1, <2>2, UpTo
<1>6. At(N)
  <2> HIDE DEF At
  <2> QED BY <1>1, <1>5
<1> QED BY <1>6 DEF patches, N, D

\* The engine holds a document and policies.
Held == Rooted(data) /\ Ordered(modules)

LEMMA LoadHolds ==
  ASSUME Held, NEW bundle, FileList(bundle.files), LoadBundle(bundle)
  PROVE  Held'
<1> DEFINE texts == Updated(modules, GetPolicies(bundle.files))
           merged == GetData(bundle.files)
<1>1. Ordered(texts)
  BY PoliciesOrdered, UpdatedOrdered DEF Held
<1>2. modules' = texts
  BY DEF LoadBundle, Rebuild
<1>3. data' = data \/ (merged # Failed /\ data' = merged)
  BY DEF LoadBundle
<1>4. merged = Failed \/ Rooted(merged)
  BY DataRooted
<1> HIDE DEF texts, merged
<1> QED BY <1>1, <1>2, <1>3, <1>4 DEF Held

LEMMA DeltaHolds ==
  ASSUME Held, NEW files \in Deltas, ApplyDeltaBundle(files)
  PROVE  Held'
<1> DEFINE patched == Patched(data, modules, PatchesOf(files))[Len(PatchesOf(files))]
           merged == GetData(files)
           result == ApplyDelta(files, data, modules)
<1>1. Rooted(patched.data) /\ Ordered(patched.policies)
  BY PatchedRooted DEF Held
<1>2. /\ merged = Failed \/ Rooted(merged)
      /\ Ordered(GetPolicies(files))
  BY DeltaFiles, DataRooted, PoliciesOrdered
<1>3. /\ result.failed = (merged = Failed)
      /\ result.data = IF merged = Failed \/ KidsOf(merged) = <<>> THEN patched.data ELSE merged
      /\ result.policies = IF merged = Failed THEN modules ELSE Updated(patched.policies, GetPolicies(files))
  BY DEF ApplyDelta
<1>4. /\ data' = result.data
      /\ modules' = modules \/ modules' = Updated(modules, result.policies)
  BY DEF ApplyDeltaBundle, Rebuild
<1> HIDE DEF patched, merged, result
<1>5. Rooted(result.data)
  BY <1>1, <1>2, <1>3
<1>6. Ordered(result.policies)
  BY <1>1, <1>2, <1>3, UpdatedOrdered DEF Held
<1>7. Ordered(modules')
  BY <1>4, <1>6, UpdatedOrdered DEF Held
<1> QED BY <1>4, <1>5, <1>7 DEF Held

LEMMA InitHeld == Init => Held
<1>1. Ordered(<<>>)
  <2>1. DOMAIN <<>> = {} /\ IsFunction(<<>>)
    BY DEF IsFunction
  <2> QED BY <2>1, FS_EmptySet DEF Ordered
<1> QED BY <1>1, EmptyRooted DEF Init, Held

LEMMA NextHeld == Held /\ [Next]_vars => Held'
<1> SUFFICES ASSUME Held, [Next]_vars PROVE Held'
  OBVIOUS
<1>1. CASE UNCHANGED engineVars
  BY <1>1 DEF engineVars, Held
<1>2. ASSUME NEW id \in Ids, RemovePolicy(id) PROVE Held'
  <2>1. Ordered([q \in DOMAIN modules \ {id} |-> modules[q]])
    BY CutOrdered DEF Held
  <2> QED BY <1>2, <2>1 DEF RemovePolicy, Rebuild, Held
<1>3. ASSUME NEW id \in Ids, NEW text \in Texts, LoadPolicies([p \in {id} |-> text]) PROVE Held'
  <2>1. id \in PolicyPaths
    BY DEF PolicyPaths
  <2>2. Ordered(Updated(modules, [p \in {id} |-> text]))
    BY <2>1, OneOrdered, UpdatedOrdered DEF Held
  <2> QED BY <1>3, <2>2 DEF LoadPolicies, Rebuild, Held
<1>4. ASSUME NEW e \in DataChanges, LoadData(e) PROVE Held'
  <2>1. Rooted(Changed(data, e))
    BY DeltasAssumption, ChangedRooted DEF Held
  <2> QED BY <1>4, <2>1 DEF LoadData, Held
<1>5. ASSUME NEW members \in Archives, LoadBundleFromFile(members) PROVE Held'
  BY <1>5, ArchiveFiles, LoadHolds DEF LoadBundleFromFile
<1>6. ASSUME NEW tree \in Trees, LoadBundleFromDir(tree) PROVE Held'
  BY <1>6, DirectoryFiles, LoadHolds DEF LoadBundleFromDir
<1>7. ASSUME NEW files \in Deltas, ApplyDeltaBundle(files) PROVE Held'
  BY <1>7, DeltaHolds
<1>8. CASE EngineNext
  BY <1>2, <1>3, <1>4, <1>5, <1>6, <1>7, <1>8 DEF EngineNext
<1> QED BY <1>1, <1>8 DEF Next, vars

-----------------------------------------------------------------------------
\* What build_bundle packs

\* A path of one segment
LEMMA OneSegment ==
  ASSUME NEW name
  PROVE  /\ Len(<<name>>) = 1 /\ <<name>>[1] = name /\ <<name>> # <<>> /\ <<name>> \in Seq({name})
         /\ SubSeq(<<name>>, 1, 1) = <<name>> /\ Tail(<<name>>) = <<>> /\ <<name>> \o <<>> = <<name>>
<1>1. Len(<<name>>) = 1 /\ <<name>>[1] = name /\ <<name>> # <<>> /\ <<name>> \in Seq({name})
  OBVIOUS
<1>2. SubSeq(<<name>>, 1, Len(<<name>>)) = <<name>>
  BY <1>1, SubSeqFull
<1>3. Tail(<<name>>) = <<>>
  <2>1. Tail(<<name>>) \in Seq({name}) /\ Len(Tail(<<name>>)) = 0
    BY <1>1, HeadTailProperties
  <2> QED BY <2>1, EmptySeq
<1>4. <<name>> \o <<>> = <<name>>
  OBVIOUS
<1>5. SubSeq(<<name>>, 1, 1) = <<name>>
  BY <1>1, <1>2
<1> QED BY <1>1, <1>3, <1>4, <1>5

\* The segments of a path that are dots only, before any other
NoText == ""
Dots(path) == {i \in 1..Len(path) : \A j \in 1..i : Undotted(path[j]) = NoText}

LEMMA StrippedIs ==
  ASSUME NEW path
  PROVE  Stripped(path) = LET rest == SubSeq(path, Cardinality(Dots(path)) + 1, Len(path))
                          IN IF rest = <<>> THEN rest ELSE <<Undotted(rest[1])>> \o Tail(rest)
  BY Zenon DEF Stripped, Dots, NoText

\* A path of one name, without the dots the name begins with
LEMMA StrippedOne ==
  ASSUME NEW path, NEW bare, Len(path) = 1, path # <<>>, Tail(path) = <<>>, SubSeq(path, 1, 1) = path,
         Undotted(path[1]) = bare, bare # NoText
  PROVE  Stripped(path) = <<bare>>
<1> DEFINE rest == SubSeq(path, Cardinality(Dots(path)) + 1, Len(path))
<1>1. Dots(path) = {}
  BY DEF Dots
<1>2. Cardinality(Dots(path)) = 0
  BY <1>1, FS_EmptySet
<1>3. Stripped(path) = IF rest = <<>> THEN rest ELSE <<Undotted(rest[1])>> \o Tail(rest)
  BY StrippedIs
<1>4. rest = path
  BY <1>2
<1> HIDE DEF rest
<1>5. Stripped(path) = <<bare>> \o <<>>
  BY <1>3, <1>4
<1>6. <<bare>> \o <<>> = <<bare>>
  BY OneSegment
<1> QED BY <1>5, <1>6

LEMMA StrippedName ==
  ASSUME NEW name, NEW bare, Undotted(name) = bare, bare # NoText
  PROVE  Stripped(<<name>>) = <<bare>>
<1> DEFINE path == <<name>>
<1>1. /\ Len(path) = 1 /\ path # <<>> /\ Tail(path) = <<>> /\ SubSeq(path, 1, 1) = path
      /\ path[1] = name
  BY OneSegment
<1> HIDE DEF path
<1>2. Undotted(path[1]) = bare
  BY <1>1
<1>3. Stripped(path) = <<bare>>
  BY <1>1, <1>2, StrippedOne
<1> QED BY <1>3 DEF path

\* The files that build_bundle packs: how they come back from the archive
LEMMA NamesIs ==
  /\ Stripped(<<".manifest">>) = <<"manifest">> /\ Stripped(<<"data.json">>) = <<"data.json">>
  /\ "manifest" \notin RegoNames /\ "data.json" \notin RegoNames /\ ".manifest" \notin RegoNames
  /\ ".signatures.json" \notin RegoNames /\ DataNames \cap RegoNames = {}
<1>1. "manifest" # NoText /\ "data.json" # NoText
  BY Zenon DEF NoText
<1> QED BY <1>1, StrippedName, NamesAssumption DEF DataNames

Clean(p) == Stripped(p) = p /\ ~Climbs(p) /\ Last(p) \in RegoNames
PolicyFiles == {File(p, modules[p]) : p \in DOMAIN modules}
ManifestFile == File(<<"manifest">>, DefaultManifest)
DocumentFile == File(<<"data.json">>, data)
Document == IF KidsOf(data) = <<>> THEN {} ELSE {DocumentFile}

LEMMA PolicyFilesIs ==
  ASSUME Held, \A p \in DOMAIN modules : Clean(p)
  PROVE  /\ Orderly(PolicyFiles)
         /\ \A f \in PolicyFiles : f.path \in DOMAIN modules /\ f.content = modules[f.path] /\ Clean(f.path)
<1>1. \A p : File(p, modules[p]).path = p /\ File(p, modules[p]).content = modules[p]
  BY DEF File
<1>2. \A f \in PolicyFiles : f.path \in DOMAIN modules /\ f = File(f.path, modules[f.path])
  BY <1>1 DEF PolicyFiles
<1>3. IsFiniteSet(PolicyFiles)
  <2> DEFINE g == [p \in DOMAIN modules |-> File(p, modules[p])]
  <2>1. g \in Surjection(DOMAIN modules, PolicyFiles)
    BY DEF Surjection, PolicyFiles
  <2>2. IsFiniteSet(DOMAIN modules)
    BY DEF Held, Ordered
  <2> HIDE DEF g
  <2> QED BY <2>1, <2>2, FS_Surjection
<1>4. \A f \in PolicyFiles : f.path \in PolicyPaths
  BY <1>2 DEF Held, Ordered
<1>5. \A f, g \in PolicyFiles : f.path = g.path => f = g
  BY <1>2
<1>6. \A f \in PolicyFiles : f.content = modules[f.path] /\ Clean(f.path)
  BY <1>1, <1>2
<1> QED BY <1>2, <1>3, <1>4, <1>5, <1>6 DEF Orderly

\* What build_bundle packs
Manifest == File(<<".manifest">>, DefaultManifest)
Packed == {Manifest} \cup PolicyFiles \cup Document

LEMMA PackedLast ==
  ASSUME Held, \A p \in DOMAIN modules : Clean(p)
  PROVE  /\ Manifest.path = <<".manifest">> /\ ManifestFile.path = <<"manifest">>
         /\ DocumentFile.path = <<"data.json">> /\ DocumentFile.content = data
         /\ Last(<<".manifest">>) = ".manifest" /\ Last(<<"manifest">>) = "manifest"
         /\ Last(<<"data.json">>) = "data.json"
         /\ \A f \in PolicyFiles : Last(f.path) \in RegoNames /\ Stripped(f.path) = f.path
<1>1. /\ Manifest.path = <<".manifest">> /\ ManifestFile.path = <<"manifest">>
      /\ DocumentFile.path = <<"data.json">> /\ DocumentFile.content = data
  BY DEF File, Manifest, ManifestFile, DocumentFile
<1>2. /\ Last(<<".manifest">>) = ".manifest" /\ Last(<<"manifest">>) = "manifest"
      /\ Last(<<"data.json">>) = "data.json"
  BY DEF Last
<1>3. \A f \in PolicyFiles : Last(f.path) \in RegoNames /\ Stripped(f.path) = f.path
  BY PolicyFilesIs DEF Clean
<1> QED BY <1>1, <1>2, <1>3

LEMMA BuildLists ==
  ASSUME Held, \A p \in DOMAIN modules : Clean(p)
  PROVE  Lists(Build(modules, data, DefaultManifest), Packed)
<1> DEFINE tail == IF KidsOf(data) = <<>> THEN <<>> ELSE <<DocumentFile>>
<1>1. Build(modules, data, DefaultManifest) = (<<Manifest>> \o Sorted(PolicyFiles)) \o tail
  BY DEF Build, Manifest, PolicyFiles, DocumentFile
<1>2. Lists(<<Manifest>>, {Manifest})
  BY OneLists
<1>3. Lists(Sorted(PolicyFiles), PolicyFiles)
  BY PolicyFilesIs, SortedLists
<1>4. Lists(tail, Document)
  BY OneLists, NoneLists DEF Document
<1>5. {Manifest} \cap PolicyFiles = {} /\ ({Manifest} \cup PolicyFiles) \cap Document = {}
  <2>1. Manifest \notin PolicyFiles /\ DocumentFile \notin PolicyFiles
    BY PackedLast, NamesIs
  <2>2. Manifest # DocumentFile
    BY PackedLast
  <2>3. Document \subseteq {DocumentFile}
    BY DEF Document
  <2> QED BY <2>1, <2>2, <2>3
<1> HIDE DEF tail
<1>6. Lists(<<Manifest>> \o Sorted(PolicyFiles), {Manifest} \cup PolicyFiles)
  BY <1>2, <1>3, <1>5, BothList
<1> QED BY <1>1, <1>4, <1>5, <1>6, BothList DEF Packed

\* What of it a load gives back
Unpacked == {ManifestFile} \cup PolicyFiles \cup Document

LEMMA PackedApart ==
  ASSUME Held, \A p \in DOMAIN modules : Clean(p),
         NEW f \in Packed, NEW g \in Packed, Stripped(f.path) = Stripped(g.path)
  PROVE  f = g
<1>1. \A h \in Packed : h = Manifest \/ h = DocumentFile \/ h \in PolicyFiles
  BY DEF Packed, Document
<1>2. /\ Stripped(Manifest.path) = <<"manifest">> /\ Stripped(DocumentFile.path) = <<"data.json">>
      /\ \A h \in PolicyFiles : Stripped(h.path) = h.path
  BY PackedLast, NamesIs
<1>3. <<"manifest">> # <<"data.json">> /\ \A h \in PolicyFiles : h.path # <<"manifest">> /\ h.path # <<"data.json">>
  BY PackedLast, NamesIs
<1>4. \A h, k \in PolicyFiles : h.path = k.path => h = k
  BY PolicyFilesIs DEF Orderly
<1> QED BY <1>1, <1>2, <1>3, <1>4

LEMMA UnpackedIs ==
  ASSUME Held, \A p \in DOMAIN modules : Clean(p)
  PROVE  {f \in {Named(g) : g \in Packed} : Loadable(f)} = Unpacked
<1>1. Named(Manifest) = ManifestFile
  BY PackedLast, NamesIs DEF Named, Manifest, ManifestFile, File
<1>2. Named(DocumentFile) = DocumentFile
  BY PackedLast, NamesIs DEF Named, DocumentFile, File
<1>3. \A f \in PolicyFiles : Named(f) = f
  BY PackedLast DEF Named, PolicyFiles, File
<1>4. {Named(g) : g \in Packed} = Unpacked
  BY <1>1, <1>2, <1>3 DEF Packed, Unpacked, Document
<1>5. Loadable(ManifestFile) /\ Loadable(DocumentFile)
  <2>1. \A name : name \notin TwoDotted => ~Climbs(<<name>>)
    BY DEF Climbs, Range
  <2>2. "manifest" \notin TwoDotted /\ "data.json" \notin TwoDotted
    BY NamesAssumption
  <2> QED BY <2>1, <2>2, PackedLast DEF Loadable
<1>6. \A f \in PolicyFiles : Loadable(f)
  <2>1. Last(<<".signatures.json">>) = ".signatures.json"
    BY DEF Last
  <2> QED BY <2>1, PackedLast, PolicyFilesIs, NamesIs DEF Loadable, Clean
<1>7. \A f \in Unpacked : Loadable(f)
  BY <1>5, <1>6 DEF Unpacked, Document
<1> QED BY <1>4, <1>7

\* What build_bundle has packed comes back from a load.
LEMMA BuildLoads ==
  ASSUME Held, \A p \in DOMAIN modules : Clean(p)
  PROVE  Lists(LoadFromBytes(Build(modules, data, DefaultManifest)).files, Unpacked)
<1> DEFINE s == Build(modules, data, DefaultManifest)
<1>1. Lists(s, Packed)
  BY BuildLists
<1> HIDE DEF s
<1>2. /\ Range(s) = Packed /\ Len(s) \in Nat /\ DOMAIN s = 1..Len(s)
      /\ \A i, j \in 1..Len(s) : s[i] = s[j] => i = j
  BY <1>1, ListIs
<1>3. \A i \in 1..Len(s) : s[i] \in Packed
  BY <1>2 DEF Range
<1>4. \A i, j \in 1..Len(s) : Stripped(s[i].path) = Stripped(s[j].path) => i = j
  BY <1>2, <1>3, PackedApart
<1>5. Lists(LoadFromBytes(s).files, {f \in {Named(g) : g \in Range(s)} : Loadable(f)})
  BY <1>2, <1>4, LoadedLists
<1>6. {f \in {Named(g) : g \in Range(s)} : Loadable(f)} = Unpacked
  BY <1>2, UnpackedIs
<1> QED BY <1>5, <1>6 DEF s

LEMMA UnpackedPolicies ==
  ASSUME Held, \A p \in DOMAIN modules : Clean(p), NEW s, Lists(s, Unpacked)
  PROVE  GetPolicies(s) = modules
<1> DEFINE rego == {f \in Range(s) : IsRego(f)}
<1>1. rego = PolicyFiles
  <2>1. Range(s) = Unpacked
    BY ListIs
  <2>2. ~IsRego(ManifestFile) /\ ~IsRego(DocumentFile) /\ \A f \in PolicyFiles : IsRego(f)
    BY PackedLast, NamesIs DEF IsRego
  <2> QED BY <2>1, <2>2 DEF Unpacked, Document
<1>2. \A p : File(p, modules[p]).path = p
  BY DEF File
<1>3. {f.path : f \in PolicyFiles} = DOMAIN modules
  BY <1>2 DEF PolicyFiles
<1>4. \A p \in DOMAIN modules : \E f \in PolicyFiles : f.path = p
  BY <1>2 DEF PolicyFiles
<1>5. \A f \in PolicyFiles : f.content = modules[f.path]
  BY PolicyFilesIs
<1>6. \A p \in DOMAIN modules : (CHOOSE f \in PolicyFiles : f.path = p).content = modules[p]
  BY <1>4, <1>5
<1>7. GetPolicies(s) = [p \in {f.path : f \in rego} |-> (CHOOSE f \in rego : f.path = p).content]
  BY DEF GetPolicies
<1> HIDE DEF rego
<1>8. GetPolicies(s) = [p \in DOMAIN modules |-> (CHOOSE f \in PolicyFiles : f.path = p).content]
  BY <1>1, <1>3, <1>7
<1>9. modules = [p \in DOMAIN modules |-> modules[p]]
  BY DEF Held, Ordered, IsFunction
<1> QED BY <1>6, <1>8, <1>9

LEMMA OneFront == ASSUME NEW name PROVE Front(<<name>>) = <<>>
<1> DEFINE path == <<name>>
<1>1. path \in Seq({name}) /\ Len(path) = 1
  BY OneSegment
<1> HIDE DEF path
<1>2. SubSeq(path, 1, 0) \in Seq({name}) /\ Len(SubSeq(path, 1, 0)) = 0
  BY <1>1, SubSeqProperties
<1>3. SubSeq(path, 1, 0) = <<>>
  BY <1>2, EmptySeq
<1>4. Front(path) = SubSeq(path, 1, 0)
  BY <1>1 DEF Front
<1> QED BY <1>3, <1>4 DEF path

LEMMA UnpackedData ==
  ASSUME Held, \A p \in DOMAIN modules : Clean(p), NEW s, Lists(s, Unpacked)
  PROVE  GetData(s) = data
<1> DEFINE d == DataFiles(s)
           n == Len(d)
<1>1. Lists(d, Document)
  <2>1. ~IsData(ManifestFile) /\ IsData(DocumentFile)
    BY PackedLast DEF IsData, DataNames
  <2>2. \A f \in PolicyFiles : ~IsData(f)
    BY PackedLast, NamesIs DEF IsData
  <2>3. DataOf(Unpacked) = Document
    BY <2>1, <2>2 DEF DataOf, Unpacked, Document
  <2> QED BY <2>3, DataLists
<1>2. /\ Range(d) = Document /\ n \in Nat /\ DOMAIN d = 1..n /\ \A i, j \in 1..n : d[i] = d[j] => i = j
  BY <1>1, ListIs
<1>3. d \in Seq(Document) /\ \A x \in Document : \E i \in 1..n : d[i] = x
  BY <1>1 DEF Lists
<1>4. /\ GetData(s) = Merged(d)[n] /\ Merged(d)[0] = Empty
      /\ \A i \in 1..n : Merged(d)[i] = Place(Merged(d)[i - 1], d[i])
  <2>1. GetData(s) = Merged(d)[n]
    BY DEF GetData
  <2> HIDE DEF d
  <2> QED BY <1>2, <2>1, MergedIs
<1>5. data = Tree(KidsOf(data)) /\ IsFunction(KidsOf(data))
  BY DEF Held, Rooted
<1> HIDE DEF d, n
<1>6. CASE KidsOf(data) = <<>>
  <2>1. Document = {}
    BY <1>6 DEF Document
  <2>2. n = 0
    <3>1. \A i \in 1..n : d[i] \in Document
      BY <1>3 DEF n
    <3>2. n = 0 \/ 1 \in 1..n
      BY <1>2
    <3> QED BY <2>1, <3>1, <3>2
  <2> QED BY <1>4, <1>5, <1>6, <2>2 DEF Empty
<1>7. CASE KidsOf(data) # <<>>
  <2>1. Document = {DocumentFile}
    BY <1>7 DEF Document
  <2>2. n = 1 /\ d[1] = DocumentFile
    <3>1. \A i \in 1..n : d[i] = DocumentFile
      BY <1>3, <2>1 DEF n
    <3>2. n # 0
      BY <1>3, <2>1
    <3>3. \A i, j \in 1..n : d[i] = d[j] => i = j
      BY <1>2
    <3>4. n = 1
      <4>1. 1 \in 1..n /\ n \in 1..n
        BY <1>2, <3>2
      <4>2. d[1] = d[n]
        BY <3>1, <4>1
      <4> QED BY <3>3, <4>1, <4>2
    <3> QED BY <3>1, <3>4
  <2>3. GetData(s) = Place(Empty, DocumentFile)
    <3>1. 1 \in 1..1 /\ 1 - 1 = 0
      OBVIOUS
    <3> QED BY <1>4, <2>2, <3>1
  <2>4. Dir(DocumentFile) = <<>>
    BY OneFront, PackedLast DEF Dir
  <2>5. Given(DocumentFile) = KidsOf(data)
    BY <1>5, PackedLast, TreeIs DEF Given, KidsOf
  <2>6. Place(Empty, DocumentFile) = PlaceAt(Empty, <<>>, KidsOf(data))
    BY <2>4, <2>5 DEF Place, PlaceAt
  <2>7. PlaceAt(Empty, <<>>, KidsOf(data)) = Tree(Updated(KidsOf(Empty), KidsOf(data)))
    BY EmptyRooted, PlaceHere
  <2>8. Updated(KidsOf(Empty), KidsOf(data)) = KidsOf(data)
    <3>1. DOMAIN KidsOf(Empty) = {}
      BY TreeIs DEF Empty
    <3> QED BY <1>5, <3>1 DEF Updated, IsFunction
  <2> QED BY <1>5, <2>3, <2>6, <2>7, <2>8
<1> QED BY <1>6, <1>7

LEMMA HeldRoundTrip == Held => BuildRoundTrip
<1> SUFFICES ASSUME Held, \A p \in DOMAIN modules : Clean(p)
             PROVE  /\ GetPolicies(LoadFromBytes(Build(modules, data, DefaultManifest)).files) = modules
                    /\ GetData(LoadFromBytes(Build(modules, data, DefaultManifest)).files) = data
  BY DEF BuildRoundTrip, Clean
<1> QED BY BuildLoads, UnpackedPolicies, UnpackedData

\* What build_bundle packs is what a load gives back, whatever the engine has been told
\* before.
THEOREM BuildAlwaysRoundTrips == Spec => []BuildRoundTrip
<1>1. Init => Held
  BY InitHeld
<1>2. Held /\ [Next]_vars => Held'
  BY NextHeld
<1>3. Held => BuildRoundTrip
  BY HeldRoundTrip
<1> QED BY <1>1, <1>2, <1>3, PTL DEF Spec
=============================================================================
