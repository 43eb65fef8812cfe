-------------------------- MODULE PolicyServerProofs --------------------------
(* The safety properties of PolicyServer, for every value of its constants.    *)
EXTENDS PolicyServer, TLAPS

-----------------------------------------------------------------------------
(* Lemmas: what the data routes leave alone, and the operators on policy sets *)

\* No step of the data routes writes a policy, the evaluator or a bundle.
LEMMA DataStepsWriteData == DataStep => UNCHANGED <<policies, evaluator, bundles, last>>
<1>1. \A r, v : PutData(r, v) => UNCHANGED <<policies, evaluator, bundles, last>>
  BY DEF PutData, WriteFails
<1>2. \A d : PutDocument(d) => UNCHANGED <<policies, evaluator, bundles, last>>
  BY DEF PutDocument, WriteFails
<1>3. \A c, r : PutDataIfNoneMatch(c, r) => UNCHANGED <<policies, evaluator, bundles, last>>
  BY DEF PutDataIfNoneMatch
<1>4. \A c, v : PutDataBody(c, v) => UNCHANGED <<policies, evaluator, bundles, last>>
  BY DEF PutDataBody, WriteFails
<1>5. \A r, op, x : PatchData(r, op, x) => UNCHANGED <<policies, evaluator, bundles, last>>
  BY DEF PatchData, WriteFails
<1>6. \A rs : DeleteData(rs) => UNCHANGED <<policies, evaluator, bundles, last>>
  BY DEF DeleteData, WriteFails
<1>7. \A op, c : RejectData(op) \/ RejectDataBody(c) => UNCHANGED <<policies, evaluator, bundles, last>>
  BY DEF RejectData, RejectDataBody
<1> QED BY <1>1, <1>2, <1>3, <1>4, <1>5, <1>6, <1>7 DEF DataStep

\* A rebuild compiles a policy set into a policy set of the same ids.
LEMMA CompiledType ==
  ASSUME NEW ps \in PolicySets
  PROVE  Compiled(ps) \in PolicySets
  BY ParsableAssumption DEF Compiled, PolicySets

\* Upserting a bundle's files leaves a policy set ...
LEMMA WithBundleType ==
  ASSUME NEW ps \in PolicySets, NEW n \in BundleNames, NEW b \in Archives
  PROVE  WithBundle(ps, n, b) \in PolicySets
<1>1. b.policies \in [Paths -> Sources \cup {NoPolicy}]
  BY ArchiveAssumption DEF Archive
<1>2. ASSUME NEW i \in Ids, \E p \in PathsOf(b) : i = BundleId(n, p)
      PROVE  b.policies[CHOOSE p \in PathsOf(b) : i = BundleId(n, p)]
               \in Sources \cup {NoPolicy}
  BY <1>1, <1>2 DEF PathsOf
<1>3. QED
  BY <1>2 DEF WithBundle, IdsOf, PolicySets

\* ... and so does removing them.
LEMMA WithoutPathsType ==
  ASSUME NEW ps \in PolicySets, NEW n, NEW paths
  PROVE  WithoutPaths(ps, n, paths) \in PolicySets
  BY DEF WithoutPaths, PolicySets

-----------------------------------------------------------------------------
(* Type correctness *)

\* Every handler keeps the engine's state well formed.
THEOREM TypeCorrect == Spec => []TypeOK
<1>1. Init => TypeOK
  BY DEF Init, TypeOK, PolicySets, Documents, EmptyDocument, Suspended, NoReply
<1>2. TypeOK /\ [Next]_vars => TypeOK'
  <2> SUFFICES ASSUME TypeOK, [Next]_vars
               PROVE  TypeOK'
    OBVIOUS
  <2>0. backend' = backend
    BY DEF Next, vars
  <2> USE <2>0 DEF TypeOK, Reply, Handlers, NoReply
  <2>1. ASSUME NEW i \in DirectIds, NEW s \in Sources, PutPolicy(i, s)
        PROVE  TypeOK'
    <3>1. policies' \in PolicySets
      BY <2>1 DEF PutPolicy, PolicySets, Ids
    <3>2. evaluator' \in PolicySets
      BY <2>1, <3>1, CompiledType DEF PutPolicy, RebuildEvaluator
    <3>3. last' \in [Ids -> BundleNames \cup {Direct, Nobody}]
      BY <2>1 DEF PutPolicy
    <3>4. QED
      BY <2>1, <3>1, <3>2, <3>3 DEF PutPolicy
  <2>2. ASSUME NEW s \in Sources, RejectPolicy(s)
        PROVE  TypeOK'
    BY <2>2 DEF RejectPolicy
  <2>3. ASSUME NEW i \in DirectIds, DeletePolicy(i)
        PROVE  TypeOK'
    <3>1. CASE policies[i] # NoPolicy
      <4>1. policies' \in PolicySets
        BY <2>3, <3>1 DEF DeletePolicy, PolicySets, Ids
      <4>2. evaluator' \in PolicySets
        BY <2>3, <3>1, <4>1, CompiledType DEF DeletePolicy, RebuildEvaluator
      <4>3. last' \in [Ids -> BundleNames \cup {Direct, Nobody}]
        BY <2>3, <3>1 DEF DeletePolicy
      <4>4. QED
        BY <2>3, <3>1, <4>1, <4>2, <4>3 DEF DeletePolicy
    <3>2. CASE policies[i] = NoPolicy
      BY <2>3, <3>2 DEF DeletePolicy
    <3>3. QED
      BY <3>1, <3>2
  <2>4. ASSUME NEW r \in Roots, NEW v \in Values, PutData(r, v)
        PROVE  TypeOK'
    BY <2>4 DEF PutData, WriteFails, WriteRoot, Documents
  <2>5. ASSUME NEW d \in Documents, PutDocument(d)
        PROVE  TypeOK'
    BY <2>5 DEF PutDocument, WriteFails, ReplaceDocument
  <2>6. ASSUME NEW c \in Clients, NEW r \in Roots, PutDataIfNoneMatch(c, r)
        PROVE  TypeOK'
    BY <2>6 DEF PutDataIfNoneMatch, Suspended
  <2>7. ASSUME NEW c \in Clients, NEW v \in Values, PutDataBody(c, v)
        PROVE  TypeOK'
    <3>1. req' \in [Clients -> Suspended]
      BY <2>7 DEF PutDataBody, Suspended
    <3>2. data' \in Documents
      BY <2>7 DEF PutDataBody, WriteFails, WriteRoot, Documents, Suspended
    <3>3. QED
      BY <2>7, <3>1, <3>2 DEF PutDataBody, WriteFails
  <2>8. ASSUME NEW r \in Roots, NEW op \in {"add", "remove", "test"}, NEW x \in Items,
               PatchData(r, op, x)
        PROVE  TypeOK'
    <3>1. ItemsAt(r) \in SUBSET Items
      BY DEF ItemsAt, Documents, Values
    <3>2. data' \in Documents
      <4>1. ASSUME NEW v \in Values, WriteRoot(r, v)
            PROVE  data' \in Documents
        BY <4>1 DEF WriteRoot, Documents
      <4>2. /\ ItemsAt(r) \cup {x} \in Values
            /\ ItemsAt(r) \ {x} \in Values
            /\ ItemsAt(r) \in Values
        BY <3>1 DEF Values
      <4>3. CASE UNCHANGED data
        BY <4>3
      <4>4. CASE WriteRoot(r, CASE op = "add"    -> ItemsAt(r) \cup {x}
                                [] op = "remove" -> ItemsAt(r) \ {x}
                                [] op = "test"   -> ItemsAt(r))
        <5>1. CASE op = "add"
          BY <4>1, <4>2, <4>4, <5>1
        <5>2. CASE op = "remove"
          BY <4>1, <4>2, <4>4, <5>2
        <5>3. CASE op = "test"
          BY <4>1, <4>2, <4>4, <5>3
        <5>4. QED
          BY <5>1, <5>2, <5>3
      <4>5. QED
        BY <2>8, <4>3, <4>4 DEF PatchData, WriteFails
    <3>3. QED
      BY <2>8, <3>2 DEF PatchData, WriteFails
  <2>9. ASSUME NEW rs, DeleteData(rs)
        PROVE  TypeOK'
    BY <2>9 DEF DeleteData, WriteFails, Documents
  <2>10. ASSUME NEW n \in BundleNames, NEW b \in Archives, ActivateBundle(n, b)
         PROVE  TypeOK'
    <3>1. policies' \in PolicySets
      BY <2>10, WithBundleType DEF ActivateBundle
    <3>2. evaluator' \in PolicySets
      BY <2>10, <3>1, CompiledType DEF ActivateBundle, RebuildEvaluator
    <3>3. data' \in Documents
      BY <2>10, ArchiveAssumption
      DEF ActivateBundle, StoreBundleData, ReplaceDocument, Archive
    <3>4. PathsOf(b) \in SUBSET Paths
      BY DEF PathsOf
    <3>5. bundles' \in [BundleNames -> (SUBSET Paths) \cup {NoBundle}]
      BY <2>10, <3>4 DEF ActivateBundle
    <3>6. last' \in [Ids -> BundleNames \cup {Direct, Nobody}]
      BY <2>10 DEF ActivateBundle
    <3>7. QED
      BY <2>10, <3>1, <3>2, <3>3, <3>5, <3>6 DEF ActivateBundle
  <2>11. ASSUME NEW b \in Archives, ActivationFails(b)
         PROVE  TypeOK'
    BY <2>11, ArchiveAssumption
    DEF ActivationFails, StoreBundleData, ReplaceDocument, Archive
  <2>12. ASSUME RejectBundle
         PROVE  TypeOK'
    BY <2>12 DEF RejectBundle
  <2>13. ASSUME NEW n \in BundleNames, DeleteBundle(n)
         PROVE  TypeOK'
    <3>1. CASE bundles[n] # NoBundle
      <4>1. policies' \in PolicySets
        BY <2>13, <3>1, WithoutPathsType DEF DeleteBundle, DeletePaths
      <4>2. evaluator' \in PolicySets
        BY <2>13, <3>1, <4>1, CompiledType DEF DeleteBundle, RebuildEvaluator
      <4>3. last' \in [Ids -> BundleNames \cup {Direct, Nobody}]
        BY <2>13, <3>1 DEF DeleteBundle, DeletePaths
      <4>4. QED
        BY <2>13, <3>1, <4>1, <4>2, <4>3 DEF DeleteBundle
    <3>2. CASE bundles[n] = NoBundle
      BY <2>13, <3>2 DEF DeleteBundle
    <3>3. QED
      BY <3>1, <3>2
  <2>14. ASSUME NEW c \in Clients, PostData(c)
         PROVE  TypeOK'
    BY <2>14 DEF PostData, Suspended
  <2>15. ASSUME NEW c \in Clients, NEW code \in {200, 400, 500}, PostDataBody(c, code)
         PROVE  TypeOK'
    BY <2>15 DEF PostDataBody, Suspended
  <2>16. ASSUME NEW c \in Clients, Disconnect(c)
         PROVE  TypeOK'
    BY <2>16 DEF Disconnect, Suspended
  <2>17. ASSUME Restart
         PROVE  TypeOK'
    BY <2>17 DEF Restart, PolicySets, Documents, EmptyDocument, Suspended
  <2>18. ASSUME NEW op \in {"put_data", "patch_data"}, RejectData(op)
         PROVE  TypeOK'
    BY <2>18 DEF RejectData
  <2>19. ASSUME NEW c \in Clients, RejectDataBody(c)
         PROVE  TypeOK'
    BY <2>19 DEF RejectDataBody, Suspended
  <2>20. CASE UNCHANGED vars
    BY <2>20 DEF vars
  <2>21. QED
    BY <2>1, <2>2, <2>3, <2>4, <2>5, <2>6, <2>7, <2>8, <2>9, <2>10, <2>11, <2>12,
       <2>13, <2>14, <2>15, <2>16, <2>17, <2>18, <2>19, <2>20
    DEF Next, PolicyStep, DataStep, BundleStep, DecisionStep
<1>3. QED
  BY <1>1, <1>2, PTL DEF Spec

-----------------------------------------------------------------------------
(* The evaluator *)

\* With the memory backend nothing is stored before the first rebuild.
NothingStoredUncompiled ==
  backend = "memory" /\ evaluator = NoEvaluator => \A i \in Ids : policies[i] = NoPolicy

\* PUT /v1/policies parses a text before it stores it.
DirectPoliciesParse ==
  \A i \in DirectIds \ BundleIds : policies[i] \in Parsable \cup {NoPolicy}

\* The three facts below are inductive together with the types: a rebuild
\* follows every change of the stored policies in the same step.
EngineInv ==
  /\ TypeOK
  /\ EvaluatorCurrent
  /\ NothingStoredUncompiled
  /\ DirectPoliciesParse

\* A step that leaves policies and evaluator alone keeps the invariant ...
LEMMA EngineUnchanged ==
  ASSUME EngineInv, TypeOK', UNCHANGED <<backend, policies, evaluator, last>>
  PROVE  EngineInv'
  BY DEF EngineInv, EvaluatorCurrent, NothingStoredUncompiled, DirectPoliciesParse, Compiled

\* ... and so does one that rebuilds, if the direct policies it stores parse.
LEMMA EngineRebuilt ==
  ASSUME TypeOK', evaluator' = Compiled(policies'), DirectPoliciesParse'
  PROVE  EngineInv'
<1>1. Compiled(policies') \in PolicySets
  BY CompiledType DEF TypeOK
<1>2. evaluator' # NoEvaluator
  BY <1>1, NoEvaluatorAssumption
<1>3. Compiled(policies') = Compiled(policies)'
  BY DEF Compiled
<1>4. QED
  BY <1>2, <1>3 DEF EngineInv, EvaluatorCurrent, NothingStoredUncompiled

\* No failure, re-upload, deletion or restart separates the evaluator from
\* the stored policies.
THEOREM EngineCorrect == Spec => []EngineInv
<1>1. Init => EngineInv
  <2> SUFFICES ASSUME Init
               PROVE  EngineInv
    OBVIOUS
  <2>1. TypeOK
    BY DEF Init, TypeOK, PolicySets, Documents, EmptyDocument, Suspended, NoReply
  <2>2. QED
    BY <2>1 DEF Init, EngineInv, EvaluatorCurrent, NothingStoredUncompiled,
       DirectPoliciesParse, Ids
<1>2. EngineInv /\ TypeOK' /\ [Next]_vars => EngineInv'
  <2> SUFFICES ASSUME EngineInv, TypeOK', [Next]_vars
               PROVE  EngineInv'
    OBVIOUS
  <2>0. UNCHANGED backend
    BY DEF Next, vars
  <2>1. ASSUME NEW i \in DirectIds, NEW s \in Sources, PutPolicy(i, s)
        PROVE  EngineInv'
    <3>1. DirectPoliciesParse'
      BY <2>1 DEF PutPolicy, EngineInv, TypeOK, PolicySets, DirectPoliciesParse, Ids
    <3>2. QED
      BY <2>1, <3>1, EngineRebuilt DEF PutPolicy, RebuildEvaluator
  <2>2. ASSUME NEW i \in DirectIds, DeletePolicy(i)
        PROVE  EngineInv'
    <3>1. CASE policies[i] # NoPolicy
      <4>1. DirectPoliciesParse'
        BY <2>2, <3>1 DEF DeletePolicy, EngineInv, TypeOK, PolicySets,
           DirectPoliciesParse, Ids
      <4>2. QED
        BY <2>2, <3>1, <4>1, EngineRebuilt DEF DeletePolicy, RebuildEvaluator
    <3>2. CASE policies[i] = NoPolicy
      BY <2>0, <2>2, <3>2, EngineUnchanged DEF DeletePolicy
    <3>3. QED
      BY <3>1, <3>2
  <2>3. ASSUME NEW n \in BundleNames, NEW b \in Archives, ActivateBundle(n, b)
        PROVE  EngineInv'
    <3>1. ASSUME NEW i \in DirectIds \ BundleIds
          PROVE  policies'[i] = policies[i]
      BY <2>3 DEF ActivateBundle, WithBundle, IdsOf, PathsOf, BundleIds, Ids
    <3>2. DirectPoliciesParse'
      BY <3>1 DEF EngineInv, DirectPoliciesParse
    <3>3. QED
      BY <2>3, <3>2, EngineRebuilt DEF ActivateBundle, RebuildEvaluator
  <2>4. ASSUME NEW n \in BundleNames, DeleteBundle(n)
        PROVE  EngineInv'
    <3>1. CASE bundles[n] # NoBundle
      <4>1. DirectPoliciesParse'
        BY <2>4, <3>1
        DEF DeleteBundle, DeletePaths, WithoutPaths, EngineInv, DirectPoliciesParse, Ids
      <4>2. QED
        BY <2>4, <3>1, <4>1, EngineRebuilt DEF DeleteBundle, RebuildEvaluator
    <3>2. CASE bundles[n] = NoBundle
      BY <2>0, <2>4, <3>2, EngineUnchanged DEF DeleteBundle
    <3>3. QED
      BY <3>1, <3>2
  <2>5. ASSUME Restart
        PROVE  EngineInv'
    BY <2>0, <2>5, BackendsAssumption
    DEF Restart, EngineInv, TypeOK, EvaluatorCurrent, NothingStoredUncompiled,
        DirectPoliciesParse, Ids
  <2>6. CASE UNCHANGED <<policies, evaluator, last>>
    BY <2>6, <2>0, EngineUnchanged
  <2>7. DataStep => UNCHANGED <<policies, evaluator, last>>
    BY DataStepsWriteData
  <2>8. DecisionStep => UNCHANGED <<policies, evaluator, last>>
    BY DEF DecisionStep, PostData, PostDataBody, Disconnect
  <2>9. QED
    BY <2>1, <2>2, <2>3, <2>4, <2>5, <2>6, <2>7, <2>8
    DEF Next, PolicyStep, BundleStep, RejectPolicy, ActivationFails, RejectBundle, vars
<1>3. QED
  BY <1>1, <1>2, TypeCorrect, PTL DEF Spec

\* The evaluator always holds exactly the stored policies that parse.
THEOREM EvaluatorAlwaysCurrent == Spec => []EvaluatorCurrent
<1>1. EngineInv => EvaluatorCurrent
  BY DEF EngineInv
<1>2. QED
  BY <1>1, EngineCorrect, PTL

\* With the memory backend a policy accepted by PUT answers decisions for as
\* long as it is stored.
THEOREM DirectPoliciesAlwaysServed == Spec => []DirectPoliciesServed
<1>1. EngineInv => DirectPoliciesServed
  BY NoPolicyAssumption, ParsableAssumption
  DEF EngineInv, EvaluatorCurrent, NothingStoredUncompiled, DirectPoliciesParse,
      DirectPoliciesServed, Compiled, Ids
<1>2. QED
  BY <1>1, EngineCorrect, PTL

-----------------------------------------------------------------------------
(* Failures *)

\* What a request may not do when it is answered with an error.
LocalFailure ==
  reply'.code \in {304, 400, 404, 500} =>
    /\ UNCHANGED <<policies, evaluator, bundles>>
    /\ reply'.op # "upload_bundle" => UNCHANGED data

\* No request that is refused or fails touches policies, evaluator or registry,
\* and only a bundle upload leaves data behind.
THEOREM FailuresAreLocal == Spec => FailedRequestsChangeNothing
<1>1. ASSUME Next
      PROVE  LocalFailure
  <2> USE DEF LocalFailure, Reply, NoReply
  <2>1. PolicyStep => LocalFailure
    BY DEF PolicyStep, PutPolicy, RejectPolicy, DeletePolicy
  <2>2. ASSUME DataStep
        PROVE  LocalFailure
    <3>1. UNCHANGED <<policies, evaluator, bundles>>
      BY <2>2, DataStepsWriteData
    <3>2. reply'.code = 204 \/ UNCHANGED data
      <4>1. \A r, v : PutData(r, v) => reply'.code = 204 \/ UNCHANGED data
        BY DEF PutData, WriteFails
      <4>2. \A d : PutDocument(d) => reply'.code = 204 \/ UNCHANGED data
        BY DEF PutDocument, WriteFails
      <4>3. \A c, r : PutDataIfNoneMatch(c, r) => UNCHANGED data
        BY DEF PutDataIfNoneMatch
      <4>4. \A c, v : PutDataBody(c, v) => reply'.code = 204 \/ UNCHANGED data
        BY DEF PutDataBody, WriteFails
      <4>5. \A r, op, x : PatchData(r, op, x) => reply'.code = 204 \/ UNCHANGED data
        BY DEF PatchData, WriteFails
      <4>6. \A rs : DeleteData(rs) => reply'.code = 204 \/ UNCHANGED data
        BY DEF DeleteData, WriteFails
      <4>7. \A op, c : RejectData(op) \/ RejectDataBody(c) => UNCHANGED data
        BY DEF RejectData, RejectDataBody
      <4>8. QED
        BY <2>2, <4>1, <4>2, <4>3, <4>4, <4>5, <4>6, <4>7 DEF DataStep
    <3>3. QED
      BY <3>1, <3>2
  <2>3. BundleStep => LocalFailure
    BY DEF BundleStep, ActivateBundle, ActivationFails, RejectBundle, DeleteBundle
  <2>4. DecisionStep => LocalFailure
    BY DEF DecisionStep, PostData, PostDataBody, Disconnect
  <2>5. Restart => LocalFailure
    BY DEF Restart
  <2>6. QED
    BY <1>1, <2>1, <2>2, <2>3, <2>4, <2>5 DEF Next
<1>2. [Next]_vars =>
        [reply'.code \in {304, 400, 404, 500} =>
           /\ UNCHANGED <<policies, evaluator, bundles>>
           /\ reply'.op # "upload_bundle" => UNCHANGED data]_vars
  BY <1>1 DEF LocalFailure
<1>3. QED
  BY <1>2, PTL DEF Spec, FailedRequestsChangeNothing

-----------------------------------------------------------------------------
(* The bundle registry *)

\* A listed policy is stored or was deleted by another request, whatever ids run together.
THEOREM ListedPoliciesAlwaysStored == Spec => []ListedPoliciesStored
<1>1. Init => ListedPoliciesStored
  BY DEF Init, ListedPoliciesStored
<1>2. TypeOK /\ ListedPoliciesStored /\ [Next]_vars => ListedPoliciesStored'
  <2> SUFFICES ASSUME TypeOK, ListedPoliciesStored, [Next]_vars,
                      NEW m \in BundleNames, bundles'[m] # NoBundle,
                      NEW q \in bundles'[m], policies'[BundleId(m, q)] = NoPolicy
               PROVE  last'[BundleId(m, q)] \notin {m, Nobody}
    BY DEF ListedPoliciesStored
  <2> DEFINE id == BundleId(m, q)
             Kept == bundles'[m] = bundles[m] /\ policies'[id] = policies[id] /\ last'[id] = last[id]
             Taken == last'[id] \notin {m, Nobody}
  <2>1. Kept => Taken
    BY DEF ListedPoliciesStored
  <2>2. bundles'[m] = bundles[m] => q \in Paths /\ id \in Ids
    BY DEF TypeOK, BundleIds, Ids
  <2>0. policies'[id] = NoPolicy
    OBVIOUS
  <2> HIDE DEF id
  <2>3. ASSUME NEW i \in DirectIds, NEW s \in Sources, PutPolicy(i, s)
        PROVE  Taken
    <3>1. i # id
      BY <2>0, <2>2, <2>3, NoPolicyAssumption DEF PutPolicy, TypeOK, PolicySets
    <3>2. Kept
      BY <2>2, <2>3, <3>1 DEF PutPolicy, TypeOK, PolicySets
    <3> QED BY <2>1, <3>2
  <2>4. ASSUME NEW i \in DirectIds, DeletePolicy(i)
        PROVE  Taken
    <3>1. CASE policies[i] = NoPolicy
      BY <2>1, <2>4, <3>1 DEF DeletePolicy
    <3>2. CASE policies[i] # NoPolicy /\ i = id
      BY <2>2, <2>4, <3>2, WriterAssumption DEF DeletePolicy, TypeOK
    <3>3. CASE policies[i] # NoPolicy /\ i # id
      <4>1. Kept
        BY <2>2, <2>4, <3>3 DEF DeletePolicy, TypeOK, PolicySets
      <4> QED BY <2>1, <4>1
    <3> QED BY <3>1, <3>2, <3>3
  <2>5. ASSUME NEW n \in BundleNames, NEW b \in Archives, ActivateBundle(n, b)
        PROVE  Taken
    <3>1. bundles' = [bundles EXCEPT ![n] = PathsOf(b)]
      BY <2>5 DEF ActivateBundle
    <3>2. q \in Paths
      BY <2>2, <3>1 DEF TypeOK, PathsOf
    <3>3. id \in Ids
      BY <3>2 DEF BundleIds, Ids, id
    <3>4. id \notin IdsOf(n, PathsOf(b))
      <4> SUFFICES ASSUME id \in IdsOf(n, PathsOf(b)) PROVE policies'[id] # NoPolicy
        BY DEF id
      <4>1. (CHOOSE p \in PathsOf(b) : id = BundleId(n, p)) \in PathsOf(b)
        BY DEF IdsOf
      <4>2. policies'[id] = b.policies[CHOOSE p \in PathsOf(b) : id = BundleId(n, p)]
        BY <2>5, <3>3 DEF ActivateBundle, WithBundle
      <4> QED BY <4>1, <4>2 DEF PathsOf
    <3>5. policies'[id] = policies[id] /\ last'[id] = last[id]
      BY <2>5, <3>3, <3>4 DEF ActivateBundle, WithBundle
    <3>6. m # n
      BY <3>1, <3>4 DEF TypeOK, IdsOf, id
    <3>7. bundles'[m] = bundles[m]
      BY <3>1, <3>6 DEF TypeOK
    <3> QED BY <2>1, <3>5, <3>7
  <2>6. ASSUME NEW n \in BundleNames, DeleteBundle(n)
        PROVE  Taken
    <3>1. CASE bundles[n] = NoBundle
      BY <2>1, <2>6, <3>1 DEF DeleteBundle
    <3>2. CASE bundles[n] # NoBundle
      <4>1. m # n /\ bundles'[m] = bundles[m]
        BY <2>6, <3>2 DEF DeleteBundle, TypeOK
      <4>2. id \in Ids
        BY <2>2, <4>1
      <4>3. CASE id \in IdsOf(n, bundles[n]) /\ policies[id] # NoPolicy
        BY <2>6, <3>2, <4>1, <4>2, <4>3, WriterAssumption DEF DeleteBundle, DeletePaths
      <4>4. CASE ~(id \in IdsOf(n, bundles[n]) /\ policies[id] # NoPolicy)
        BY <2>1, <2>6, <3>2, <4>1, <4>2, <4>4 DEF DeleteBundle, DeletePaths, WithoutPaths
      <4> QED BY <4>3, <4>4
    <3> QED BY <3>1, <3>2
  <2>7. ~Restart
    <3> SUFFICES ASSUME Restart PROVE FALSE
      OBVIOUS
    <3>1. bundles' = [n \in BundleNames |-> NoBundle]
      BY DEF Restart
    <3> QED BY <3>1
  <2>8. ASSUME UNCHANGED <<policies, bundles, last>> PROVE Taken
    BY <2>8, <2>1
  <2>9. DataStep \/ DecisionStep => UNCHANGED <<policies, bundles, last>>
    <3>1. DataStep => UNCHANGED <<policies, bundles, last>>
      BY DataStepsWriteData
    <3>2. DecisionStep => UNCHANGED <<policies, bundles, last>>
      BY DEF DecisionStep, PostData, PostDataBody, Disconnect
    <3> QED BY <3>1, <3>2
  <2>10. Taken
    BY <2>1, <2>3, <2>4, <2>5, <2>6, <2>7, <2>8, <2>9
    DEF Next, PolicyStep, BundleStep, RejectPolicy, ActivationFails, RejectBundle, vars
  <2> QED BY <2>10 DEF id
<1>3. QED
  BY <1>1, <1>2, TypeCorrect, PTL DEF Spec
=============================================================================
