--------------------------- MODULE DocumentsProofs ---------------------------
(***************************************************************************)
(* What walks, writes and removals of documents owe to each other, for     *)
(* documents of any shape and paths of any depth.                          *)
(***************************************************************************)
EXTENDS Documents, GraphSearch, SequenceTheorems, FiniteSetTheorems, WellFoundedInduction, TLAPS

\* Induction over an initial segment of the natural numbers, for a set of numbers
LEMMA UpTo ==
  ASSUME NEW N \in Nat, NEW S, 0 \in S, \A n \in 0..(N - 1) : n \in S => n + 1 \in S
  PROVE  \A n \in 0..N : n \in S
<1> DEFINE bad == {n \in 0..N : n \notin S}
           T == {0..n : n \in bad}
<1> SUFFICES ASSUME bad # {} PROVE FALSE
  OBVIOUS
<1>1. T \subseteq FiniteSubsetsOf(Nat) /\ T # {}
  <2>1. \A n \in Nat : IsFiniteSet(0..n) /\ 0..n \in SUBSET Nat
    BY FS_Interval
  <2>2. \A n \in bad : 0..n \in FiniteSubsetsOf(Nat)
    BY <2>1 DEF FiniteSubsetsOf
  <2>3. PICK n \in bad : TRUE
    OBVIOUS
  <2> QED BY <2>2, <2>3
<1>2. \E x \in T : \A y \in T : ~(<<y, x>> \in StrictSubsetOrdering(Nat))
  BY <1>1, FS_StrictSubsetOrderingWellFounded, WFMin
<1>3. PICK n \in bad : \A m \in bad : ~(<<0..m, 0..n>> \in StrictSubsetOrdering(Nat))
  BY <1>2
<1>4. n - 1 \in bad
  <2>1. n \in 1..N /\ n - 1 \in 0..(N - 1) /\ n - 1 \in 0..N /\ (n - 1) + 1 = n
    OBVIOUS
  <2> QED BY <2>1
<1>5. n \in Nat /\ n \in 0..n /\ n \notin 0..(n - 1) /\ 0..(n - 1) \subseteq 0..n
  OBVIOUS
<1>6. <<0..(n - 1), 0..n>> \in StrictSubsetOrdering(Nat)
  BY <1>5 DEF StrictSubsetOrdering
<1> QED BY <1>3, <1>4, <1>6

\* A walk goes one segment at a time.
LEMMA WalkedIs ==
  ASSUME NEW doc, NEW path \in Seq(STRING)
  PROVE  /\ Walked(doc, path)[0] = doc
         /\ \A n \in 1..Len(path) : Walked(doc, path)[n] = Step(Walked(doc, path)[n - 1], path[n])
<1> DEFINE N == Len(path)
           Is(f, m) == f = [n \in 0..m |-> IF n = 0 THEN doc ELSE Step(f[n - 1], path[n])]
           S == {m \in 0..N : \E f : Is(f, m)}
<1>1. N \in Nat
  OBVIOUS
<1> HIDE DEF N
<1>2. 0 \in S
  <2>1. Is([n \in 0..0 |-> doc], 0)
    OBVIOUS
  <2> HIDE DEF Is
  <2> QED BY <1>1, <2>1
<1>3. ASSUME NEW m \in 0..(N - 1), m \in S PROVE m + 1 \in S
  <2>1. PICK f : Is(f, m)
    BY <1>3
  <2> DEFINE g == [n \in 0..(m + 1) |-> IF n = m + 1 THEN Step(f[m], path[m + 1]) ELSE f[n]]
  <2>2. \A n \in 0..(m + 1) : g[n] = IF n = 0 THEN doc ELSE Step(g[n - 1], path[n])
    <3> SUFFICES ASSUME NEW n \in 0..(m + 1)
                 PROVE  g[n] = IF n = 0 THEN doc ELSE Step(g[n - 1], path[n])
      OBVIOUS
    <3>1. CASE n = 0
      BY <1>3, <2>1, <3>1
    <3>2. CASE n = m + 1
      BY <1>3, <3>2
    <3>3. CASE n \in 1..m
      BY <1>3, <2>1, <3>3
    <3> QED BY <3>1, <3>2, <3>3
  <2>3. Is(g, m + 1)
    BY <2>2
  <2>4. m + 1 \in 0..N
    BY <1>1, <1>3
  <2> QED BY <2>3, <2>4
<1>4. \A m \in 0..N : m \in S
  <2> HIDE DEF S
  <2> QED BY <1>1, <1>2, <1>3, UpTo
<1>5. \E f : Is(f, N)
  <2> HIDE DEF Is
  <2> QED BY <1>1, <1>4
<1>6. Walked(doc, path) = CHOOSE f : Is(f, N)
  BY DEF Walked, N
<1>7. Is(Walked(doc, path), N)
  BY <1>5, <1>6
<1> QED BY <1>1, <1>7 DEF N

\* What a write passes, one segment at a time
LEMMA AboveIs ==
  ASSUME NEW doc, NEW path \in Seq(STRING)
  PROVE  /\ Above(doc, path)[0] = doc
         /\ \A n \in 1..Len(path) : Above(doc, path)[n] = KidAt(Above(doc, path)[n - 1], path[n])
<1> DEFINE N == Len(path)
           Is(f, m) == f = [n \in 0..m |-> IF n = 0 THEN doc ELSE KidAt(f[n - 1], path[n])]
           S == {m \in 0..N : \E f : Is(f, m)}
<1>1. N \in Nat
  OBVIOUS
<1> HIDE DEF N
<1>2. 0 \in S
  <2>1. Is([n \in 0..0 |-> doc], 0)
    OBVIOUS
  <2> HIDE DEF Is
  <2> QED BY <1>1, <2>1
<1>3. ASSUME NEW m \in 0..(N - 1), m \in S PROVE m + 1 \in S
  <2>1. PICK f : Is(f, m)
    BY <1>3
  <2> DEFINE g == [n \in 0..(m + 1) |-> IF n = m + 1 THEN KidAt(f[m], path[m + 1]) ELSE f[n]]
  <2>2. \A n \in 0..(m + 1) : g[n] = IF n = 0 THEN doc ELSE KidAt(g[n - 1], path[n])
    <3> SUFFICES ASSUME NEW n \in 0..(m + 1)
                 PROVE  g[n] = IF n = 0 THEN doc ELSE KidAt(g[n - 1], path[n])
      OBVIOUS
    <3>1. CASE n = 0
      BY <1>3, <2>1, <3>1
    <3>2. CASE n = m + 1
      BY <1>3, <3>2
    <3>3. CASE n \in 1..m
      BY <1>3, <2>1, <3>3
    <3> QED BY <3>1, <3>2, <3>3
  <2>3. Is(g, m + 1)
    BY <2>2
  <2>4. m + 1 \in 0..N
    BY <1>1, <1>3
  <2> QED BY <2>3, <2>4
<1>4. \A m \in 0..N : m \in S
  <2> HIDE DEF S
  <2> QED BY <1>1, <1>2, <1>3, UpTo
<1>5. \E f : Is(f, N)
  <2> HIDE DEF Is
  <2> QED BY <1>1, <1>4
<1>6. Above(doc, path) = CHOOSE f : Is(f, N)
  BY DEF Above, N
<1>7. Is(Above(doc, path), N)
  BY <1>5, <1>6
<1> QED BY <1>1, <1>7 DEF N

\* What a write builds, from the value up
LEMMA RaisedIs ==
  ASSUME NEW above, NEW path \in Seq(STRING), NEW v
  PROVE  /\ Raised(above, path, v)[0] = v
         /\ \A n \in 1..Len(path) :
              Raised(above, path, v)[n]
                = With(above[Len(path) - n], path[Len(path) - n + 1], Raised(above, path, v)[n - 1])
<1> DEFINE N == Len(path)
           Around(kid, n) == With(above[Len(path) - n], path[Len(path) - n + 1], kid)
           Is(f, m) == f = [n \in 0..m |-> IF n = 0 THEN v ELSE Around(f[n - 1], n)]
           S == {m \in 0..N : \E f : Is(f, m)}
<1>1. N \in Nat
  OBVIOUS
<1> HIDE DEF N
<1>2. 0 \in S
  <2>1. Is([n \in 0..0 |-> v], 0)
    OBVIOUS
  <2> HIDE DEF Is
  <2> QED BY <1>1, <2>1
<1>3. ASSUME NEW m \in 0..(N - 1), m \in S PROVE m + 1 \in S
  <2>1. PICK f : Is(f, m)
    BY <1>3
  <2> DEFINE g == [n \in 0..(m + 1) |-> IF n = m + 1 THEN Around(f[m], m + 1) ELSE f[n]]
  <2>2. \A n \in 0..(m + 1) : g[n] = IF n = 0 THEN v ELSE Around(g[n - 1], n)
    <3> SUFFICES ASSUME NEW n \in 0..(m + 1)
                 PROVE  g[n] = IF n = 0 THEN v ELSE Around(g[n - 1], n)
      OBVIOUS
    <3>1. CASE n = 0
      BY <1>3, <2>1, <3>1
    <3>2. CASE n = m + 1
      BY <1>3, <3>2
    <3>3. CASE n \in 1..m
      BY <1>3, <2>1, <3>3
    <3> QED BY <3>1, <3>2, <3>3
  <2>3. Is(g, m + 1)
    BY <2>2
  <2>4. m + 1 \in 0..N
    BY <1>1, <1>3
  <2> QED BY <2>3, <2>4
<1>4. \A m \in 0..N : m \in S
  <2> HIDE DEF S
  <2> QED BY <1>1, <1>2, <1>3, UpTo
<1>5. \E f : Is(f, N)
  <2> HIDE DEF Is
  <2> QED BY <1>1, <1>4
<1>6. Raised(above, path, v) = CHOOSE f : Is(f, N)
  BY DEF Raised, N
<1>7. Is(Raised(above, path, v), N)
  BY <1>5, <1>6
<1> QED BY <1>1, <1>7 DEF N

\* Two walks agree as far as their documents and paths do, and from there on.
LEMMA SameWalk ==
  ASSUME NEW doc, NEW path \in Seq(STRING), NEW other, NEW q \in Seq(STRING),
         NEW k \in 0..Len(path), k <= Len(q), Walked(doc, path)[k] = Walked(other, q)[k],
         NEW n \in k..Len(path), n <= Len(q), \A i \in (k + 1)..n : path[i] = q[i]
  PROVE  Walked(doc, path)[n] = Walked(other, q)[n]
<1> DEFINE W == Walked(doc, path)
           V == Walked(other, q)
           S == {m \in 0..n : m >= k => W[m] = V[m]}
<1>1. /\ \A m \in 1..Len(path) : W[m] = Step(W[m - 1], path[m])
      /\ \A m \in 1..Len(q) : V[m] = Step(V[m - 1], q[m])
  BY WalkedIs
<1>2. W[k] = V[k] /\ n \in Nat /\ k \in Nat /\ k <= n /\ Len(path) \in Nat /\ Len(q) \in Nat
  OBVIOUS
<1> HIDE DEF W, V
<1>3. 0 \in S
  BY <1>2
<1>4. ASSUME NEW m \in 0..(n - 1), m \in S PROVE m + 1 \in S
  <2>1. CASE m + 1 = k
    BY <1>2, <2>1
  <2>2. CASE m + 1 < k
    BY <1>2, <2>2
  <2>3. CASE m + 1 > k
    <3>1. W[m] = V[m] /\ path[m + 1] = q[m + 1]
      BY <1>2, <1>4, <2>3
    <3>2. m + 1 \in 1..Len(path) /\ m + 1 \in 1..Len(q) /\ (m + 1) - 1 = m
      BY <1>2
    <3>3. W[m + 1] = Step(W[m], path[m + 1]) /\ V[m + 1] = Step(V[m], q[m + 1])
      BY <1>1, <3>2
    <3> QED BY <1>2, <3>1, <3>3
  <2> QED BY <1>2, <2>1, <2>2, <2>3
<1>5. n \in S
  <2> HIDE DEF S
  <2>1. \A m \in 0..n : m \in S
    BY <1>2, <1>3, <1>4, UpTo
  <2> QED BY <1>2, <2>1
<1> QED BY <1>2, <1>5 DEF W, V

LEMMA SamePrefix ==
  ASSUME NEW doc, NEW path \in Seq(STRING), NEW q \in Seq(STRING),
         NEW n \in 0..Len(path), n <= Len(q), \A i \in 1..n : path[i] = q[i]
  PROVE  Walked(doc, path)[n] = Walked(doc, q)[n]
<1>1. Walked(doc, path)[0] = Walked(doc, q)[0]
  BY WalkedIs
<1>2. 0 \in 0..Len(path) /\ 0 <= Len(q) /\ 0 + 1 = 1 /\ n \in 0..Len(path)
  OBVIOUS
<1> QED BY <1>1, <1>2, SameWalk

\* Nothing is found below what is not found.
LEMMA NothingBelow ==
  ASSUME NEW doc, NEW path \in Seq(STRING),
         NEW k \in 0..Len(path), Walked(doc, path)[k] = NotFound,
         NEW n \in k..Len(path)
  PROVE  Walked(doc, path)[n] = NotFound
<1> DEFINE W == Walked(doc, path)
           S == {m \in 0..n : m >= k => W[m] = NotFound}
<1>1. \A m \in 1..Len(path) : W[m] = Step(W[m - 1], path[m])
  BY WalkedIs
<1>2. W[k] = NotFound /\ n \in Nat /\ k \in Nat /\ k <= n /\ Len(path) \in Nat
  OBVIOUS
<1>3. \A s : Step(NotFound, s) = NotFound
  BY DEF Step, NotFound, IsTree
<1> HIDE DEF W
<1>4. 0 \in S
  BY <1>2
<1>5. ASSUME NEW m \in 0..(n - 1), m \in S PROVE m + 1 \in S
  <2>1. CASE m + 1 = k
    BY <1>2, <2>1
  <2>2. CASE m + 1 < k
    BY <1>2, <2>2
  <2>3. CASE m + 1 > k
    <3>1. W[m] = NotFound /\ W[m + 1] = Step(W[m], path[m + 1])
      BY <1>1, <1>2, <1>5, <2>3
    <3> QED BY <1>2, <1>3, <3>1
  <2> QED BY <1>2, <2>1, <2>2, <2>3
<1>6. n \in S
  <2> HIDE DEF S
  <2>1. \A m \in 0..n : m \in S
    BY <1>2, <1>4, <1>5, UpTo
  <2> QED BY <1>2, <2>1
<1> QED BY <1>2, <1>6 DEF W

\* Where two paths part first
LEMMA FirstParting ==
  ASSUME NEW p \in Seq(STRING), NEW q \in Seq(STRING), Apart(p, q)
  PROVE  \E k \in DOMAIN p \cap DOMAIN q : p[k] # q[k] /\ \A i \in 1..(k - 1) : p[i] = q[i]
<1>1. PICK d \in DOMAIN p \cap DOMAIN q : p[d] # q[d]
  BY DEF Apart
<1> DEFINE S == {m \in 0..d : \A i \in 1..m : p[i] = q[i]}
<1>2. 0 \in S /\ d \in Nat /\ d \in 1..d
  BY <1>1
<1>3. d \notin S
  BY <1>1, <1>2
<1>4. \E m \in 0..(d - 1) : m \in S /\ m + 1 \notin S
  <2> HIDE DEF S
  <2> QED BY <1>2, <1>3, UpTo
<1>5. PICK m \in 0..(d - 1) : m \in S /\ m + 1 \notin S
  BY <1>4
<1>6. m + 1 \in DOMAIN p \cap DOMAIN q /\ (m + 1) - 1 = m /\ m + 1 \in 0..d
  BY <1>1, <1>5
<1>7. p[m + 1] # q[m + 1]
  BY <1>5, <1>6
<1> QED BY <1>5, <1>6, <1>7

\* What a step finds where there is no list
LEMMA StepIs ==
  ASSUME NEW v, v[1] # "array", NEW s
  PROVE  Step(v, s) = IF s \in DOMAIN KidsOf(v) THEN KidsOf(v)[s] ELSE NotFound
  BY DEF Step, KidsOf, IsTree

\* What a step finds in an object
LEMMA StepTree ==
  ASSUME NEW f, NEW s
  PROVE  Step(Tree(f), s) = IF s \in DOMAIN f THEN f[s] ELSE NotFound
  BY DEF Step, Tree, IsTree

\* What a step finds after a kid was placed
LEMMA StepWith ==
  ASSUME NEW v, NEW segment, NEW kid, NEW s
  PROVE  /\ Step(With(v, segment, kid), segment) = kid
         /\ s # segment /\ v[1] # "array" => Step(With(v, segment, kid), s) = Step(v, s)
         /\ s # segment /\ DOMAIN KidsOf(v) = {} => Step(With(v, segment, kid), s) = NotFound
<1> DEFINE f == [k \in DOMAIN KidsOf(v) \cup {segment} |-> IF k = segment THEN kid ELSE KidsOf(v)[k]]
<1>1. With(v, segment, kid) = Tree(f)
  BY DEF With
<1>2. /\ DOMAIN f = DOMAIN KidsOf(v) \cup {segment} /\ f[segment] = kid
      /\ s # segment /\ s \in DOMAIN KidsOf(v) => f[s] = KidsOf(v)[s]
  OBVIOUS
<1> HIDE DEF f
<1> QED BY <1>1, <1>2, StepTree, StepIs

\* What a step finds after a kid was taken away
LEMMA StepWithout ==
  ASSUME NEW v, NEW segment
  PROVE  /\ Step(Without(v, segment), segment) = NotFound
         /\ \A s : s # segment /\ v[1] # "array" => Step(Without(v, segment), s) = Step(v, s)
<1> DEFINE f == [k \in DOMAIN KidsOf(v) \ {segment} |-> KidsOf(v)[k]]
<1>1. Without(v, segment) = Tree(f)
  BY DEF Without
<1>2. /\ DOMAIN f = DOMAIN KidsOf(v) \ {segment}
      /\ \A s : s # segment /\ s \in DOMAIN KidsOf(v) => f[s] = KidsOf(v)[s]
  OBVIOUS
<1> HIDE DEF f
<1>3. Step(Tree(f), segment) = NotFound
  BY <1>2, StepTree
<1>4. ASSUME NEW s, s # segment, v[1] # "array" PROVE Step(Tree(f), s) = Step(v, s)
  BY <1>2, <1>4, StepTree, StepIs
<1> QED BY <1>1, <1>3, <1>4

\* Where a path passes no list, a write passes what a walk finds, or an empty object where
\* the walk finds nothing.
LEMMA AboveVsWalk ==
  ASSUME NEW doc, NEW path \in Seq(STRING), ~ThroughList(doc, path), NEW n \in 0..Len(path)
  PROVE  \/ Above(doc, path)[n] = Walked(doc, path)[n]
         \/ Walked(doc, path)[n] = NotFound /\ DOMAIN KidsOf(Above(doc, path)[n]) = {}
<1> DEFINE A == Above(doc, path)
           W == Walked(doc, path)
           Fits(m) == A[m] = W[m] \/ (W[m] = NotFound /\ DOMAIN KidsOf(A[m]) = {})
           S == {m \in 0..Len(path) : Fits(m)}
<1>1. /\ A[0] = doc /\ \A m \in 1..Len(path) : A[m] = KidAt(A[m - 1], path[m])
      /\ W[0] = doc /\ \A m \in 1..Len(path) : W[m] = Step(W[m - 1], path[m])
  BY AboveIs, WalkedIs
<1>2. \A m \in 1..Len(path) : W[m - 1][1] # "array"
  <2>1. DOMAIN path = 1..Len(path)
    OBVIOUS
  <2> QED BY <2>1 DEF ThroughList
<1> HIDE DEF A, W
<1>3. 0 \in S
  BY <1>1
<1>4. ASSUME NEW m \in 0..(Len(path) - 1), m \in S PROVE m + 1 \in S
  <2>1. m + 1 \in 1..Len(path) /\ m + 1 \in 0..Len(path) /\ (m + 1) - 1 = m
    OBVIOUS
  <2>2. A[m + 1] = KidAt(A[m], path[m + 1]) /\ W[m + 1] = Step(W[m], path[m + 1]) /\ W[m][1] # "array"
    BY <1>1, <1>2, <2>1
  <2>3. DOMAIN KidsOf(Empty) = {}
    BY DEF KidsOf, Empty, Tree, IsTree
  <2>4. CASE path[m + 1] \in DOMAIN KidsOf(A[m])
    <3>1. A[m] = W[m]
      BY <1>4, <2>4
    <3>2. A[m + 1] = W[m + 1]
      BY <2>2, <2>4, <3>1, StepIs DEF KidAt
    <3> QED BY <2>1, <3>2
  <2>5. CASE path[m + 1] \notin DOMAIN KidsOf(A[m])
    <3>1. A[m + 1] = Empty
      BY <2>2, <2>5 DEF KidAt
    <3>2. W[m + 1] = NotFound
      <4>1. CASE A[m] = W[m]
        BY <2>2, <2>5, <4>1, StepIs
      <4>2. CASE W[m] = NotFound
        <5>1. Step(NotFound, path[m + 1]) = NotFound
          BY DEF Step, IsTree, NotFound
        <5> QED BY <2>2, <4>2, <5>1
      <4> QED BY <1>4, <4>1, <4>2
    <3> QED BY <2>1, <2>3, <3>1, <3>2
  <2> QED BY <2>4, <2>5
<1>5. n \in S
  <2> HIDE DEF S
  <2> QED BY <1>3, <1>4, UpTo
<1> QED BY <1>5 DEF A, W

\* A walk to where a value was placed comes to what was built there, down to the value.
LEMMA GrownWalk ==
  ASSUME NEW doc, NEW path \in Seq(STRING), NEW v, NEW n \in 0..Len(path)
  PROVE  Walked(Grown(doc, path, v), path)[n] = Raised(Above(doc, path), path, v)[Len(path) - n]
<1> DEFINE A == Above(doc, path)
           U == Raised(A, path, v)
           W == Walked(U[Len(path)], path)
           S == {m \in 0..Len(path) : W[m] = U[Len(path) - m]}
<1>1. /\ U[0] = v
      /\ \A m \in 1..Len(path) : U[m] = With(A[Len(path) - m], path[Len(path) - m + 1], U[m - 1])
  BY RaisedIs
<1>2. W[0] = U[Len(path)] /\ \A m \in 1..Len(path) : W[m] = Step(W[m - 1], path[m])
  BY WalkedIs
<1>3. Grown(doc, path, v) = U[Len(path)]
  BY DEF Grown
<1> HIDE DEF A, U, W
<1>4. 0 \in S
  BY <1>2
<1>5. ASSUME NEW m \in 0..(Len(path) - 1), m \in S PROVE m + 1 \in S
  <2>1. m + 1 \in 1..Len(path) /\ m + 1 \in 0..Len(path) /\ (m + 1) - 1 = m
    OBVIOUS
  <2>2. W[m + 1] = Step(U[Len(path) - m], path[m + 1])
    BY <1>2, <1>5, <2>1
  <2>3. U[Len(path) - m] = With(A[m], path[m + 1], U[Len(path) - (m + 1)])
    <3>1. /\ Len(path) - m \in 1..Len(path) /\ Len(path) - (Len(path) - m) = m
          /\ (Len(path) - m) - 1 = Len(path) - (m + 1)
      OBVIOUS
    <3> QED BY <1>1, <3>1
  <2>4. W[m + 1] = U[Len(path) - (m + 1)]
    BY <2>2, <2>3, StepWith
  <2> QED BY <2>1, <2>4
<1>6. n \in S
  <2> HIDE DEF S
  <2> QED BY <1>4, <1>5, UpTo
<1> QED BY <1>3, <1>6 DEF W, U, A

LEMMA GrownReads ==
  ASSUME NEW doc, NEW path \in Seq(STRING), NEW v
  PROVE  WalkTo(Grown(doc, path, v), path) = v
<1> DEFINE N == Len(path)
<1>1. N \in 0..N /\ N - N = 0
  OBVIOUS
<1>2. \A n \in 0..N :
        Walked(Grown(doc, path, v), path)[n] = Raised(Above(doc, path), path, v)[N - n]
  BY GrownWalk
<1> HIDE DEF N
<1>3. Walked(Grown(doc, path, v), path)[N] = Raised(Above(doc, path), path, v)[0]
  BY <1>1, <1>2
<1>4. Raised(Above(doc, path), path, v)[0] = v
  BY RaisedIs
<1>5. WalkTo(Grown(doc, path, v), path) = Walked(Grown(doc, path, v), path)[N]
  BY DEF WalkTo, N
<1> QED BY <1>3, <1>4, <1>5

\* A value placed at a path is not seen at a path that parts from it.
LEMMA GrownApart ==
  ASSUME NEW doc, NEW path \in Seq(STRING), ~ThroughList(doc, path), NEW v,
         NEW q \in Seq(STRING), Apart(path, q)
  PROVE  WalkTo(Grown(doc, path, v), q) = WalkTo(doc, q)
<1> DEFINE after == Grown(doc, path, v)
           A == Above(doc, path)
<1>1. PICK k \in DOMAIN path \cap DOMAIN q :
             path[k] # q[k] /\ \A i \in 1..(k - 1) : path[i] = q[i]
  BY FirstParting
<1>2. /\ k \in 1..Len(path) /\ k \in 1..Len(q) /\ k - 1 \in 0..Len(path) /\ k - 1 \in 0..Len(q)
      /\ Len(path) - (k - 1) \in 1..Len(path) /\ 0 \in 0..Len(path) /\ 0 <= Len(q) /\ k - 1 <= Len(q)
      /\ k - 1 \in 0..Len(path) /\ 0 + 1 = 1
      /\ Len(path) - (Len(path) - (k - 1)) = k - 1 /\ (k - 1) + 1 = k
      /\ k \in 0..Len(q) /\ Len(q) \in k..Len(q) /\ k <= Len(q)
  BY <1>1
<1>3. /\ Walked(after, path)[k - 1] = Walked(after, q)[k - 1]
      /\ Walked(doc, path)[k - 1] = Walked(doc, q)[k - 1]
  <2>1. ASSUME NEW d PROVE Walked(d, path)[k - 1] = Walked(d, q)[k - 1]
    <3> DEFINE n == k - 1
    <3>1. n \in 0..Len(path) /\ n <= Len(q) /\ \A i \in 1..n : path[i] = q[i]
      BY <1>1, <1>2
    <3> HIDE DEF n
    <3>2. Walked(d, path)[n] = Walked(d, q)[n]
      BY <3>1, SamePrefix
    <3> QED BY <3>2 DEF n
  <2> QED BY <2>1
<1>4. PICK kid : Walked(after, path)[k - 1] = With(A[k - 1], path[k], kid)
  <2>1. Walked(after, path)[k - 1] = Raised(A, path, v)[Len(path) - (k - 1)]
    <3>1. \A n \in 0..Len(path) : Walked(after, path)[n] = Raised(A, path, v)[Len(path) - n]
      BY GrownWalk
    <3> HIDE DEF after, A
    <3> QED BY <1>2, <3>1
  <2>2. Raised(A, path, v)[Len(path) - (k - 1)]
          = With(A[k - 1], path[k], Raised(A, path, v)[(Len(path) - (k - 1)) - 1])
    <3> DEFINE m == Len(path) - (k - 1)
    <3>1. m \in 1..Len(path) /\ Len(path) - m = k - 1 /\ Len(path) - m + 1 = k
      BY <1>2
    <3>2. \A n \in 1..Len(path) :
            Raised(A, path, v)[n] = With(A[Len(path) - n], path[Len(path) - n + 1], Raised(A, path, v)[n - 1])
      BY RaisedIs
    <3> HIDE DEF m, A
    <3>3. Raised(A, path, v)[m] = With(A[k - 1], path[k], Raised(A, path, v)[m - 1])
      BY <3>1, <3>2
    <3> QED BY <3>3 DEF m
  <2> QED BY <2>1, <2>2
<1>5. /\ Walked(after, q)[k] = Step(With(A[k - 1], path[k], kid), q[k])
      /\ Walked(doc, q)[k] = Step(Walked(doc, path)[k - 1], q[k])
  <2>1. \A d : \A n \in 1..Len(q) : Walked(d, q)[n] = Step(Walked(d, q)[n - 1], q[n])
    BY WalkedIs
  <2> HIDE DEF after
  <2> QED BY <1>2, <1>3, <1>4, <2>1
<1>6. Walked(doc, path)[k - 1][1] # "array"
  BY <1>1 DEF ThroughList
<1>7. Walked(after, q)[k] = Walked(doc, q)[k]
  <2>1. CASE A[k - 1] = Walked(doc, path)[k - 1]
    BY <1>1, <1>5, <1>6, <2>1, StepWith
  <2>2. CASE Walked(doc, path)[k - 1] = NotFound /\ DOMAIN KidsOf(A[k - 1]) = {}
    <3>1. Step(NotFound, q[k]) = NotFound
      BY DEF Step, IsTree, NotFound
    <3> QED BY <1>1, <1>5, <2>2, <3>1, StepWith
  <2>3. \A j \in 0..Len(path) - 1 :
          \/ A[j] = Walked(doc, path)[j]
          \/ Walked(doc, path)[j] = NotFound /\ DOMAIN KidsOf(A[j]) = {}
    BY AboveVsWalk
  <2>4. k - 1 \in 0..Len(path) - 1
    BY <1>2
  <2> HIDE DEF A
  <2> QED BY <2>1, <2>2, <2>3, <2>4
<1>8. Walked(after, q)[Len(q)] = Walked(doc, q)[Len(q)]
  <2> HIDE DEF after
  <2> QED BY <1>2, <1>7, SameWalk
<1> QED BY <1>8 DEF WalkTo

LEMMA FrontIs ==
  ASSUME NEW path \in Seq(STRING), path # <<>>
  PROVE  /\ Front(path) \in Seq(STRING) /\ Len(Front(path)) = Len(path) - 1
         /\ \A i \in 1..(Len(path) - 1) : Front(path)[i] = path[i]
<1> DEFINE n == Len(path) - 1
<1>1. 1 \in Int /\ n \in Nat /\ n \in Int /\ \A i \in 1..n : path[i] \in STRING
  OBVIOUS
<1> HIDE DEF n
<1>2. /\ SubSeq(path, 1, n) \in Seq(STRING)
      /\ Len(SubSeq(path, 1, n)) = IF 1 <= n THEN n - 1 + 1 ELSE 0
      /\ \A i \in 1..(n - 1 + 1) : SubSeq(path, 1, n)[i] = path[1 + i - 1]
  BY <1>1, SubSeqProperties
<1>3. Len(SubSeq(path, 1, n)) = n /\ \A i \in 1..n : SubSeq(path, 1, n)[i] = path[i]
  BY <1>1, <1>2
<1> QED BY <1>2, <1>3 DEF Front, n

\* What is cut off is gone, unless it is an item of a list.
LEMMA CutReads ==
  ASSUME NEW doc, NEW path \in Seq(STRING), path # <<>>, ~ThroughList(doc, path)
  PROVE  WalkTo(Cut(doc, path), path) = NotFound
<1> DEFINE A == Above(doc, path)
           N == Len(path)
<1>1. N \in 1..N /\ N \in 0..N /\ N - 1 \in 0..N /\ DOMAIN path = 1..N /\ path[N] = Last(path)
  BY DEF Last
<1>2. CASE \E i \in DOMAIN path : path[i] \notin DOMAIN KidsOf(A[i - 1])
  <2>1. PICK i \in 1..N : path[i] \notin DOMAIN KidsOf(A[i - 1])
    BY <1>1, <1>2
  <2>2. i - 1 \in 0..N /\ i \in 0..N /\ N \in i..N
    BY <1>1
  <2>3. Walked(doc, path)[i] = Step(Walked(doc, path)[i - 1], path[i])
    BY WalkedIs
  <2>4. Walked(doc, path)[i] = NotFound
    <3>1. CASE Walked(doc, path)[i - 1] = NotFound
      <4>1. Step(NotFound, path[i]) = NotFound
        BY DEF Step, IsTree, NotFound
      <4> QED BY <2>3, <3>1, <4>1
    <3>2. CASE A[i - 1] = Walked(doc, path)[i - 1]
      <4>1. Walked(doc, path)[i - 1][1] # "array"
        BY <1>1 DEF ThroughList
      <4> QED BY <2>1, <2>3, <3>2, <4>1, StepIs
    <3> QED BY <2>2, <3>1, <3>2, AboveVsWalk
  <2>5. Walked(doc, path)[N] = NotFound
    <3> HIDE DEF N
    <3> QED BY <2>2, <2>4, NothingBelow DEF N
  <2>6. Cut(doc, path) = doc
    BY <1>2 DEF Cut
  <2> QED BY <2>5, <2>6 DEF WalkTo
<1>3. CASE ~ \E i \in DOMAIN path : path[i] \notin DOMAIN KidsOf(A[i - 1])
  <2> DEFINE left == Without(A[N - 1], Last(path))
             after == Grown(doc, Front(path), left)
  <2>1. Front(path) \in Seq(STRING) /\ Len(Front(path)) = N - 1
        /\ \A i \in 1..(N - 1) : Front(path)[i] = path[i]
    BY FrontIs
  <2>2. Cut(doc, path) = after
    BY <1>3 DEF Cut
  <2>3. WalkTo(after, Front(path)) = left
    BY <2>1, GrownReads
  <2>4. Walked(after, path)[N - 1] = left
    <3>1. Walked(after, Front(path))[N - 1] = Walked(after, path)[N - 1]
      <4> HIDE DEF after
      <4>1. N - 1 \in 0..Len(Front(path)) /\ N - 1 <= Len(path)
        BY <1>1, <2>1
      <4> QED BY <2>1, <4>1, SamePrefix
    <3> QED BY <2>1, <2>3, <3>1 DEF WalkTo
  <2>5. Walked(after, path)[N] = Step(left, path[N])
    <3>1. \A d : \A n \in 1..N : Walked(d, path)[n] = Step(Walked(d, path)[n - 1], path[n])
      BY WalkedIs
    <3> HIDE DEF after
    <3> QED BY <1>1, <2>4, <3>1
  <2>6. Step(left, path[N]) = NotFound
    BY <1>1, StepWithout
  <2> QED BY <2>2, <2>5, <2>6 DEF WalkTo
<1> QED BY <1>2, <1>3

\* A removal is not seen at a path that parts from the one removed.
LEMMA CutApart ==
  ASSUME NEW doc, NEW path \in Seq(STRING), path # <<>>, ~ThroughList(doc, path),
         NEW q \in Seq(STRING), Apart(path, q)
  PROVE  WalkTo(Cut(doc, path), q) = WalkTo(doc, q)
<1> DEFINE A == Above(doc, path)
           N == Len(path)
           left == Without(A[N - 1], Last(path))
           after == Grown(doc, Front(path), left)
<1>1. CASE \E i \in DOMAIN path : path[i] \notin DOMAIN KidsOf(A[i - 1])
  BY <1>1 DEF Cut
<1>2. CASE ~ \E i \in DOMAIN path : path[i] \notin DOMAIN KidsOf(A[i - 1])
  <2>1. Front(path) \in Seq(STRING) /\ Len(Front(path)) = N - 1
        /\ \A i \in 1..(N - 1) : Front(path)[i] = path[i]
    BY FrontIs
  <2>2. Cut(doc, path) = after
    BY <1>2 DEF Cut
  <2>3. N \in 1..N /\ N - 1 \in 0..N /\ DOMAIN path = 1..N /\ path[N] = Last(path)
        /\ DOMAIN Front(path) = 1..(N - 1) /\ DOMAIN q = 1..Len(q) /\ N \in Nat
    BY <2>1 DEF Last
  <2>4. CASE Apart(Front(path), q)
    <3>1. ~ThroughList(doc, Front(path))
      <4>1. ASSUME NEW i \in 1..(N - 1) PROVE Walked(doc, Front(path))[i - 1] = Walked(doc, path)[i - 1]
        <5> DEFINE n == i - 1
        <5>1. n \in 0..Len(Front(path)) /\ n <= Len(path) /\ \A j \in 1..n : Front(path)[j] = path[j]
          BY <2>1, <2>3
        <5> HIDE DEF n
        <5>2. Walked(doc, Front(path))[n] = Walked(doc, path)[n]
          BY <2>1, <5>1, SamePrefix
        <5> QED BY <5>2 DEF n
      <4> QED BY <2>3, <4>1 DEF ThroughList
    <3> QED BY <2>1, <2>2, <2>4, <3>1, GrownApart
  <2>5. CASE ~Apart(Front(path), q)
    <3>1. /\ N \in 1..Len(q) /\ path[N] # q[N]
          /\ \A j \in 1..(N - 1) : Front(path)[j] = q[j] /\ path[j] = q[j]
      <4>1. PICK d \in DOMAIN path \cap DOMAIN q : path[d] # q[d]
        BY DEF Apart
      <4>2. \A j \in DOMAIN Front(path) \cap DOMAIN q : Front(path)[j] = q[j]
        BY <2>5 DEF Apart
      <4> HIDE DEF N
      <4>3. d = N
        <5>1. CASE d \in 1..(N - 1)
          BY <2>1, <2>3, <4>1, <4>2, <5>1
        <5> QED BY <2>3, <4>1, <5>1
      <4>4. N \in 1..Len(q) /\ path[N] # q[N]
        BY <2>3, <4>1, <4>3
      <4>5. \A j \in 1..(N - 1) : j \in DOMAIN Front(path) \cap DOMAIN q
        BY <2>3, <4>4
      <4> QED BY <2>1, <4>2, <4>4, <4>5
    <3>2. /\ N - 1 \in 0..Len(Front(path)) /\ N - 1 <= Len(q) /\ N - 1 \in 0..Len(path)
          /\ N \in 0..Len(q) /\ Len(q) \in N..Len(q) /\ N <= Len(q)
      BY <2>1, <2>3, <3>1
    <3>3. WalkTo(after, Front(path)) = left
      BY <2>1, GrownReads
    <3>4. Walked(after, q)[N - 1] = left
      <4> HIDE DEF after
      <4>1. Walked(after, Front(path))[N - 1] = Walked(after, q)[N - 1]
        BY <2>1, <3>1, <3>2, SamePrefix
      <4> QED BY <2>1, <3>3, <4>1 DEF WalkTo
    <3>5. Walked(doc, path)[N - 1] = Walked(doc, q)[N - 1]
      BY <3>1, <3>2, SamePrefix
    <3>6. /\ Walked(after, q)[N] = Step(left, q[N])
          /\ Walked(doc, q)[N] = Step(Walked(doc, path)[N - 1], q[N])
      <4>1. \A d : \A n \in 1..Len(q) : Walked(d, q)[n] = Step(Walked(d, q)[n - 1], q[n])
        BY WalkedIs
      <4> HIDE DEF after
      <4> QED BY <3>1, <3>4, <3>5, <4>1
    <3>7. A[N - 1] = Walked(doc, path)[N - 1] /\ Walked(doc, path)[N - 1][1] # "array"
      <4>1. path[N] \in DOMAIN KidsOf(A[N - 1])
        BY <1>2, <2>3
      <4>2. A[N - 1] = Walked(doc, path)[N - 1]
        BY <2>3, <4>1, AboveVsWalk
      <4> QED BY <2>3, <4>2 DEF ThroughList
    <3>8. Walked(after, q)[N] = Walked(doc, q)[N]
      <4>1. Last(path) # q[N]
        BY <2>3, <3>1
      <4>2. Step(left, q[N]) = Step(A[N - 1], q[N])
        <5> HIDE DEF A, N
        <5> QED BY <3>7, <4>1, StepWithout
      <4> QED BY <3>6, <3>7, <4>2
    <3>9. Walked(after, q)[Len(q)] = Walked(doc, q)[Len(q)]
      <4> HIDE DEF after, N
      <4> QED BY <3>2, <3>8, SameWalk
    <3> QED BY <2>2, <3>9 DEF WalkTo
  <2> QED BY <2>4, <2>5
<1> QED BY <1>1, <1>2

-----------------------------------------------------------------------------
\* A walk or a write that begins with one segment

LEMMA TailIs ==
  ASSUME NEW path \in Seq(STRING), path # <<>>
  PROVE  /\ Tail(path) \in Seq(STRING) /\ Len(Tail(path)) = Len(path) - 1
         /\ Len(path) \in Nat \ {0} /\ path[1] \in STRING
         /\ \A i \in 1..(Len(path) - 1) : Tail(path)[i] = path[i + 1]
<1>1. Len(path) \in Nat \ {0} /\ 1 \in 1..Len(path)
  BY EmptySeq
<1> QED BY <1>1, HeadTailProperties

\* One function is ahead of the other by one.
Ahead(a, b, N) == \A m \in 0..N : a[m + 1] = b[m]
StaysAhead(a, b, N) == \A m \in 0..(N - 1) : a[m + 1] = b[m] => a[m + 2] = b[m + 1]

LEMMA SameFrom ==
  ASSUME NEW N \in Nat, NEW a, NEW b, a[1] = b[0], StaysAhead(a, b, N)
  PROVE  Ahead(a, b, N)
<1> DEFINE S == {m \in 0..N : a[m + 1] = b[m]}
<1>1. 0 \in S
  OBVIOUS
<1>2. \A m \in 0..(N - 1) : m \in S => m + 1 \in S
  <2> SUFFICES ASSUME NEW m \in 0..(N - 1), m \in S PROVE m + 1 \in S
    OBVIOUS
  <2>1. m + 1 \in 0..N /\ (m + 1) + 1 = m + 2
    OBVIOUS
  <2> QED BY <2>1 DEF StaysAhead
<1>3. \A m \in 0..N : m \in S
  <2> HIDE DEF S
  <2> QED BY <1>1, <1>2, UpTo
<1> QED BY <1>3 DEF Ahead

\* A walk is a step and the walk from there.
LEMMA WalkShift ==
  ASSUME NEW doc, NEW path \in Seq(STRING), path # <<>>, NEW n \in 1..Len(path)
  PROVE  Walked(doc, path)[n] = Walked(Step(doc, path[1]), Tail(path))[n - 1]
<1> DEFINE N == Len(path) - 1
           rest == Tail(path)
           a == Walked(doc, path)
           b == Walked(Step(doc, path[1]), rest)
<1>1. /\ rest \in Seq(STRING) /\ Len(rest) = N /\ N \in Nat /\ Len(path) = N + 1
      /\ \A i \in 1..N : rest[i] = path[i + 1]
  BY TailIs
<1>2. a[0] = doc /\ \A m \in 1..(N + 1) : a[m] = Step(a[m - 1], path[m])
  BY <1>1, WalkedIs
<1>3. b[0] = Step(doc, path[1]) /\ \A m \in 1..N : b[m] = Step(b[m - 1], rest[m])
  <2> HIDE DEF rest
  <2> QED BY <1>1, WalkedIs
<1>4. n \in 1..(N + 1)
  BY <1>1
<1> HIDE DEF a, b, N, rest
<1>5. a[1] = b[0]
  <2>1. 1 \in 1..(N + 1) /\ 1 - 1 = 0
    BY <1>1
  <2>2. a[1] = Step(a[0], path[1])
    BY <1>2, <2>1
  <2> QED BY <1>2, <1>3, <2>2
<1>6. ASSUME NEW m \in 0..(N - 1), a[m + 1] = b[m] PROVE a[m + 2] = b[m + 1]
  <2>1. m + 1 \in 1..N /\ m + 2 \in 1..(N + 1) /\ (m + 1) - 1 = m /\ (m + 2) - 1 = m + 1 /\ (m + 1) + 1 = m + 2
    BY <1>1
  <2>2. a[m + 2] = Step(a[m + 1], path[m + 2])
    BY <1>2, <2>1
  <2>3. b[m + 1] = Step(b[m], rest[m + 1])
    BY <1>3, <2>1
  <2> QED BY <1>1, <1>6, <2>1, <2>2, <2>3
<1>7. \A m \in 0..N : a[m + 1] = b[m]
  <2>1. StaysAhead(a, b, N)
    BY <1>6 DEF StaysAhead
  <2>2. Ahead(a, b, N)
    BY <1>1, <1>5, <2>1, SameFrom
  <2> QED BY <2>2 DEF Ahead
<1>8. n - 1 \in 0..N /\ (n - 1) + 1 = n
  BY <1>1, <1>4
<1>9. a[n] = b[n - 1]
  BY <1>7, <1>8
<1> QED BY <1>9 DEF a, b, rest

LEMMA AboveShift ==
  ASSUME NEW doc, NEW path \in Seq(STRING), path # <<>>, NEW n \in 1..Len(path)
  PROVE  Above(doc, path)[n] = Above(KidAt(doc, path[1]), Tail(path))[n - 1]
<1> DEFINE N == Len(path) - 1
           rest == Tail(path)
           a == Above(doc, path)
           b == Above(KidAt(doc, path[1]), rest)
<1>1. /\ rest \in Seq(STRING) /\ Len(rest) = N /\ N \in Nat /\ Len(path) = N + 1
      /\ \A i \in 1..N : rest[i] = path[i + 1]
  BY TailIs
<1>2. a[0] = doc /\ \A m \in 1..(N + 1) : a[m] = KidAt(a[m - 1], path[m])
  BY <1>1, AboveIs
<1>3. b[0] = KidAt(doc, path[1]) /\ \A m \in 1..N : b[m] = KidAt(b[m - 1], rest[m])
  <2> HIDE DEF rest
  <2> QED BY <1>1, AboveIs
<1>4. n \in 1..(N + 1)
  BY <1>1
<1> HIDE DEF a, b, N, rest
<1>5. a[1] = b[0]
  <2>1. 1 \in 1..(N + 1) /\ 1 - 1 = 0
    BY <1>1
  <2>2. a[1] = KidAt(a[0], path[1])
    BY <1>2, <2>1
  <2> QED BY <1>2, <1>3, <2>2
<1>6. ASSUME NEW m \in 0..(N - 1), a[m + 1] = b[m] PROVE a[m + 2] = b[m + 1]
  <2>1. m + 1 \in 1..N /\ m + 2 \in 1..(N + 1) /\ (m + 1) - 1 = m /\ (m + 2) - 1 = m + 1 /\ (m + 1) + 1 = m + 2
    BY <1>1
  <2>2. a[m + 2] = KidAt(a[m + 1], path[m + 2])
    BY <1>2, <2>1
  <2>3. b[m + 1] = KidAt(b[m], rest[m + 1])
    BY <1>3, <2>1
  <2> QED BY <1>1, <1>6, <2>1, <2>2, <2>3
<1>7. \A m \in 0..N : a[m + 1] = b[m]
  <2>1. StaysAhead(a, b, N)
    BY <1>6 DEF StaysAhead
  <2>2. Ahead(a, b, N)
    BY <1>1, <1>5, <2>1, SameFrom
  <2> QED BY <2>2 DEF Ahead
<1>8. n - 1 \in 0..N /\ (n - 1) + 1 = n
  BY <1>1, <1>4
<1>9. a[n] = b[n - 1]
  BY <1>7, <1>8
<1> QED BY <1>9 DEF a, b, rest

LEMMA RaisedStarts ==
  ASSUME NEW above, NEW path \in Seq(STRING), NEW v
  PROVE  Raised(above, path, v)[0] = v
  BY RaisedIs

\* A write is a write into the kid that it passes first.
LEMMA GrownShift ==
  ASSUME NEW doc, NEW path \in Seq(STRING), path # <<>>, NEW v
  PROVE  Grown(doc, path, v) = With(doc, path[1], Grown(KidAt(doc, path[1]), Tail(path), v))
<1> DEFINE N == Len(path) - 1
           rest == Tail(path)
           up == Above(doc, path)
           over == Above(KidAt(doc, path[1]), rest)
           a == Raised(up, path, v)
           b == Raised(over, rest, v)
           S == {m \in 0..N : a[m] = b[m]}
<1>1. /\ rest \in Seq(STRING) /\ Len(rest) = N /\ N \in Nat /\ Len(path) = N + 1
      /\ \A i \in 1..N : rest[i] = path[i + 1]
  BY TailIs
<1>2. a[0] = v /\ \A m \in 1..(N + 1) : a[m] = With(up[(N + 1) - m], path[(N + 1) - m + 1], a[m - 1])
  <2> HIDE DEF up
  <2> QED BY <1>1, RaisedIs
<1>3. b[0] = v /\ \A m \in 1..N : b[m] = With(over[N - m], rest[N - m + 1], b[m - 1])
  <2> HIDE DEF over, rest, N
  <2>3. rest \in Seq(STRING)
    BY <1>1
  <2>1. \A m \in 1..Len(rest) : b[m] = With(over[Len(rest) - m], rest[Len(rest) - m + 1], b[m - 1])
    BY <2>3, RaisedIs
  <2>2. b[0] = v
    BY <1>1, RaisedStarts
  <2> QED BY <1>1, <2>1, <2>2
<1>4. \A m \in 1..(N + 1) : up[m] = over[m - 1]
  BY <1>1, AboveShift
<1>5. up[0] = doc
  BY AboveIs
<1>6. Grown(doc, path, v) = a[N + 1] /\ Grown(KidAt(doc, path[1]), Tail(path), v) = b[N]
  BY <1>1 DEF Grown
<1> HIDE DEF a, b, N, rest, up, over
<1>7. ASSUME NEW m \in 0..(N - 1), a[m] = b[m] PROVE a[m + 1] = b[m + 1]
  <2>1. /\ m + 1 \in 1..N /\ m + 1 \in 1..(N + 1) /\ (m + 1) - 1 = m /\ (N + 1) - (m + 1) \in 1..(N + 1)
        /\ ((N + 1) - (m + 1)) - 1 = N - (m + 1) /\ N - (m + 1) + 1 \in 1..N
        /\ (N - (m + 1) + 1) + 1 = (N + 1) - (m + 1) + 1
    BY <1>1
  <2>2. a[m + 1] = With(up[(N + 1) - (m + 1)], path[(N + 1) - (m + 1) + 1], a[m])
    BY <1>2, <2>1
  <2>3. b[m + 1] = With(over[N - (m + 1)], rest[N - (m + 1) + 1], b[m])
    BY <1>3, <2>1
  <2>4. up[(N + 1) - (m + 1)] = over[N - (m + 1)]
    BY <1>4, <2>1
  <2>5. rest[N - (m + 1) + 1] = path[(N + 1) - (m + 1) + 1]
    BY <1>1, <2>1
  <2> QED BY <1>7, <2>2, <2>3, <2>4, <2>5
<1>8. \A m \in 0..N : m \in S
  <2>1. 0 \in S
    BY <1>1, <1>2, <1>3
  <2>2. \A m \in 0..(N - 1) : m \in S => m + 1 \in S
    <3>1. \A m \in 0..(N - 1) : m \in 0..N /\ m + 1 \in 0..N
      BY <1>1
    <3> QED BY <1>7, <3>1
  <2> HIDE DEF S
  <2> QED BY <1>1, <2>1, <2>2, UpTo
<1>9. a[N] = b[N]
  <2>1. N \in 0..N
    BY <1>1
  <2> QED BY <1>8, <2>1
<1>10. a[N + 1] = With(doc, path[1], a[N])
  <2>1. N + 1 \in 1..(N + 1) /\ (N + 1) - (N + 1) = 0 /\ 0 + 1 = 1 /\ (N + 1) - 1 = N
    BY <1>1
  <2>2. a[N + 1] = With(up[(N + 1) - (N + 1)], path[(N + 1) - (N + 1) + 1], a[(N + 1) - 1])
    BY <1>2, <2>1
  <2> QED BY <1>5, <2>1, <2>2
<1> QED BY <1>6, <1>9, <1>10

LEMMA GrownHere == ASSUME NEW doc, NEW v PROVE Grown(doc, <<>>, v) = v
<1>1. <<>> \in Seq(STRING) /\ Len(<<>>) = 0
  OBVIOUS
<1>2. Raised(Above(doc, <<>>), <<>>, v)[0] = v
  BY <1>1, RaisedStarts
<1> QED BY <1>1, <1>2 DEF Grown

-----------------------------------------------------------------------------
(* Searching a graph                                                        *)

\* The nodes a search has seen; the edges from nodes it has not visited; a graph with finitely
\* many edges; a set no edge leaves
Visits(s) == s.visited \cup Range(s.queue)
Left(graph, visited) == {e \in Edges(graph) : e[1] \notin visited}
FiniteGraph(graph) == IsFiniteSet(DOMAIN graph) /\ \A n \in DOMAIN graph : IsFiniteSet(graph[n])
ClosedUnder(graph, set) == \A n \in set : Adjacent(graph, n) \subseteq set

\* SetToSeq lists a finite set, each member once.
LEMMA SequenceOfSet ==
  ASSUME NEW S, IsFiniteSet(S)
  PROVE  /\ SetToSeq(S) \in Seq(S) /\ Len(SetToSeq(S)) = Cardinality(S) /\ Cardinality(S) \in Nat
         /\ Range(SetToSeq(S)) = S
<1> DEFINE n == Cardinality(S)
           f == SetToSeq(S)
<1>1. n \in Nat /\ ExistsBijection(1..n, S)
  BY FS_CardinalityType
<1> HIDE DEF n
<1>2. \E g \in [1..n -> S] : IsInjective(g)
  <2>1. PICK g \in Bijection(1..n, S) : TRUE
    BY <1>1 DEF ExistsBijection
  <2>2. g \in [1..n -> S] /\ \A a, b \in 1..n : g[a] = g[b] => a = b
    BY <2>1 DEF Bijection, Injection, Surjection, IsInjective
  <2> QED BY <2>2 DEF IsInjective
<1>3. f \in [1..n -> S] /\ IsInjective(f)
  BY <1>2 DEF SetToSeq, n
<1> HIDE DEF f
<1>4. f \in Surjection(1..n, S)
  <2>1. f \in Injection(1..n, S)
    BY <1>3 DEF Injection
  <2>2. Cardinality(1..n) = Cardinality(S)
    BY <1>1, FS_Interval DEF n
  <2> QED BY <2>1, <2>2, FS_Injection
<1>5. f \in Seq(S) /\ Len(f) = n
  BY <1>1, <1>3
<1>6. Range(f) = S
  BY <1>4 DEF Range, Surjection
<1> QED BY <1>1, <1>5, <1>6 DEF n, f

\* What a sequence holds is its head and what its tail holds,
LEMMA RangeOfTail ==
  ASSUME NEW S, NEW q \in Seq(S), q # <<>>
  PROVE  /\ Head(q) \in S /\ Tail(q) \in Seq(S) /\ Len(Tail(q)) = Len(q) - 1
         /\ Range(q) = {Head(q)} \cup Range(Tail(q))
<1> DEFINE n == Len(q)
           t == Tail(q)
<1>1. /\ Head(q) \in S /\ t \in Seq(S) /\ Len(t) = n - 1 /\ n \in Nat /\ n # 0
      /\ Head(q) = q[1] /\ \A i \in 1..(n - 1) : t[i] = q[i + 1]
  BY HeadTailProperties, LenProperties
<1>2. Range(q) = {q[i] : i \in 1..n} /\ Range(t) = {t[i] : i \in 1..(n - 1)}
  <2>1. DOMAIN q = 1..n /\ DOMAIN t = 1..Len(t)
    BY <1>1, LenProperties
  <2>2. DOMAIN t = 1..(n - 1)
    BY <1>1, <2>1
  <2> HIDE DEF t, n
  <2> QED BY <2>1, <2>2 DEF Range
<1> HIDE DEF t, n
<1>3. \A i \in 1..(n - 1) : i + 1 \in 1..n
  BY <1>1
<1>4. \A i \in 1..n : i = 1 \/ (i - 1 \in 1..(n - 1) /\ (i - 1) + 1 = i)
  BY <1>1
<1>5. \A i \in 1..n : i = 1 \/ (i - 1 \in 1..(n - 1) /\ t[i - 1] = q[i])
  BY <1>1, <1>4
<1>6. 1 \in 1..n
  BY <1>1
<1>7. {q[i] : i \in 1..n} = {q[1]} \cup {t[i] : i \in 1..(n - 1)}
  <2>1. \A i \in 1..(n - 1) : t[i] \in {q[k] : k \in 1..n}
    BY <1>1, <1>3
  <2>2. \A i \in 1..n : q[i] \in {q[1]} \cup {t[k] : k \in 1..(n - 1)}
    BY <1>5
  <2> QED BY <1>6, <2>1, <2>2
<1> QED BY <1>1, <1>2, <1>7 DEF t, n

\* and two sequences joined hold what either holds.
LEMMA RangeOfBoth ==
  ASSUME NEW S, NEW q \in Seq(S), NEW r \in Seq(S)
  PROVE  q \o r \in Seq(S) /\ Len(q \o r) = Len(q) + Len(r) /\ Range(q \o r) = Range(q) \cup Range(r)
<1> DEFINE m == Len(q)
           n == Len(r)
           u == q \o r
<1>1. /\ u \in Seq(S) /\ Len(u) = m + n /\ m \in Nat /\ n \in Nat
      /\ \A i \in 1..(m + n) : u[i] = IF i <= m THEN q[i] ELSE r[i - m]
  BY ConcatProperties, LenProperties
<1>2. Range(u) = {u[i] : i \in 1..(m + n)} /\ Range(q) = {q[i] : i \in 1..m} /\ Range(r) = {r[i] : i \in 1..n}
  BY <1>1 DEF Range
<1> HIDE DEF m, n, u
<1>3. \A i \in 1..m : i \in 1..(m + n) /\ u[i] = q[i]
  BY <1>1
<1>4. \A i \in 1..n : i + m \in 1..(m + n) /\ u[i + m] = r[i]
  BY <1>1
<1>5. \A i \in 1..(m + n) : i \in 1..m \/ (i - m \in 1..n /\ u[i] = r[i - m])
  BY <1>1
<1>6. {u[i] : i \in 1..(m + n)} = {q[i] : i \in 1..m} \cup {r[i] : i \in 1..n}
  BY <1>3, <1>4, <1>5
<1> QED BY <1>1, <1>2, <1>6 DEF m, n, u

\* A finite graph has finitely many edges,
LEMMA EdgesFinite ==
  ASSUME NEW graph, FiniteGraph(graph)
  PROVE  IsFiniteSet(Edges(graph)) /\ Cardinality(Edges(graph)) \in Nat
<1> DEFINE from == [n \in DOMAIN graph |-> {n} \X graph[n]]
           all == {{n} \X graph[n] : n \in DOMAIN graph}
<1>1. IsFiniteSet(all)
  <2>1. from \in Surjection(DOMAIN graph, all)
    BY DEF Surjection
  <2>2. IsFiniteSet(DOMAIN graph)
    BY DEF FiniteGraph
  <2> HIDE DEF from, all
  <2> QED BY <2>1, <2>2, FS_Surjection
<1>2. \A T \in all : IsFiniteSet(T)
  <2>1. \A n \in DOMAIN graph : IsFiniteSet({n} \X graph[n])
    <3> SUFFICES ASSUME NEW n \in DOMAIN graph PROVE IsFiniteSet({n} \X graph[n])
      OBVIOUS
    <3>1. IsFiniteSet({n}) /\ IsFiniteSet(graph[n])
      BY FS_Singleton DEF FiniteGraph
    <3> QED BY <3>1, FS_Product
  <2> QED BY <2>1
<1> HIDE DEF all
<1>3. IsFiniteSet(UNION all)
  BY <1>1, <1>2, FS_UNION
<1> QED BY <1>3, FS_CardinalityType DEF Edges, all

\* and visiting a node uses up those that leave it.
LEMMA LeftWithout ==
  ASSUME NEW graph, FiniteGraph(graph), NEW visited, NEW n, n \notin visited
  PROVE  /\ IsFiniteSet(Adjacent(graph, n)) /\ Cardinality(Adjacent(graph, n)) \in Nat
         /\ Cardinality(Left(graph, visited)) \in Nat
         /\ Cardinality(Left(graph, visited \cup {n})) + Cardinality(Adjacent(graph, n))
              = Cardinality(Left(graph, visited))
<1> DEFINE A == Adjacent(graph, n)
           L == Left(graph, visited)
           M == Left(graph, visited \cup {n})
           N == {n} \X A
<1>1. IsFiniteSet(A)
  BY FS_EmptySet DEF FiniteGraph, Adjacent
<1>2. IsFiniteSet(N) /\ Cardinality(N) = Cardinality(A)
  <2>1. IsFiniteSet({n}) /\ Cardinality({n}) = 1
    BY FS_Singleton
  <2>2. IsFiniteSet(N) /\ Cardinality(N) = 1 * Cardinality(A)
    BY <1>1, <2>1, FS_Product
  <2>3. Cardinality(A) \in Nat
    BY <1>1, FS_CardinalityType
  <2> HIDE DEF A, N
  <2> QED BY <2>2, <2>3
<1>3. IsFiniteSet(L) /\ IsFiniteSet(M)
  BY EdgesFinite, FS_Subset DEF Left
<1>4. L = M \cup N /\ M \cap N = {}
  <2>1. \A e \in Edges(graph) : e \in {e[1]} \X graph[e[1]] /\ e[1] \in DOMAIN graph
    BY DEF Edges
  <2>2. N \subseteq Edges(graph) /\ \A e \in N : e[1] = n
    BY DEF Edges, Adjacent
  <2>3. \A e \in Edges(graph) : e[1] = n => e \in N
    BY <2>1 DEF Adjacent
  <2> HIDE DEF N
  <2> QED BY <2>2, <2>3 DEF Left
<1> HIDE DEF A, L, M, N
<1>5. Cardinality(L) = Cardinality(M) + Cardinality(N) - Cardinality(M \cap N)
  BY <1>2, <1>3, <1>4, FS_Union
<1>6. Cardinality(M \cap N) = 0
  BY <1>4, FS_EmptySet
<1>7. Cardinality(A) \in Nat /\ Cardinality(M) \in Nat /\ Cardinality(L) \in Nat
  BY <1>1, <1>3, FS_CardinalityType
<1>8. Cardinality(M) + Cardinality(A) = Cardinality(L)
  BY <1>2, <1>5, <1>6, <1>7
<1> QED BY <1>1, <1>7, <1>8 DEF A, L, M

\* What holds after every turn, for a set other that holds the start and its members'
\* neighbours, with so many turns left
SearchInv(graph, start, other, s, left) ==
  /\ Range(start) \subseteq Visits(s) /\ Visits(s) \subseteq other /\ s.queue \in Seq(other)
  /\ \A n \in s.visited : Adjacent(graph, n) \subseteq Visits(s)
  /\ s.queue = <<>> \/ Len(s.queue) + Cardinality(Left(graph, s.visited)) <= left

\* A turn keeps the invariant: it takes a node off the queue, and what it adds it pays for
\* with the edges it uses up.
LEMMA TurnKeepsInv ==
  ASSUME NEW graph, FiniteGraph(graph), NEW start, NEW other, ClosedUnder(graph, other),
         NEW s, NEW left \in Int, SearchInv(graph, start, other, s, left)
  PROVE  SearchInv(graph, start, other, Turn(graph, s), left - 1)
<1> DEFINE t == Turn(graph, s)
           n == Head(s.queue)
<1>1. /\ Range(start) \subseteq Visits(s) /\ Visits(s) \subseteq other /\ s.queue \in Seq(other)
      /\ \A k \in s.visited : Adjacent(graph, k) \subseteq Visits(s)
      /\ Visits(s) = s.visited \cup Range(s.queue)
  BY DEF SearchInv, Visits
<1>2. CASE s.queue = <<>>
  BY <1>2 DEF Turn, SearchInv
<1>3. CASE s.queue # <<>>
  <2>1. /\ n \in other /\ Tail(s.queue) \in Seq(other) /\ Len(Tail(s.queue)) = Len(s.queue) - 1
        /\ Range(s.queue) = {n} \cup Range(Tail(s.queue))
    BY <1>1, <1>3, RangeOfTail
  <2>2. Len(s.queue) + Cardinality(Left(graph, s.visited)) <= left
    BY <1>3 DEF SearchInv
  <2>3. Len(s.queue) \in Nat
    BY <1>1
  <2>4. CASE n \in s.visited
    <3>1. t.queue = Tail(s.queue) /\ t.visited = s.visited
      BY <1>3, <2>4 DEF Turn
    <3> HIDE DEF t, n
    <3>2. Visits(t) = Visits(s)
      BY <1>1, <2>1, <2>4, <3>1 DEF Visits
    <3>3. Len(t.queue) + Cardinality(Left(graph, t.visited)) <= left - 1
      <4>1. Cardinality(Left(graph, s.visited)) \in Nat
        BY EdgesFinite, FS_Subset, FS_CardinalityType DEF Left
      <4> QED BY <2>1, <2>2, <2>3, <3>1, <4>1
    <3>4. SearchInv(graph, start, other, t, left - 1)
      BY <1>1, <2>1, <3>1, <3>2, <3>3 DEF SearchInv
    <3> QED BY <3>4 DEF t
  <2>5. CASE n \notin s.visited
    <3> DEFINE A == Adjacent(graph, n)
               r == SetToSeq(A)
    <3>1. t.queue = Tail(s.queue) \o r /\ t.visited = s.visited \cup {n}
      BY <1>3, <2>5 DEF Turn
    <3>2. /\ IsFiniteSet(A) /\ Cardinality(A) \in Nat /\ Cardinality(Left(graph, s.visited)) \in Nat
          /\ Cardinality(Left(graph, s.visited \cup {n})) + Cardinality(A) = Cardinality(Left(graph, s.visited))
          /\ Cardinality(Left(graph, s.visited \cup {n})) \in Nat
      <4>1. Cardinality(Left(graph, s.visited \cup {n})) \in Nat
        BY EdgesFinite, FS_Subset, FS_CardinalityType DEF Left
      <4> QED BY <2>5, <4>1, LeftWithout
    <3>3. A \subseteq other
      BY <2>1 DEF ClosedUnder
    <3> HIDE DEF t, n, A
    <3>4. r \in Seq(A) /\ Len(r) = Cardinality(A) /\ Range(r) = A
      BY <3>2, SequenceOfSet
    <3>5. r \in Seq(other)
      BY <3>3, <3>4
    <3> HIDE DEF r
    <3>6. /\ t.queue \in Seq(other) /\ Len(t.queue) = Len(Tail(s.queue)) + Len(r)
          /\ Range(t.queue) = Range(Tail(s.queue)) \cup A
      <4> DEFINE q == Tail(s.queue)
      <4>1. q \in Seq(other)
        BY <2>1
      <4> HIDE DEF q
      <4>2. q \o r \in Seq(other) /\ Len(q \o r) = Len(q) + Len(r) /\ Range(q \o r) = Range(q) \cup Range(r)
        BY <3>5, <4>1, RangeOfBoth
      <4> QED BY <3>1, <3>4, <4>2 DEF q
    <3>7. Visits(t) = Visits(s) \cup A
      BY <1>1, <2>1, <3>1, <3>6 DEF Visits
    <3>8. Len(t.queue) + Cardinality(Left(graph, t.visited)) <= left - 1
      <4> DEFINE after == Cardinality(Left(graph, s.visited \cup {n}))
                 before == Cardinality(Left(graph, s.visited))
                 a == Cardinality(A)
      <4>1. Len(t.queue) = (Len(s.queue) - 1) + a
        BY <2>1, <3>4, <3>6
      <4>2. after + a = before /\ after \in Nat /\ a \in Nat /\ before \in Nat
        BY <3>2
      <4>3. Len(s.queue) + before <= left
        BY <2>2
      <4> HIDE DEF after, before, a
      <4>4. Len(t.queue) + after <= left - 1
        BY <2>3, <4>1, <4>2, <4>3
      <4> QED BY <3>1, <4>4 DEF after
    <3>9. \A k \in t.visited : Adjacent(graph, k) \subseteq Visits(t)
      <4>1. \A k \in s.visited : Adjacent(graph, k) \subseteq Visits(t)
        BY <1>1, <3>7
      <4>2. Adjacent(graph, n) \subseteq Visits(t)
        BY <3>7 DEF A
      <4> QED BY <3>1, <4>1, <4>2
    <3>10. SearchInv(graph, start, other, t, left - 1)
      BY <1>1, <3>3, <3>6, <3>7, <3>8, <3>9 DEF SearchInv
    <3> QED BY <3>10 DEF t
  <2> QED BY <2>4, <2>5
<1> QED BY <1>2, <1>3

\* The recursive function of the search exists, so it starts and steps as it is written.
LEMMA SearchedIs ==
  ASSUME NEW graph, NEW start, Turns(graph, start) \in Nat
  PROVE  /\ Searched(graph, start)[0] = [queue |-> start, visited |-> {}]
         /\ \A n \in 1..Turns(graph, start) :
              Searched(graph, start)[n] = Turn(graph, Searched(graph, start)[n - 1])
<1> DEFINE N == Turns(graph, start)
           begin == [queue |-> start, visited |-> {}]
           Is(f, m) == f = [n \in 0..m |-> IF n = 0 THEN begin ELSE Turn(graph, f[n - 1])]
           S == {m \in 0..N : \E f : Is(f, m)}
<1>1. N \in Nat
  OBVIOUS
<1>2. Searched(graph, start) = CHOOSE f : Is(f, N)
  BY DEF Searched
<1> HIDE DEF N, begin
<1>3. 0 \in S
  <2>1. Is([n \in 0..0 |-> begin], 0)
    OBVIOUS
  <2> HIDE DEF Is
  <2> QED BY <1>1, <2>1
<1>4. ASSUME NEW m \in 0..(N - 1), m \in S PROVE m + 1 \in S
  <2>1. PICK f : Is(f, m)
    BY <1>4
  <2> DEFINE g == [n \in 0..(m + 1) |-> IF n = m + 1 THEN Turn(graph, f[m]) ELSE f[n]]
  <2>2. \A n \in 0..(m + 1) : g[n] = IF n = 0 THEN begin ELSE Turn(graph, g[n - 1])
    <3> SUFFICES ASSUME NEW n \in 0..(m + 1)
                 PROVE  g[n] = IF n = 0 THEN begin ELSE Turn(graph, g[n - 1])
      OBVIOUS
    <3>1. CASE n = 0
      BY <1>4, <2>1, <3>1
    <3>2. CASE n = m + 1
      BY <1>4, <3>2
    <3>3. CASE n \in 1..m
      BY <1>4, <2>1, <3>3
    <3> QED BY <3>1, <3>2, <3>3
  <2>3. Is(g, m + 1)
    BY <2>2
  <2>4. m + 1 \in 0..N
    BY <1>1, <1>4
  <2> QED BY <2>3, <2>4
<1>5. \A m \in 0..N : m \in S
  <2> HIDE DEF S
  <2> QED BY <1>1, <1>3, <1>4, UpTo
<1>6. \E f : Is(f, N)
  <2> HIDE DEF Is
  <2> QED BY <1>1, <1>5
<1>7. Is(Searched(graph, start), N)
  BY <1>2, <1>6
<1> DEFINE D == Searched(graph, start)
<1> HIDE DEF D
<1>8. D[0] = begin /\ \A n \in 1..N : D[n] = Turn(graph, D[n - 1])
  <2>1. D = [n \in 0..N |-> IF n = 0 THEN begin ELSE Turn(graph, D[n - 1])]
    BY <1>7 DEF D
  <2>2. 0 \in 0..N /\ \A n \in 1..N : n \in 0..N /\ n # 0
    BY <1>1
  <2>3. D[0] = begin
    BY <2>1, <2>2
  <2>4. \A n \in 1..N : D[n] = Turn(graph, D[n - 1])
    BY <2>1, <2>2
  <2> QED BY <2>3, <2>4
<1> QED BY <1>8 DEF N, D, begin

\* When no turn is left, nothing waits.
LEMMA SearchEnds ==
  ASSUME NEW graph, FiniteGraph(graph), NEW S, NEW start \in Seq(S),
         NEW other, Range(start) \subseteq other, ClosedUnder(graph, other)
  PROVE  LET found == Search(graph, start)
         IN Range(start) \subseteq found /\ found \subseteq other /\ ClosedUnder(graph, found)
<1> DEFINE N == Turns(graph, start)
           D == Searched(graph, start)
           At(n) == SearchInv(graph, start, other, D[n], N - n)
           T == {n \in 0..N : At(n)}
<1>1. N \in Nat /\ N = Len(start) + Cardinality(Edges(graph))
  BY EdgesFinite DEF Turns
<1>2. D[0] = [queue |-> start, visited |-> {}] /\ \A n \in 1..N : D[n] = Turn(graph, D[n - 1])
  BY <1>1, SearchedIs
<1>3. Search(graph, start) = D[N].visited
  BY DEF Search
<1>4. At(0)
  <2> DEFINE s == [queue |-> start, visited |-> {}]
  <2>1. Left(graph, {}) = Edges(graph)
    BY DEF Left
  <2>2. start \in Seq(other)
    <3>1. Len(start) \in Nat /\ DOMAIN start = 1..Len(start) /\ start = [i \in 1..Len(start) |-> start[i]]
      BY LenProperties
    <3>2. \A i \in 1..Len(start) : start[i] \in other
      BY <3>1 DEF Range
    <3>3. [i \in 1..Len(start) |-> start[i]] \in Seq(other)
      BY <3>1, <3>2
    <3> QED BY <3>1, <3>3
  <2>3. Visits(s) = Range(start)
    BY DEF Visits
  <2>4. s.queue = start /\ s.visited = {}
    OBVIOUS
  <2>5. Len(start) + Cardinality(Left(graph, {})) <= N - 0
    BY <1>1, <2>1
  <2> HIDE DEF s
  <2>6. SearchInv(graph, start, other, s, N - 0)
    BY <2>2, <2>3, <2>4, <2>5 DEF SearchInv
  <2> QED BY <1>2, <2>6 DEF s
<1> HIDE DEF N, D
<1>5. ASSUME NEW n \in 0..(N - 1), At(n) PROVE At(n + 1)
  <2>1. n + 1 \in 1..N /\ (n + 1) - 1 = n /\ (N - n) - 1 = N - (n + 1) /\ N - n \in Int
    BY <1>1
  <2>2. D[n + 1] = Turn(graph, D[n])
    BY <1>2, <2>1
  <2>3. SearchInv(graph, start, other, Turn(graph, D[n]), (N - n) - 1)
    BY <1>5, <2>1, TurnKeepsInv
  <2> QED BY <2>1, <2>2, <2>3
<1>6. \A n \in 0..N : n \in T
  <2> HIDE DEF At
  <2>1. 0 \in T
    BY <1>1, <1>4
  <2>2. \A n \in 0..(N - 1) : n \in T => n + 1 \in T
    <3>1. \A n \in 0..(N - 1) : n + 1 \in 0..N
      BY <1>1
    <3> QED BY <1>5, <3>1
  <2> HIDE DEF T
  <2> QED BY <1>1, <2>1, <2>2, UpTo
<1>7. SearchInv(graph, start, other, D[N], 0)
  <2>1. N \in 0..N /\ N - N = 0
    BY <1>1
  <2>2. At(N)
    <3> HIDE DEF At
    <3> QED BY <1>6, <2>1
  <2> QED BY <2>1, <2>2
<1>8. D[N].queue = <<>>
  <2>1. Cardinality(Left(graph, D[N].visited)) \in Nat
    BY EdgesFinite, FS_Subset, FS_CardinalityType DEF Left
  <2>2. D[N].queue \in Seq(other) /\ (D[N].queue = <<>> \/ Len(D[N].queue) + Cardinality(Left(graph, D[N].visited)) <= 0)
    BY <1>7 DEF SearchInv
  <2>3. D[N].queue = <<>> \/ Len(D[N].queue) = 0
    BY <2>1, <2>2
  <2> QED BY <2>2, <2>3, EmptySeq
<1>9. Visits(D[N]) = D[N].visited
  BY <1>8 DEF Visits, Range
<1> QED BY <1>3, <1>7, <1>9 DEF SearchInv, ClosedUnder

\* graph.reachable finds the start and what edges lead to from there, and nothing else: the
\* least set that holds the start and its members' neighbours, for any finite graph, cycles
\* and nodes without an entry included.
THEOREM SearchFindsReachable ==
  ASSUME NEW graph, FiniteGraph(graph), NEW S, NEW start \in Seq(S)
  PROVE  LET found == Search(graph, start)
         IN /\ Range(start) \subseteq found /\ ClosedUnder(graph, found)
            /\ \A other : Range(start) \subseteq other /\ ClosedUnder(graph, other) => found \subseteq other
<1> DEFINE all == Range(start) \cup UNION {graph[n] : n \in DOMAIN graph}
<1>1. ClosedUnder(graph, all)
  BY DEF ClosedUnder, Adjacent
<1>2. Range(start) \subseteq Search(graph, start) /\ ClosedUnder(graph, Search(graph, start))
  BY <1>1, SearchEnds
<1>3. \A other : Range(start) \subseteq other /\ ClosedUnder(graph, other) => Search(graph, start) \subseteq other
  BY SearchEnds
<1> QED BY <1>2, <1>3
=============================================================================
