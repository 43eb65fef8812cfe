--------------------------- MODULE BindingsProofs ---------------------------
(* Bindings implements Environments, for any variables, values and objects,    *)
(* and checkpoints nested to any depth.                                        *)
EXTENDS Bindings, SequenceTheorems, TLAPS

-----------------------------------------------------------------------------
(* Lemmas about the stack a table and its frames stand for *)

\* One environment more than there are checkpoints.
LEMMA StackType ==
  ASSUME NEW env \in Environment, NEW fs \in Seq(SUBSET Vars)
  PROVE  /\ Stack(env, fs) \in Seq(Environment)
         /\ Len(Stack(env, fs)) = Len(fs) + 1
         /\ \A k \in 1..Len(fs) + 1 : \A v \in Vars :
              Stack(env, fs)[k][v] =
                IF \E j \in k..Len(fs) : v \in fs[j] THEN Unbound ELSE env[v]
<1>1. Len(fs) \in Nat
  OBVIOUS
<1>2. ASSUME NEW k \in 1..Len(fs) + 1
      PROVE  EnvironmentAt(env, fs, k) \in Environment
  BY DEF EnvironmentAt, Undone, Environment
<1>3. ASSUME NEW k \in 1..Len(fs) + 1, NEW v \in Vars
      PROVE  EnvironmentAt(env, fs, k)[v] =
               IF \E j \in k..Len(fs) : v \in fs[j] THEN Unbound ELSE env[v]
  BY DEF EnvironmentAt, Undone
<1>4. QED
  BY <1>1, <1>2, <1>3 DEF Stack

\* The last of them is the table itself.
LEMMA StackTop ==
  ASSUME NEW env \in Environment, NEW fs \in Seq(SUBSET Vars)
  PROVE  Stack(env, fs)[Len(fs) + 1] = env
<1>1. Len(fs) \in Nat /\ Len(fs) + 1 \in 1..Len(fs) + 1
  OBVIOUS
<1>2. \A v \in Vars : Stack(env, fs)[Len(fs) + 1][v] = env[v]
  BY <1>1, StackType
<1>3. Stack(env, fs)[Len(fs) + 1] \in Environment
  BY <1>1, StackType
<1>4. QED
  BY <1>2, <1>3 DEF Environment

\* Two environments that agree on every variable are the same.
LEMMA SameEnvironment ==
  ASSUME NEW e \in Environment, NEW f \in Environment, \A v \in Vars : e[v] = f[v]
  PROVE  e = f
  BY DEF Environment

\* Two stacks hold the same environment at a height if the same variables are
\* taken away there and the tables agree on the others.
Taken(fs, k, v) == \E j \in k..Len(fs) : v \in fs[j]

\* The environment at a height is what the table leaves of the frames from there upward.
LEMMA SameHeight ==
  ASSUME NEW e \in Environment, NEW fs \in Seq(SUBSET Vars),
         NEW f \in Environment, NEW gs \in Seq(SUBSET Vars),
         NEW k \in 1..Len(fs) + 1, k <= Len(gs) + 1,
         \A v \in Vars : (IF Taken(fs, k, v) THEN Unbound ELSE e[v])
                         = (IF Taken(gs, k, v) THEN Unbound ELSE f[v])
  PROVE  Stack(e, fs)[k] = Stack(f, gs)[k]
<1>1. Len(fs) \in Nat /\ Len(gs) \in Nat /\ k \in 1..Len(gs) + 1
  OBVIOUS
<1>2. Stack(e, fs)[k] \in Environment /\ Stack(f, gs)[k] \in Environment
  <2>1. Stack(e, fs) \in Seq(Environment) /\ Len(Stack(e, fs)) = Len(fs) + 1
    BY StackType
  <2>2. Stack(f, gs) \in Seq(Environment) /\ Len(Stack(f, gs)) = Len(gs) + 1
    BY StackType
  <2>3. QED
    BY <1>1, <2>1, <2>2
<1>3. ASSUME NEW v \in Vars
      PROVE  Stack(e, fs)[k][v] = Stack(f, gs)[k][v]
  <2>1. Stack(e, fs)[k][v] = IF \E j \in k..Len(fs) : v \in fs[j] THEN Unbound ELSE e[v]
    BY StackType
  <2>2. Stack(f, gs)[k][v] = IF \E j \in k..Len(gs) : v \in gs[j] THEN Unbound ELSE f[v]
    BY <1>1, StackType
  <2>3. QED
    BY <2>1, <2>2 DEF Taken
<1>4. QED
  BY <1>2, <1>3, SameEnvironment

\* save(): the table is kept, and goes on.
LEMMA PushedStack ==
  ASSUME NEW env \in Environment, NEW fs \in Seq(SUBSET Vars)
  PROVE  /\ Append(fs, {}) \in Seq(SUBSET Vars)
         /\ Stack(env, Append(fs, {})) = Append(Stack(env, fs), env)
<1> DEFINE gs == Append(fs, {})
           s == Stack(env, fs)
           t == Stack(env, gs)
<1>1. /\ gs \in Seq(SUBSET Vars)
      /\ Len(gs) = Len(fs) + 1
      /\ \A j \in 1..Len(fs) : gs[j] = fs[j]
      /\ gs[Len(fs) + 1] = {}
  BY AppendProperties
<1> HIDE DEF gs
<1>2. Len(fs) \in Nat
  OBVIOUS
<1>3. s \in Seq(Environment) /\ Len(s) = Len(fs) + 1
  BY StackType
<1>4. t \in Seq(Environment) /\ Len(t) = Len(fs) + 2
  BY <1>1, <1>2, StackType
<1>5. /\ Append(s, env) \in Seq(Environment)
      /\ Len(Append(s, env)) = Len(s) + 1
      /\ \A k \in 1..Len(s) : Append(s, env)[k] = s[k]
      /\ Append(s, env)[Len(s) + 1] = env
  BY <1>3, AppendProperties
<1>6. ASSUME NEW k \in 1..Len(fs) + 1
      PROVE  t[k] = s[k]
  <2>1. \A v \in Vars : Taken(gs, k, v) <=> Taken(fs, k, v)
    BY <1>1, <1>2 DEF Taken
  <2>2. QED
    BY <1>1, <1>2, <2>1, SameHeight
<1>7. t[Len(fs) + 2] = env
  BY <1>1, <1>2, StackTop
<1>8. \A k \in 1..Len(t) : t[k] = Append(s, env)[k]
  BY <1>2, <1>3, <1>4, <1>5, <1>6, <1>7
<1>9. t = Append(s, env)
  BY <1>3, <1>4, <1>5, <1>8, SeqEqual
<1>10. QED
  BY <1>1, <1>9 DEF gs

-----------------------------------------------------------------------------
(* Lemmas about the undo stack *)

\* Without its last element ...
LEMMA BelowProperties ==
  ASSUME NEW S, NEW s \in Seq(S), Len(s) > 0
  PROVE  /\ Below(s) \in Seq(S)
         /\ Len(Below(s)) = Len(s) - 1
         /\ \A k \in 1..Len(s) - 1 : Below(s)[k] = s[k]
<1>1. 1 \in Int /\ Len(s) - 1 \in Nat /\ \A k \in 1..Len(s) - 1 : s[k] \in S
  OBVIOUS
<1>2. /\ SubSeq(s, 1, Len(s) - 1) \in Seq(S)
      /\ Len(SubSeq(s, 1, Len(s) - 1)) =
           IF 1 <= Len(s) - 1 THEN Len(s) - 1 - 1 + 1 ELSE 0
      /\ \A k \in 1..Len(s) - 1 - 1 + 1 : SubSeq(s, 1, Len(s) - 1)[k] = s[1 + k - 1]
  BY <1>1, SubSeqProperties
<1>3. Len(s) - 1 - 1 + 1 = Len(s) - 1 /\ \A k \in 1..Len(s) - 1 : 1 + k - 1 = k
  BY <1>1
<1>4. \A k \in 1..Len(s) - 1 : SubSeq(s, 1, Len(s) - 1)[k] = s[k]
  BY <1>2, <1>3
<1>5. QED
  BY <1>1, <1>2, <1>3, <1>4 DEF Below

\* ... and with more variables noted in its last frame.
LEMMA NotedProperties ==
  ASSUME NEW fs \in Seq(SUBSET Vars), Len(fs) > 0, NEW vs \in SUBSET Vars
  PROVE  /\ Noted(fs, vs) \in Seq(SUBSET Vars)
         /\ Len(Noted(fs, vs)) = Len(fs)
         /\ \A k \in 1..Len(fs) - 1 : Noted(fs, vs)[k] = fs[k]
         /\ Noted(fs, vs)[Len(fs)] = fs[Len(fs)] \cup vs
<1>1. Len(fs) \in 1..Len(fs) /\ fs[Len(fs)] \cup vs \in SUBSET Vars
  OBVIOUS
<1>2. QED
  BY <1>1, ExceptSeq DEF Noted

\* commit(): the last frame is added to the one below.
LEMMA MergedFrames ==
  ASSUME NEW fs \in Seq(SUBSET Vars), Len(fs) > 1
  PROVE  /\ Noted(Below(fs), fs[Len(fs)]) \in Seq(SUBSET Vars)
         /\ Len(Noted(Below(fs), fs[Len(fs)])) = Len(fs) - 1
         /\ \A j \in 1..Len(fs) - 2 : Noted(Below(fs), fs[Len(fs)])[j] = fs[j]
         /\ Noted(Below(fs), fs[Len(fs)])[Len(fs) - 1] = fs[Len(fs) - 1] \cup fs[Len(fs)]
<1> DEFINE gs == Noted(Below(fs), fs[Len(fs)])
<1>1. Len(fs) \in Nat /\ fs[Len(fs)] \in SUBSET Vars
  OBVIOUS
<1>2. /\ Below(fs) \in Seq(SUBSET Vars)
      /\ Len(Below(fs)) = Len(fs) - 1
      /\ \A j \in 1..Len(fs) - 1 : Below(fs)[j] = fs[j]
  BY <1>1, BelowProperties
<1>3. /\ gs \in Seq(SUBSET Vars)
      /\ Len(gs) = Len(Below(fs))
      /\ \A j \in 1..Len(Below(fs)) - 1 : gs[j] = Below(fs)[j]
      /\ gs[Len(Below(fs))] = Below(fs)[Len(Below(fs))] \cup fs[Len(fs)]
  <2>1. Below(fs) \in Seq(SUBSET Vars) /\ Len(Below(fs)) > 0
    BY <1>1, <1>2
  <2>2. QED
    BY <1>1, <2>1, NotedProperties
<1> HIDE DEF gs
<1>4. /\ gs \in Seq(SUBSET Vars)
      /\ Len(gs) = Len(fs) - 1
      /\ \A j \in 1..Len(fs) - 2 : gs[j] = fs[j]
      /\ gs[Len(fs) - 1] = fs[Len(fs) - 1] \cup fs[Len(fs)]
  BY <1>1, <1>2, <1>3
<1>5. QED
  BY <1>4 DEF gs

\* restore(): the environment below the last one is back.
LEMMA PoppedStack ==
  ASSUME NEW env \in Environment, NEW fs \in Seq(SUBSET Vars), Len(fs) > 0
  PROVE  /\ Undone(env, fs[Len(fs)]) \in Environment
         /\ Stack(Undone(env, fs[Len(fs)]), Below(fs)) = Below(Stack(env, fs))
<1> DEFINE e == Undone(env, fs[Len(fs)])
           gs == Below(fs)
           s == Stack(env, fs)
           t == Stack(e, gs)
<1>1. /\ gs \in Seq(SUBSET Vars)
      /\ Len(gs) = Len(fs) - 1
      /\ \A j \in 1..Len(fs) - 1 : gs[j] = fs[j]
  BY BelowProperties
<1>2. Len(fs) \in Nat
  OBVIOUS
<1>3. e \in Environment
  BY DEF Undone, Environment
<1>4. \A v \in Vars : e[v] = IF v \in fs[Len(fs)] THEN Unbound ELSE env[v]
  BY DEF Undone
<1> HIDE DEF e, gs
<1>5. s \in Seq(Environment) /\ Len(s) = Len(fs) + 1
  BY StackType
<1>6. t \in Seq(Environment) /\ Len(t) = Len(fs)
  BY <1>1, <1>2, <1>3, StackType
<1>7. /\ Below(s) \in Seq(Environment)
      /\ Len(Below(s)) = Len(fs)
      /\ \A k \in 1..Len(fs) : Below(s)[k] = s[k]
  BY <1>2, <1>5, BelowProperties
<1>8. ASSUME NEW k \in 1..Len(fs)
      PROVE  t[k] = s[k]
  <2>1. \A v \in Vars : Taken(fs, k, v) <=> Taken(gs, k, v) \/ v \in fs[Len(fs)]
    BY <1>1, <1>2 DEF Taken
  <2>2. \A v \in Vars : (IF Taken(gs, k, v) THEN Unbound ELSE e[v])
                         = (IF Taken(fs, k, v) THEN Unbound ELSE env[v])
    BY <1>4, <2>1
  <2>3. k \in 1..Len(gs) + 1 /\ k <= Len(fs) + 1
    BY <1>1, <1>2
  <2>4. QED
    BY <1>1, <1>3, <2>2, <2>3, SameHeight
<1>9. \A k \in 1..Len(t) : t[k] = Below(s)[k]
  BY <1>6, <1>7, <1>8
<1>10. t = Below(s)
  BY <1>2, <1>6, <1>7, <1>9, SeqEqual
<1>11. QED
  BY <1>3, <1>10 DEF e, gs

\* commit() of an inner checkpoint: the environment below the last one is
\* dropped, the ones further down stay.
LEMMA MergedStack ==
  ASSUME NEW env \in Environment, NEW fs \in Seq(SUBSET Vars), Len(fs) > 1
  PROVE  /\ Noted(Below(fs), fs[Len(fs)]) \in Seq(SUBSET Vars)
         /\ Len(Noted(Below(fs), fs[Len(fs)])) = Len(fs) - 1
         /\ Stack(env, Noted(Below(fs), fs[Len(fs)]))
              = [Below(Stack(env, fs)) EXCEPT ![Len(Below(Stack(env, fs)))] = env]
<1> DEFINE gs == Noted(Below(fs), fs[Len(fs)])
           s == Stack(env, fs)
           t == Stack(env, gs)
           u == [Below(s) EXCEPT ![Len(Below(s))] = env]
<1>1. Len(fs) \in Nat /\ fs[Len(fs)] \in SUBSET Vars
  OBVIOUS
<1>3. /\ gs \in Seq(SUBSET Vars)
      /\ Len(gs) = Len(fs) - 1
      /\ \A j \in 1..Len(fs) - 2 : gs[j] = fs[j]
      /\ gs[Len(fs) - 1] = fs[Len(fs) - 1] \cup fs[Len(fs)]
  BY MergedFrames
<1> HIDE DEF gs
<1>4. s \in Seq(Environment) /\ Len(s) = Len(fs) + 1
  BY StackType
<1>5. t \in Seq(Environment) /\ Len(t) = Len(fs)
  BY <1>1, <1>3, StackType
<1>6. /\ Below(s) \in Seq(Environment)
      /\ Len(Below(s)) = Len(fs)
      /\ \A k \in 1..Len(fs) : Below(s)[k] = s[k]
  BY <1>1, <1>4, BelowProperties
<1>7. /\ u \in Seq(Environment)
      /\ Len(u) = Len(fs)
      /\ \A k \in 1..Len(fs) - 1 : u[k] = s[k]
      /\ u[Len(fs)] = env
  BY <1>1, <1>6, ExceptSeq
<1> HIDE DEF u
<1>8. ASSUME NEW k \in 1..Len(fs) - 1
      PROVE  t[k] = s[k]
  <2>1. ASSUME NEW v \in Vars
        PROVE  Taken(gs, k, v) <=> Taken(fs, k, v)
    <3>1. Taken(gs, k, v) => Taken(fs, k, v)
      BY <1>1, <1>3 DEF Taken
    <3>2. ASSUME NEW j \in k..Len(fs), v \in fs[j]
          PROVE  Taken(gs, k, v)
      <4>1. CASE j = Len(fs)
        BY <1>1, <1>3, <3>2, <4>1 DEF Taken
      <4>2. CASE j < Len(fs)
        BY <1>1, <1>3, <3>2, <4>2 DEF Taken
      <4>3. QED
        BY <1>1, <4>1, <4>2
    <3>3. QED
      BY <3>1, <3>2 DEF Taken
  <2>2. k \in 1..Len(gs) + 1 /\ k <= Len(fs) + 1
    BY <1>1, <1>3
  <2>3. QED
    BY <1>3, <2>1, <2>2, SameHeight
<1>9. t[Len(fs)] = env
  BY <1>1, <1>3, StackTop
<1>10. \A k \in 1..Len(t) : t[k] = u[k]
  BY <1>1, <1>5, <1>7, <1>8, <1>9
<1>11. t = u
  BY <1>1, <1>5, <1>7, <1>10, SeqEqual
<1>12. QED
  BY <1>3, <1>11 DEF gs, u

\* commit() of the only checkpoint.
LEMMA FlattenedStack ==
  ASSUME NEW env \in Environment, NEW fs \in Seq(SUBSET Vars), Len(fs) = 1
  PROVE  /\ <<>> \in Seq(SUBSET Vars)
         /\ Stack(env, <<>>)
              = [Below(Stack(env, fs)) EXCEPT ![Len(Below(Stack(env, fs)))] = env]
<1> DEFINE s == Stack(env, fs)
           t == Stack(env, <<>>)
           u == [Below(s) EXCEPT ![Len(Below(s))] = env]
<1>1. <<>> \in Seq(SUBSET Vars) /\ Len(<<>>) = 0
  BY EmptySeq
<1>2. t \in Seq(Environment) /\ Len(t) = 1 /\ t[1] = env
  <2> DEFINE none == <<>>
  <2>1. none \in Seq(SUBSET Vars) /\ Len(none) = 0
    BY <1>1
  <2> HIDE DEF none
  <2>2. /\ Stack(env, none) \in Seq(Environment)
        /\ Len(Stack(env, none)) = Len(none) + 1
    BY <2>1, StackType
  <2>3. Stack(env, none)[Len(none) + 1] = env
    BY <2>1, StackTop
  <2>4. /\ Stack(env, none) \in Seq(Environment)
        /\ Len(Stack(env, none)) = 1
        /\ Stack(env, none)[1] = env
    BY <2>1, <2>2, <2>3
  <2>5. QED
    BY <2>4 DEF none
<1>3. s \in Seq(Environment) /\ Len(s) = 2
  <2>1. s \in Seq(Environment) /\ Len(s) = Len(fs) + 1
    BY StackType
  <2>2. QED
    BY <2>1
<1> HIDE DEF s
<1>4. Below(s) \in Seq(Environment) /\ Len(Below(s)) = 1
  <2>0. Len(s) > 0
    BY <1>3
  <2>1. Below(s) \in Seq(Environment) /\ Len(Below(s)) = Len(s) - 1
    BY <1>3, <2>0, BelowProperties
  <2>2. QED
    BY <1>3, <2>1
<1>5. u \in Seq(Environment) /\ Len(u) = 1 /\ u[1] = env
  BY <1>4, ExceptSeq
<1> HIDE DEF t, u
<1>6. \A k \in 1..Len(t) : t[k] = u[k]
  BY <1>2, <1>5
<1>7. t = u
  BY <1>2, <1>5, <1>6, SeqEqual
<1>8. QED
  BY <1>1, <1>7 DEF s, t, u

\* bind() of an unbound variable: the environments below do not get it.
LEMMA BoundStack ==
  ASSUME NEW env \in Environment, NEW fs \in Seq(SUBSET Vars),
         NEW v \in Vars, NEW x \in Values, env[v] = Unbound, NEW e \in Environment,
         \A w \in Vars : e[w] = IF w = v THEN x ELSE env[w],
         NEW gs \in Seq(SUBSET Vars), Len(gs) = Len(fs),
         \A j \in 1..Len(fs) - 1 : gs[j] = fs[j],
         Len(fs) > 0 => gs[Len(fs)] = fs[Len(fs)] \cup {v}
  PROVE  Stack(e, gs) = [Stack(env, fs) EXCEPT ![Len(Stack(env, fs))] = e]
<1> DEFINE s == Stack(env, fs)
           t == Stack(e, gs)
           u == [s EXCEPT ![Len(s)] = e]
<1>1. Len(fs) \in Nat
  OBVIOUS
<1>2. e \in Environment /\ \A w \in Vars : e[w] = IF w = v THEN x ELSE env[w]
  OBVIOUS
<1>3. /\ gs \in Seq(SUBSET Vars)
      /\ Len(gs) = Len(fs)
      /\ \A j \in 1..Len(fs) - 1 : gs[j] = fs[j]
      /\ Len(fs) > 0 => gs[Len(fs)] = fs[Len(fs)] \cup {v}
  OBVIOUS
<1>4. s \in Seq(Environment) /\ Len(s) = Len(fs) + 1
  BY StackType
<1>5. t \in Seq(Environment) /\ Len(t) = Len(fs) + 1
  BY <1>2, <1>3, StackType
<1>6. /\ u \in Seq(Environment)
      /\ Len(u) = Len(fs) + 1
      /\ \A k \in 1..Len(fs) : u[k] = s[k]
      /\ u[Len(fs) + 1] = e
  BY <1>1, <1>2, <1>4, ExceptSeq
<1> HIDE DEF u
<1>7. ASSUME NEW k \in 1..Len(fs)
      PROVE  t[k] = s[k]
  <2>1. Taken(gs, k, v)
    BY <1>1, <1>3 DEF Taken
  <2>2. ASSUME NEW w \in Vars, w # v
        PROVE  Taken(gs, k, w) <=> Taken(fs, k, w)
    <3>1. \A j \in k..Len(fs) : w \in gs[j] <=> w \in fs[j]
      <4> SUFFICES ASSUME NEW j \in k..Len(fs)
                   PROVE  w \in gs[j] <=> w \in fs[j]
        OBVIOUS
      <4>1. CASE j = Len(fs)
        BY <1>1, <1>3, <2>2, <4>1
      <4>2. CASE j < Len(fs)
        BY <1>1, <1>3, <4>2
      <4>3. QED
        BY <1>1, <4>1, <4>2
    <3>2. QED
      BY <1>3, <3>1 DEF Taken
  <2>3. \A w \in Vars : (IF Taken(gs, k, w) THEN Unbound ELSE e[w])
                         = (IF Taken(fs, k, w) THEN Unbound ELSE env[w])
    BY <1>2, <2>1, <2>2
  <2>4. k \in 1..Len(gs) + 1 /\ k <= Len(fs) + 1
    BY <1>1, <1>3
  <2>5. QED
    BY <1>2, <1>3, <2>3, <2>4, SameHeight
<1>8. t[Len(fs) + 1] = e
  BY <1>2, <1>3, StackTop
<1>9. \A k \in 1..Len(t) : t[k] = u[k]
  BY <1>1, <1>5, <1>6, <1>7, <1>8
<1>10. t = u
  BY <1>1, <1>5, <1>6, <1>9, SeqEqual
<1>11. QED
  BY <1>10 DEF u

\* bind() notes the variable in the last frame, if there is one.
WithVar(fs, v) == IF Len(fs) = 0 THEN fs ELSE Noted(fs, {v})

\* A bound variable is added to the topmost frame, and only there.
LEMMA WithVarProperties ==
  ASSUME NEW fs \in Seq(SUBSET Vars), NEW v \in Vars
  PROVE  /\ WithVar(fs, v) \in Seq(SUBSET Vars)
         /\ Len(WithVar(fs, v)) = Len(fs)
         /\ \A j \in 1..Len(fs) - 1 : WithVar(fs, v)[j] = fs[j]
         /\ Len(fs) > 0 => WithVar(fs, v)[Len(fs)] = fs[Len(fs)] \cup {v}
<1>1. Len(fs) \in Nat /\ {v} \in SUBSET Vars
  OBVIOUS
<1>2. CASE Len(fs) = 0
  BY <1>1, <1>2 DEF WithVar
<1>3. CASE Len(fs) > 0
  <2> DEFINE hs == Noted(fs, {v})
  <2>1. /\ hs \in Seq(SUBSET Vars)
        /\ Len(hs) = Len(fs)
        /\ \A j \in 1..Len(fs) - 1 : hs[j] = fs[j]
        /\ hs[Len(fs)] = fs[Len(fs)] \cup {v}
    BY <1>1, <1>3, NotedProperties
  <2>2. WithVar(fs, v) = hs
    BY <1>1, <1>3 DEF WithVar
  <2> HIDE DEF hs
  <2>3. QED
    BY <2>1, <2>2
<1>4. Len(fs) = 0 \/ Len(fs) > 0
  BY <1>1
<1>5. QED
  BY <1>2, <1>3, <1>4

-----------------------------------------------------------------------------
(* Type correctness *)

\* What the type invariant rests on: a variable is listed once in all frames.
\* Otherwise restore() could unbind a variable that an outer frame lists.
Listed(env, fs) ==
  /\ \A k \in 1..Len(fs) : \A v \in fs[k] : env[v] # Unbound
  /\ \A j, k \in 1..Len(fs) : \A v \in Vars : v \in fs[j] /\ v \in fs[k] => j = k

Typed(env, fs) ==
  /\ env \in Environment
  /\ fs \in Seq(SUBSET Vars)
  /\ Len(fs) <= MaxDepth
  /\ Listed(env, fs)

TypeInv ==
  /\ values \in [Objects -> Environment]
  /\ undo \in [Objects -> Seq(SUBSET Vars)]
  /\ raised \in BOOLEAN
  /\ \A o \in Objects : Typed(values[o], undo[o])

\* No frame, so none lists an unbound variable.
LEMMA EmptyTyped ==
  ASSUME NEW env \in Environment
  PROVE  Typed(env, <<>>)
<1>1. <<>> \in Seq(SUBSET Vars) /\ Len(<<>>) = 0
  BY EmptySeq
<1>2. QED
  BY <1>1, DepthAssumption DEF Typed, Listed

\* save() adds a frame that lists nothing.
LEMMA SavedTyped ==
  ASSUME NEW env, NEW fs, Typed(env, fs), Len(fs) < MaxDepth
  PROVE  Typed(env, Append(fs, {}))
<1> DEFINE gs == Append(fs, {})
<1>1. env \in Environment /\ fs \in Seq(SUBSET Vars) /\ Len(fs) \in Nat
  BY DEF Typed
<1>2. /\ gs \in Seq(SUBSET Vars)
      /\ Len(gs) = Len(fs) + 1
      /\ \A j \in 1..Len(fs) : gs[j] = fs[j]
      /\ gs[Len(fs) + 1] = {}
  BY <1>1, AppendProperties
<1> HIDE DEF gs
<1>3. Listed(env, gs)
  <2>1. ASSUME NEW k \in 1..Len(gs)
        PROVE  gs[k] = {} \/ (k \in 1..Len(fs) /\ gs[k] = fs[k])
    <3>1. k = Len(fs) + 1 \/ k \in 1..Len(fs)
      BY <1>1, <1>2
    <3>2. QED
      BY <1>2, <3>1
  <2>2. QED
    BY <2>1 DEF Typed, Listed
<1>4. Len(gs) <= MaxDepth
  BY <1>1, <1>2, DepthAssumption
<1>5. QED
  BY <1>1, <1>2, <1>3, <1>4 DEF Typed, gs

\* bind() lists, in the topmost frame, a variable that no frame listed.
LEMMA BoundTyped ==
  ASSUME NEW env, NEW fs, Typed(env, fs),
         NEW v \in Vars, NEW x \in Values, env[v] = Unbound,
         NEW gs \in Seq(SUBSET Vars), Len(gs) = Len(fs),
         \A j \in 1..Len(fs) - 1 : gs[j] = fs[j],
         Len(fs) > 0 => gs[Len(fs)] = fs[Len(fs)] \cup {v}
  PROVE  Typed([env EXCEPT ![v] = x], gs)
<1> DEFINE e == [env EXCEPT ![v] = x]
<1>1. env \in Environment /\ fs \in Seq(SUBSET Vars) /\ Len(fs) \in Nat
  BY DEF Typed
<1>2. e \in Environment /\ \A w \in Vars : e[w] = IF w = v THEN x ELSE env[w]
  BY <1>1 DEF Environment
<1>3. x # Unbound
  BY UnboundAssumption
<1> HIDE DEF e
<1>4. ASSUME NEW k \in 1..Len(gs)
      PROVE  k \in 1..Len(fs) /\ (gs[k] = fs[k] \/ (k = Len(fs) /\ gs[k] = fs[k] \cup {v}))
  <2>1. k \in 1..Len(fs)
    BY <1>1
  <2>2. CASE k = Len(fs)
    BY <1>1, <2>1, <2>2
  <2>3. CASE k # Len(fs)
    <3>1. k \in 1..Len(fs) - 1
      BY <1>1, <2>1, <2>3
    <3>2. QED
      BY <2>1, <3>1
  <2>4. QED
    BY <2>2, <2>3
<1>5. \A k \in 1..Len(fs) : v \notin fs[k] /\ fs[k] \subseteq Vars
  BY <1>1 DEF Typed, Listed
<1>6. ASSUME NEW k \in 1..Len(gs), NEW w \in gs[k]
      PROVE  e[w] # Unbound
  BY <1>2, <1>3, <1>4, <1>5 DEF Typed, Listed
<1>7. ASSUME NEW j \in 1..Len(gs), NEW k \in 1..Len(gs), NEW w \in Vars,
             w \in gs[j], w \in gs[k]
      PROVE  j = k
  <2>1. CASE w = v
    <3>1. j = Len(fs)
      BY <1>4, <1>5, <1>7, <2>1
    <3>2. k = Len(fs)
      BY <1>4, <1>5, <1>7, <2>1
    <3>3. QED
      BY <3>1, <3>2
  <2>2. CASE w # v
    <3>1. j \in 1..Len(fs) /\ w \in fs[j]
      BY <1>4, <1>7, <2>2
    <3>2. k \in 1..Len(fs) /\ w \in fs[k]
      BY <1>4, <1>7, <2>2
    <3>3. QED
      BY <3>1, <3>2 DEF Typed, Listed
  <2>3. QED
    BY <2>1, <2>2
<1>8. Listed(e, gs)
  BY <1>6, <1>7 DEF Listed
<1>9. QED
  BY <1>2, <1>8 DEF Typed, e

\* restore() unbinds what only the frame it drops listed.
LEMMA RestoredTyped ==
  ASSUME NEW env, NEW fs, Typed(env, fs), Len(fs) > 0
  PROVE  Typed(Undone(env, fs[Len(fs)]), Below(fs))
<1> DEFINE e == Undone(env, fs[Len(fs)])
           gs == Below(fs)
<1>1. env \in Environment /\ fs \in Seq(SUBSET Vars) /\ Len(fs) \in Nat
  BY DEF Typed
<1>2. /\ gs \in Seq(SUBSET Vars)
      /\ Len(gs) = Len(fs) - 1
      /\ \A j \in 1..Len(fs) - 1 : gs[j] = fs[j]
  BY <1>1, BelowProperties
<1>3. e \in Environment
  BY <1>1 DEF Undone, Environment
<1>4. \A v \in Vars : e[v] = IF v \in fs[Len(fs)] THEN Unbound ELSE env[v]
  BY DEF Undone
<1> HIDE DEF e, gs
<1>5. ASSUME NEW k \in 1..Len(gs)
      PROVE  k \in 1..Len(fs) /\ k # Len(fs) /\ gs[k] = fs[k] /\ fs[k] \subseteq Vars
  <2>1. k \in 1..Len(fs) - 1 /\ k \in 1..Len(fs) /\ k # Len(fs)
    BY <1>1, <1>2
  <2>2. QED
    BY <1>1, <1>2, <2>1
<1>6. Len(fs) \in 1..Len(fs)
  BY <1>1
<1>7. ASSUME NEW k \in 1..Len(gs), NEW v \in gs[k]
      PROVE  e[v] # Unbound
  <2>1. k \in 1..Len(fs) /\ k # Len(fs) /\ v \in fs[k] /\ v \in Vars
    BY <1>5
  <2>2. v \notin fs[Len(fs)]
    BY <1>6, <2>1 DEF Typed, Listed
  <2>3. env[v] # Unbound
    BY <2>1 DEF Typed, Listed
  <2>4. QED
    BY <1>4, <2>1, <2>2, <2>3
<1>8. Listed(e, gs)
  BY <1>5, <1>7 DEF Typed, Listed
<1>9. Len(gs) <= MaxDepth
  BY <1>1, <1>2, DepthAssumption DEF Typed
<1>10. QED
  BY <1>2, <1>3, <1>8, <1>9 DEF Typed, e, gs

\* commit() moves variables down a frame, and unbinds none.
LEMMA MergedTyped ==
  ASSUME NEW env, NEW fs, Typed(env, fs), Len(fs) > 1
  PROVE  Typed(env, Noted(Below(fs), fs[Len(fs)]))
<1> DEFINE gs == Noted(Below(fs), fs[Len(fs)])
<1>1. /\ env \in Environment /\ fs \in Seq(SUBSET Vars) /\ Len(fs) \in Nat
      /\ Len(fs) \in 1..Len(fs) /\ Len(fs) - 1 \in 1..Len(fs)
  BY DEF Typed
<1>2. /\ gs \in Seq(SUBSET Vars)
      /\ Len(gs) = Len(fs) - 1
      /\ \A j \in 1..Len(fs) - 2 : gs[j] = fs[j]
      /\ gs[Len(fs) - 1] = fs[Len(fs) - 1] \cup fs[Len(fs)]
  BY <1>1, MergedFrames
<1> HIDE DEF gs
<1>3. ASSUME NEW k \in 1..Len(gs)
      PROVE  \/ k \in 1..Len(fs) - 2 /\ gs[k] = fs[k]
             \/ k = Len(fs) - 1 /\ gs[k] = fs[Len(fs) - 1] \cup fs[Len(fs)]
  <2>1. k \in 1..Len(fs) - 2 \/ k = Len(fs) - 1
    BY <1>1, <1>2
  <2>2. QED
    BY <1>2, <2>1
<1>4. ASSUME NEW k \in 1..Len(gs), NEW v \in gs[k]
      PROVE  \E i \in 1..Len(fs) : v \in fs[i] /\ (k = i \/ (k = Len(fs) - 1 /\ i = Len(fs)))
  <2>1. CASE k \in 1..Len(fs) - 2 /\ gs[k] = fs[k]
    <3>1. k \in 1..Len(fs)
      BY <1>1, <2>1
    <3>2. v \in fs[k]
      BY <1>4, <2>1
    <3>3. QED
      BY <3>1, <3>2
  <2>2. CASE k = Len(fs) - 1 /\ v \in fs[Len(fs) - 1]
    BY <1>1, <2>2
  <2>3. CASE k = Len(fs) - 1 /\ v \in fs[Len(fs)]
    BY <1>1, <2>3
  <2>4. QED
    BY <1>3, <2>1, <2>2, <2>3
<1>5. ASSUME NEW k \in 1..Len(gs), NEW v \in gs[k]
      PROVE  env[v] # Unbound
  BY <1>4 DEF Typed, Listed
<1>6. ASSUME NEW j \in 1..Len(gs), NEW k \in 1..Len(gs), NEW v \in Vars,
             v \in gs[j], v \in gs[k]
      PROVE  j = k
  <2>1. PICK i \in 1..Len(fs) : v \in fs[i] /\ (j = i \/ (j = Len(fs) - 1 /\ i = Len(fs)))
    BY <1>4, <1>6
  <2>2. PICK l \in 1..Len(fs) : v \in fs[l] /\ (k = l \/ (k = Len(fs) - 1 /\ l = Len(fs)))
    BY <1>4, <1>6
  <2>3. i = l
    BY <2>1, <2>2 DEF Typed, Listed
  <2>4. j # Len(fs) /\ k # Len(fs)
    BY <1>1, <1>2
  <2>5. QED
    BY <2>1, <2>2, <2>3, <2>4
<1>7. Listed(env, gs)
  BY <1>5, <1>6 DEF Listed
<1>8. Len(gs) <= MaxDepth
  BY <1>1, <1>2, DepthAssumption DEF Typed
<1>9. QED
  BY <1>1, <1>2, <1>7, <1>8 DEF Typed, gs

-----------------------------------------------------------------------------
(* Every operation does to the stack what Environments says *)

\* An operation on p gives it the table e and the frames gs, and nobody else
\* anything.
LEMMA OneObject ==
  ASSUME TypeInv, NEW p \in Objects, NEW e, NEW gs, Typed(e, gs),
         values' = [values EXCEPT ![p] = e], undo' = [undo EXCEPT ![p] = gs],
         raised' \in BOOLEAN
  PROVE  TypeInv' /\ Envs' = [Envs EXCEPT ![p] = Stack(e, gs)]
<1>1. e \in Environment /\ gs \in Seq(SUBSET Vars)
  BY DEF Typed
<1>2. /\ values' \in [Objects -> Environment] /\ undo' \in [Objects -> Seq(SUBSET Vars)]
  BY <1>1 DEF TypeInv
<1>3. ASSUME NEW o \in Objects
      PROVE  /\ values'[o] = IF o = p THEN e ELSE values[o]
             /\ undo'[o] = IF o = p THEN gs ELSE undo[o]
  BY DEF TypeInv
<1>4. \A o \in Objects : Typed(values'[o], undo'[o])
  BY <1>3 DEF TypeInv
<1>5. TypeInv'
  BY <1>2, <1>4 DEF TypeInv
<1>6. \A o \in Objects : Stack(values'[o], undo'[o])
                         = IF o = p THEN Stack(e, gs) ELSE Stack(values[o], undo[o])
  BY <1>3
<1>7. Envs' = [Envs EXCEPT ![p] = Stack(e, gs)]
  BY <1>6 DEF Envs
<1>8. QED
  BY <1>5, <1>7

\* A bind() that raises or finds the value there already changes no object.
LEMMA NothingChanges ==
  ASSUME TypeInv, UNCHANGED <<values, undo>>, raised' \in BOOLEAN
  PROVE  TypeInv' /\ Envs' = Envs
  BY DEF TypeInv, Envs

\* What is known of an object before the operation.
LEMMA CurrentStack ==
  ASSUME TypeInv, NEW o \in Objects
  PROVE  /\ Typed(values[o], undo[o])
         /\ values[o] \in Environment
         /\ undo[o] \in Seq(SUBSET Vars)
         /\ Frames(o) \in Nat
         /\ Frames(o) = Len(undo[o])
         /\ Envs[o] = Stack(values[o], undo[o])
         /\ Len(Envs[o]) = Frames(o) + 1
         /\ Promise!Top(Envs[o]) = values[o]
<1>1. Typed(values[o], undo[o])
  BY DEF TypeInv
<1>2. values[o] \in Environment /\ undo[o] \in Seq(SUBSET Vars)
  BY <1>1 DEF Typed
<1>3. Envs[o] = Stack(values[o], undo[o])
  BY DEF Envs
<1>4. Len(Stack(values[o], undo[o])) = Len(undo[o]) + 1
  BY <1>2, StackType
<1>5. Stack(values[o], undo[o])[Len(undo[o]) + 1] = values[o]
  BY <1>2, StackTop
<1>6. Len(undo[o]) \in Nat
  BY <1>2
<1>7. QED
  BY <1>1, <1>2, <1>3, <1>4, <1>5, <1>6 DEF Frames, Promise!Top

\* The two modules drop the top of a stack alike.
LEMMA SameBelow ==
  ASSUME NEW s
  PROVE  Promise!Below(s) = Below(s)
  BY DEF Below, Promise!Below

\* bind() changes the top of its object's stack.
LEMMA BindStep ==
  ASSUME TypeInv, NEW o \in Objects, NEW v \in Vars, NEW x \in Values, Bind(o, v, x)
  PROVE  TypeInv' /\ Promise!Bind(o, v, x)
<1> DEFINE env == values[o]
           fs == undo[o]
<1>1. /\ Typed(env, fs) /\ env \in Environment /\ fs \in Seq(SUBSET Vars)
      /\ Frames(o) = Len(fs) /\ Envs[o] = Stack(env, fs) /\ Promise!Top(Envs[o]) = env
  BY CurrentStack
<1>2. x # Unbound
  BY UnboundAssumption
<1>3. CASE env[v] # Unbound
  <2>1. raised' = (env[v] # x) /\ UNCHANGED <<values, undo>>
    BY <1>3 DEF Bind
  <2>2. TypeInv' /\ Envs' = Envs
    BY <2>1, NothingChanges
  <2>3. raised' = (env[v] \notin {Unbound, x})
    BY <1>3, <2>1
  <2>4. QED
    BY <1>1, <1>3, <2>2, <2>3 DEF Promise!Bind
<1>4. CASE env[v] = Unbound
  <2> DEFINE e == [env EXCEPT ![v] = x]
             gs == WithVar(fs, v)
  <2>1. values' = [values EXCEPT ![o] = e] /\ raised' = FALSE
    BY <1>4 DEF Bind
  <2>2. undo' = [undo EXCEPT ![o] = gs]
    <3>1. undo \in [Objects -> Seq(SUBSET Vars)]
      BY DEF TypeInv
    <3>2. undo' = IF Frames(o) = 0 THEN undo ELSE [undo EXCEPT ![o] = Noted(@, {v})]
      BY <1>4 DEF Bind
    <3>3. CASE Len(fs) = 0
      BY <1>1, <3>1, <3>2, <3>3 DEF WithVar
    <3>4. CASE Len(fs) # 0
      BY <1>1, <3>1, <3>2, <3>4 DEF WithVar
    <3>5. QED
      BY <3>3, <3>4
  <2>3. /\ gs \in Seq(SUBSET Vars)
        /\ Len(gs) = Len(fs)
        /\ \A j \in 1..Len(fs) - 1 : gs[j] = fs[j]
        /\ Len(fs) > 0 => gs[Len(fs)] = fs[Len(fs)] \cup {v}
    BY <1>1, WithVarProperties
  <2> HIDE DEF env, fs, gs
  <2>4. Typed(e, gs)
    BY <1>1, <1>4, <2>3, BoundTyped
  <2> HIDE DEF e
  <2>5. Stack(e, gs) = [Stack(env, fs) EXCEPT ![Len(Stack(env, fs))] = e]
    <3>1. e \in Environment /\ \A w \in Vars : e[w] = IF w = v THEN x ELSE env[w]
      BY <1>1 DEF e, Environment
    <3>2. QED
      BY <1>1, <1>4, <2>3, <3>1, BoundStack
  <2>6. TypeInv' /\ Envs' = [Envs EXCEPT ![o] = Stack(e, gs)]
    BY <2>1, <2>2, <2>4, OneObject
  <2>7. Stack(e, gs) = Promise!WithTop(Envs[o], e)
    BY <1>1, <2>5 DEF Promise!WithTop
  <2>8. e = [Promise!Top(Envs[o]) EXCEPT ![v] = x]
    BY <1>1 DEF e
  <2>9. Envs' = [Envs EXCEPT ![o] =
                   Promise!WithTop(@, [Promise!Top(@) EXCEPT ![v] = x])]
    BY <2>6, <2>7, <2>8
  <2>10. QED
    BY <1>1, <1>4, <2>1, <2>6, <2>9 DEF Promise!Bind
<1>5. QED
  BY <1>3, <1>4

\* save() pushes a copy of the top.
LEMMA SaveStep ==
  ASSUME TypeInv, NEW o \in Objects, Save(o)
  PROVE  TypeInv' /\ Promise!Save(o)
<1> DEFINE env == values[o]
           fs == undo[o]
           gs == Append(fs, {})
<1>1. /\ Typed(env, fs) /\ env \in Environment /\ fs \in Seq(SUBSET Vars)
      /\ Frames(o) = Len(fs) /\ Envs[o] = Stack(env, fs) /\ Promise!Top(Envs[o]) = env
  BY CurrentStack
<1>2. values' = [values EXCEPT ![o] = env] /\ undo' = [undo EXCEPT ![o] = gs]
      /\ raised' = FALSE /\ Len(fs) < MaxDepth
  BY <1>1 DEF Save, TypeInv
<1>3. Typed(env, gs)
  BY <1>1, <1>2, SavedTyped
<1>4. Stack(env, gs) = Append(Stack(env, fs), env)
  BY <1>1, PushedStack
<1> HIDE DEF env, fs, gs
<1>5. TypeInv' /\ Envs' = [Envs EXCEPT ![o] = Stack(env, gs)]
  BY <1>2, <1>3, OneObject
<1>6. Envs' = [Envs EXCEPT ![o] = Append(@, Promise!Top(@))]
  BY <1>1, <1>4, <1>5
<1>7. QED
  BY <1>2, <1>5, <1>6 DEF Promise!Save

\* restore() drops the top.
LEMMA RestoreStep ==
  ASSUME TypeInv, NEW o \in Objects, Restore(o)
  PROVE  TypeInv' /\ Promise!Restore(o)
<1> DEFINE env == values[o]
           fs == undo[o]
           e == Undone(env, fs[Len(fs)])
           gs == Below(fs)
<1>1. /\ Typed(env, fs) /\ env \in Environment /\ fs \in Seq(SUBSET Vars)
      /\ Frames(o) = Len(fs) /\ Len(fs) \in Nat
      /\ Envs[o] = Stack(env, fs) /\ Len(Envs[o]) = Len(fs) + 1
  BY CurrentStack
<1>2. raised' = FALSE
  BY DEF Restore
<1>3. CASE Len(fs) = 0
  <2>1. UNCHANGED <<values, undo>>
    BY <1>1, <1>3 DEF Restore
  <2>2. TypeInv' /\ Envs' = Envs
    BY <1>2, <2>1, NothingChanges
  <2>3. QED
    BY <1>1, <1>2, <1>3, <2>2 DEF Promise!Restore
<1>4. CASE Len(fs) > 0
  <2>1. values' = [values EXCEPT ![o] = e] /\ undo' = [undo EXCEPT ![o] = gs]
    BY <1>1, <1>4 DEF Restore
  <2>2. Typed(e, gs)
    BY <1>1, <1>4, RestoredTyped
  <2>3. Stack(e, gs) = Below(Stack(env, fs))
    BY <1>1, <1>4, PoppedStack
  <2> HIDE DEF env, fs, e, gs
  <2>4. TypeInv' /\ Envs' = [Envs EXCEPT ![o] = Stack(e, gs)]
    BY <1>2, <2>1, <2>2, OneObject
  <2>5. Envs' = [Envs EXCEPT ![o] = Promise!Below(@)]
    BY <1>1, <2>3, <2>4, SameBelow
  <2>6. Len(Envs[o]) # 1
    BY <1>1, <1>4
  <2>7. QED
    BY <1>2, <2>4, <2>5, <2>6 DEF Promise!Restore
<1>5. QED
  BY <1>1, <1>3, <1>4

\* commit() drops the environment below the top.
LEMMA CommitStep ==
  ASSUME TypeInv, NEW o \in Objects, Commit(o)
  PROVE  TypeInv' /\ Promise!Commit(o)
<1> DEFINE env == values[o]
           fs == undo[o]
<1>1. /\ Typed(env, fs) /\ env \in Environment /\ fs \in Seq(SUBSET Vars)
      /\ Frames(o) = Len(fs) /\ Len(fs) \in Nat
      /\ Envs[o] = Stack(env, fs) /\ Len(Envs[o]) = Len(fs) + 1
      /\ Promise!Top(Envs[o]) = env
  BY CurrentStack
<1>2. raised' = FALSE /\ UNCHANGED values
  BY DEF Commit
<1>3. CASE Len(fs) = 0
  <2>1. UNCHANGED undo
    BY <1>1, <1>3 DEF Commit
  <2>2. TypeInv' /\ Envs' = Envs
    BY <1>2, <2>1, NothingChanges
  <2>3. QED
    BY <1>1, <1>2, <1>3, <2>2 DEF Promise!Commit
<1>4. CASE Len(fs) > 0
  <2>0. raised' \in BOOLEAN /\ (Len(fs) = 1 \/ Len(fs) > 1)
    <3>1. raised' \in BOOLEAN
      BY <1>2
    <3> HIDE DEF fs
    <3>2. Len(fs) = 1 \/ Len(fs) > 1
      BY <1>1, <1>4
    <3>3. QED
      BY <3>1, <3>2
  <2> DEFINE gs == IF Len(fs) = 1 THEN <<>> ELSE Noted(Below(fs), fs[Len(fs)])
  <2>1. values' = [values EXCEPT ![o] = env]
    BY <1>2 DEF TypeInv
  <2>2. undo' = [undo EXCEPT ![o] = gs]
    <3>1. undo' = IF Frames(o) = 1 THEN [undo EXCEPT ![o] = <<>>]
                  ELSE [undo EXCEPT ![o] = Noted(Below(@), @[Len(@)])]
      BY <1>1, <1>4 DEF Commit
    <3>2. CASE Len(fs) = 1
      BY <1>1, <3>1, <3>2
    <3>3. CASE Len(fs) # 1
      BY <1>1, <3>1, <3>3
    <3>4. QED
      BY <3>2, <3>3
  <2>3. /\ Typed(env, gs)
        /\ Stack(env, gs) = [Below(Stack(env, fs)) EXCEPT ![Len(Below(Stack(env, fs)))] = env]
    <3>1. CASE Len(fs) = 1
      <4>1. Typed(env, <<>>)
        BY <1>1, EmptyTyped
      <4>2. Stack(env, <<>>) = [Below(Stack(env, fs)) EXCEPT ![Len(Below(Stack(env, fs)))] = env]
        BY <1>1, <3>1, FlattenedStack
      <4>3. gs = <<>>
        BY <3>1
      <4> HIDE DEF gs
      <4>4. QED
        BY <4>1, <4>2, <4>3
    <3>2. CASE Len(fs) > 1
      <4> DEFINE hs == Noted(Below(fs), fs[Len(fs)])
      <4>1. Typed(env, hs)
        BY <1>1, <3>2, MergedTyped
      <4>2. Stack(env, hs) = [Below(Stack(env, fs)) EXCEPT ![Len(Below(Stack(env, fs)))] = env]
        BY <1>1, <3>2, MergedStack
      <4>3. gs = hs
        BY <1>1, <3>2
      <4> HIDE DEF gs, hs
      <4>4. QED
        BY <4>1, <4>2, <4>3
    <3>3. QED
      BY <2>0, <3>1, <3>2
  <2> HIDE DEF env, fs, gs
  <2>4. TypeInv' /\ Envs' = [Envs EXCEPT ![o] = Stack(env, gs)]
    <3>1. Typed(env, gs)
      BY <2>3
    <3>2. raised' \in BOOLEAN
      BY <2>0
    <3>3. QED
      BY <2>1, <2>2, <3>1, <3>2, OneObject
  <2>5. Stack(env, gs) = Promise!WithTop(Promise!Below(Envs[o]), Promise!Top(Envs[o]))
    BY <1>1, <2>3, SameBelow DEF Promise!WithTop
  <2>6. Envs' = [Envs EXCEPT ![o] = Promise!WithTop(Promise!Below(@), Promise!Top(@))]
    BY <2>4, <2>5
  <2>7. Len(Envs[o]) # 1
    BY <1>1, <1>4
  <2>8. QED
    BY <1>2, <2>4, <2>6, <2>7 DEF Promise!Commit
<1>5. QED
  BY <1>1, <1>3, <1>4

\* A table without bindings and frames stands for one empty environment.
LEMMA FreshStack ==
  /\ NothingBound \in Environment
  /\ Typed(NothingBound, <<>>)
  /\ Stack(NothingBound, <<>>) = <<Promise!NothingBound>>
<1>1. NothingBound \in Environment /\ NothingBound = Promise!NothingBound
  BY DEF NothingBound, Environment, Promise!NothingBound
<1> DEFINE none == <<>>
           s == Stack(NothingBound, none)
           t == <<NothingBound>>
<1>2. none \in Seq(SUBSET Vars) /\ Len(none) = 0
  BY EmptySeq
<1>3. t \in Seq(Environment) /\ Len(t) = 1 /\ t[1] = NothingBound
  BY <1>1
<1> HIDE DEF none, t
<1>4. s \in Seq(Environment) /\ Len(s) = Len(none) + 1
  BY <1>1, <1>2, StackType
<1>5. s[Len(none) + 1] = NothingBound
  BY <1>1, <1>2, StackTop
<1>6. \A k \in 1..Len(s) : s[k] = t[k]
  BY <1>2, <1>3, <1>4, <1>5
<1>7. s = t
  BY <1>2, <1>3, <1>4, <1>6, SeqEqual
<1>8. QED
  BY <1>1, <1>7, EmptyTyped DEF none, t

\* A new object is a stack of one empty environment.
LEMMA CreateStep ==
  ASSUME TypeInv, NEW o \in Objects, Create(o)
  PROVE  TypeInv' /\ Promise!Create(o)
<1>1. /\ values' = [values EXCEPT ![o] = NothingBound]
      /\ undo' = [undo EXCEPT ![o] = <<>>]
      /\ raised' = FALSE
  BY DEF Create
<1>2. TypeInv' /\ Envs' = [Envs EXCEPT ![o] = Stack(NothingBound, <<>>)]
  BY <1>1, FreshStack, OneObject
<1>3. QED
  BY <1>1, <1>2, FreshStack DEF Promise!Create

\* A copy is a stack of its own.
LEMMA CopyStep ==
  ASSUME TypeInv, NEW o \in Objects, NEW p \in Objects, Copy(o, p)
  PROVE  TypeInv' /\ Promise!Copy(o, p)
<1>1. /\ values' = [values EXCEPT ![p] = values[o]]
      /\ undo' = [undo EXCEPT ![p] = undo[o]]
      /\ raised' = FALSE
  BY DEF Copy
<1>2. Typed(values[o], undo[o]) /\ Envs[o] = Stack(values[o], undo[o])
  BY CurrentStack
<1>3. TypeInv' /\ Envs' = [Envs EXCEPT ![p] = Stack(values[o], undo[o])]
  BY <1>1, <1>2, OneObject
<1>4. QED
  BY <1>1, <1>2, <1>3 DEF Promise!Copy

-----------------------------------------------------------------------------
(* The specification *)

\* The initial tables stand for the initial stacks.
LEMMA InitStack == Init => TypeInv /\ Promise!Init
<1> SUFFICES ASSUME Init PROVE TypeInv /\ Promise!Init
  OBVIOUS
<1>1. /\ values = [o \in Objects |-> NothingBound]
      /\ undo = [o \in Objects |-> <<>>]
      /\ raised = FALSE
  BY DEF Init
<1>2. <<>> \in Seq(SUBSET Vars)
  BY EmptySeq
<1>3. TypeInv
  BY <1>1, <1>2, FreshStack DEF TypeInv
<1>4. Envs = [o \in Objects |-> <<Promise!NothingBound>>]
  BY <1>1, FreshStack DEF Envs
<1>5. QED
  BY <1>1, <1>3, <1>4 DEF Promise!Init

\* Every operation is an operation on the stacks.
LEMMA NextStack ==
  TypeInv /\ [Next]_vars => TypeInv' /\ [Promise!Next]_(Promise!vars)
<1> SUFFICES ASSUME TypeInv, [Next]_vars
             PROVE  TypeInv' /\ [Promise!Next]_(Promise!vars)
  OBVIOUS
<1>1. ASSUME NEW o \in Objects, NEW v \in Vars, NEW x \in Values, Bind(o, v, x)
      PROVE  TypeInv' /\ Promise!Next
  BY <1>1, BindStep DEF Promise!Next
<1>2. ASSUME NEW o \in Objects, Save(o)
      PROVE  TypeInv' /\ Promise!Next
  BY <1>2, SaveStep DEF Promise!Next
<1>3. ASSUME NEW o \in Objects, Restore(o)
      PROVE  TypeInv' /\ Promise!Next
  BY <1>3, RestoreStep DEF Promise!Next
<1>4. ASSUME NEW o \in Objects, Commit(o)
      PROVE  TypeInv' /\ Promise!Next
  BY <1>4, CommitStep DEF Promise!Next
<1>5. ASSUME NEW o \in Objects, Create(o)
      PROVE  TypeInv' /\ Promise!Next
  BY <1>5, CreateStep DEF Promise!Next
<1>6. ASSUME NEW o \in Objects, NEW p \in Objects, Copy(o, p)
      PROVE  TypeInv' /\ Promise!Next
  BY <1>6, CopyStep DEF Promise!Next
<1>7. CASE UNCHANGED vars
  <2>1. UNCHANGED <<values, undo>> /\ UNCHANGED raised
    BY <1>7 DEF vars
  <2>2. TypeInv' /\ Envs' = Envs
    BY <2>1, NothingChanges DEF TypeInv
  <2>3. QED
    BY <2>1, <2>2 DEF Promise!vars
<1>8. QED
  BY <1>1, <1>2, <1>3, <1>4, <1>5, <1>6, <1>7 DEF Next

\* Tables, frames and the depth of checkpoints are as TypeOK says, and a frame
\* lists bound variables only: what restore() removes was there.
THEOREM TypeCorrect == Spec => []TypeOK
<1>1. TypeInv => TypeOK
  <2> SUFFICES ASSUME TypeInv PROVE TypeOK
    OBVIOUS
  <2>1. \A o \in Objects : Len(undo[o]) <= MaxDepth
    BY DEF TypeInv, Typed
  <2>2. \A o \in Objects : \A k \in 1..Len(undo[o]) : \A v \in undo[o][k] :
          values[o][v] # Unbound
    BY DEF TypeInv, Typed, Listed
  <2>3. QED
    BY <2>1, <2>2 DEF TypeInv, TypeOK
<1>2. QED
  BY <1>1, InitStack, NextStack, PTL DEF Spec

\* The bindings of eval/unify.py are a stack of environments: bind(), save(),
\* restore(), commit() and copy() in any order and to any depth.
THEOREM Implements == Spec => BehavesAsStack
  BY InitStack, NextStack, PTL DEF Spec, BehavesAsStack, Promise!Spec
=============================================================================
