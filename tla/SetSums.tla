------------------------------- MODULE SetSums -------------------------------
(***************************************************************************)
(* Facts about MapThenSumSet, the sum of a number for every element of a   *)
(* finite set, which the scores, amounts and totals of the models are.     *)
(*                                                                         *)
(* The sum is a recursive function that picks the elements in an order     *)
(* nobody knows.  An induction over finite sets is the absence of a        *)
(* smallest set without the property (WFMin), the property being a set.    *)
(***************************************************************************)
EXTENDS Integers, FiniteSets, FiniteSetsExt, FiniteSetTheorems, WellFoundedInduction, TLAPS

\* Every finite set is good when each one is whose proper subsets all are.
LEMMA SetInduction ==
    ASSUME NEW S, IsFiniteSet(S), NEW Good,
           \A T \in SUBSET S : (\A U \in SUBSET T : U # T => U \in Good) => T \in Good
    PROVE  \A T \in SUBSET S : T \in Good
<1> DEFINE Bad == {T \in SUBSET S : T \notin Good}
<1>1. IsWellFoundedOn(StrictSubsetOrdering(S), SUBSET S)
  <2>1. FiniteSubsetsOf(S) = SUBSET S
      BY FS_FiniteSubsetsOfFinite
  <2> QED
      BY <2>1, FS_StrictSubsetOrderingWellFounded
<1>2. SUFFICES ASSUME Bad # {} PROVE FALSE
    OBVIOUS
<1>3. PICK T \in Bad : \A U \in Bad : ~ (<<U, T>> \in StrictSubsetOrdering(S))
  <2>1. Bad \subseteq SUBSET S
      OBVIOUS
  <2> HIDE DEF Bad
  <2> QED
      BY <1>1, <1>2, <2>1, WFMin
<1>4. ASSUME NEW U \in SUBSET T, U # T PROVE U \in Good
  <2>1. U \in SUBSET S /\ T \in SUBSET S
      OBVIOUS
  <2>2. <<U, T>> \in StrictSubsetOrdering(S)
      BY <1>4, <2>1 DEF StrictSubsetOrdering
  <2> QED
      BY <1>3, <2>1, <2>2
<1> QED
    BY <1>4

-----------------------------------------------------------------------------
(* The sum of w[x] for the x of a set                                      *)

Pick(s) == CHOOSE x \in s : TRUE
Unfolded(w, S, f) == [s \in SUBSET S |-> IF s = {} THEN 0 ELSE w[Pick(s)] + f[s \ {Pick(s)}]]
Iter(w, S) == CHOOSE f : f = Unfolded(w, S, f)
Total(w, S) == Iter(w, S)[S]

LEMMA Picked == ASSUME NEW s, s # {} PROVE Pick(s) \in s
BY DEF Pick

\* Two such functions agree where both are defined.
LEMMA IterUnique ==
    ASSUME NEW w, NEW U, NEW V \in SUBSET U, IsFiniteSet(V),
           NEW f, f = Unfolded(w, U, f), NEW g, g = Unfolded(w, V, g)
    PROVE  \A s \in SUBSET V : f[s] = g[s]
<1> DEFINE Good == {s \in SUBSET V : f[s] = g[s]}
<1>1. ASSUME NEW T \in SUBSET V, \A s \in SUBSET T : s # T => s \in Good
      PROVE  T \in Good
  <2>1. CASE T = {}
    <3>1. f[T] = 0 /\ g[T] = 0
        BY <2>1 DEF Unfolded
    <3> QED
        BY <3>1
  <2>2. CASE T # {}
    <3> DEFINE rest == T \ {Pick(T)}
    <3>1. rest \in SUBSET T /\ rest # T
        BY <2>2, Picked
    <3>2. f[rest] = g[rest]
        BY <1>1, <3>1
    <3>3. f[T] = Unfolded(w, U, f)[T] /\ g[T] = Unfolded(w, V, g)[T] /\ T \in SUBSET U
        OBVIOUS
    <3>4. f[T] = w[Pick(T)] + f[rest] /\ g[T] = w[Pick(T)] + g[rest]
        BY <2>2, <3>3 DEF Unfolded
    <3> QED
        BY <3>2, <3>4
  <2> QED
      BY <2>1, <2>2
<1>2. \A T \in SUBSET V : T \in Good
  <2> HIDE DEF Good
  <2> QED
      BY <1>1, SetInduction
<1> QED
    BY <1>2

\* There is such a function for every finite set.
LEMMA IterExists ==
    ASSUME NEW w, NEW S, IsFiniteSet(S)
    PROVE  \A T \in SUBSET S : Iter(w, T) = Unfolded(w, T, Iter(w, T))
<1> DEFINE Good == {T \in SUBSET S : Iter(w, T) = Unfolded(w, T, Iter(w, T))}
<1>1. ASSUME NEW T \in SUBSET S, \A U \in SUBSET T : U # T => U \in Good
      PROVE  T \in Good
  <2> DEFINE f == [s \in SUBSET T |-> IF s = {} THEN 0 ELSE w[Pick(s)] + Total(w, s \ {Pick(s)})]
  <2>1. ASSUME NEW s \in SUBSET T, s # T PROVE f[s] = Total(w, s)
    <3>1. Iter(w, s) = Unfolded(w, s, Iter(w, s))
        BY <1>1, <2>1
    <3>2. Iter(w, s)[s] = IF s = {} THEN 0 ELSE w[Pick(s)] + Iter(w, s)[s \ {Pick(s)}]
      <4>1. Iter(w, s)[s] = Unfolded(w, s, Iter(w, s))[s]
          BY <3>1
      <4> HIDE DEF Iter
      <4> QED
          BY <4>1 DEF Unfolded
    <3>3. CASE s = {}
        BY <3>2, <3>3 DEF Total
    <3>4. CASE s # {}
      <4> DEFINE rest == s \ {Pick(s)}
      <4>1. rest \in SUBSET s /\ rest \in SUBSET T /\ rest # T
          BY <2>1
      <4>2. Iter(w, rest) = Unfolded(w, rest, Iter(w, rest)) /\ IsFiniteSet(rest)
          BY <1>1, <4>1, FS_Subset
      <4>3. Iter(w, s)[rest] = Total(w, rest)
        <5> DEFINE F == Iter(w, s)  G == Iter(w, rest)
        <5>1. F = Unfolded(w, s, F) /\ G = Unfolded(w, rest, G)
            BY <3>1, <4>2
        <5>2. rest \in SUBSET s /\ rest \in SUBSET rest
            BY <4>1
        <5> HIDE DEF F, G, rest
        <5>3. F[rest] = G[rest]
            BY <4>2, <5>1, <5>2, IterUnique
        <5> QED
            BY <5>3 DEF Total, F, G
      <4> QED
          BY <2>1, <3>2, <3>4, <4>3 DEF Total
    <3> QED
        BY <3>3, <3>4
  <2>2. f = Unfolded(w, T, f)
    <3>1. ASSUME NEW s \in SUBSET T, s # {} PROVE f[s] = w[Pick(s)] + f[s \ {Pick(s)}]
      <4>1. s \ {Pick(s)} \in SUBSET T /\ s \ {Pick(s)} # T
          BY <3>1, Picked
      <4>2. f[s \ {Pick(s)}] = Total(w, s \ {Pick(s)})
          BY <2>1, <4>1
      <4> QED
          BY <3>1, <4>2
    <3>2. f[{}] = 0
        OBVIOUS
    <3>3. f = [s \in SUBSET T |-> f[s]]
        OBVIOUS
    <3> HIDE DEF f
    <3> QED
        BY <3>1, <3>2, <3>3 DEF Unfolded
  <2> HIDE DEF f
  <2> QED
      BY <2>2 DEF Iter
<1> HIDE DEF Good
<1>2. \A T \in SUBSET S : T \in Good
    BY <1>1, SetInduction
<1> QED
    BY <1>2 DEF Good

LEMMA TotalIs ==
    ASSUME NEW w, NEW S, IsFiniteSet(S), NEW f, f = Unfolded(w, S, f)
    PROVE  f[S] = Total(w, S)
<1> DEFINE G == Iter(w, S)
<1>1. G = Unfolded(w, S, G)
    BY IterExists
<1> HIDE DEF G
<1>2. \A s \in SUBSET S : f[s] = G[s]
    BY <1>1, IterUnique
<1>3. f[S] = G[S]
    BY <1>2
<1> QED
    BY <1>3 DEF Total, G

\* One element is picked and the rest is summed up.
LEMMA TotalUnfolds ==
    ASSUME NEW w, NEW S, IsFiniteSet(S)
    PROVE  Total(w, S) = IF S = {} THEN 0 ELSE w[Pick(S)] + Total(w, S \ {Pick(S)})
<1> DEFINE F == Iter(w, S)
<1>1. F = Unfolded(w, S, F)
    BY IterExists
<1>2. F[S] = IF S = {} THEN 0 ELSE w[Pick(S)] + F[S \ {Pick(S)}]
  <2>1. F[S] = Unfolded(w, S, F)[S]
      BY <1>1
  <2> HIDE DEF F
  <2> QED
      BY <2>1 DEF Unfolded
<1>3. CASE S # {}
  <2> DEFINE rest == S \ {Pick(S)}  G == Iter(w, rest)
  <2>1. rest \in SUBSET S /\ rest \in SUBSET rest /\ IsFiniteSet(rest)
      BY FS_Subset
  <2>2. G = Unfolded(w, rest, G)
      BY <2>1, IterExists
  <2> HIDE DEF F, G, rest
  <2>3. \A s \in SUBSET rest : F[s] = G[s]
      BY <1>1, <2>1, <2>2, IterUnique
  <2>4. F[rest] = G[rest]
      BY <2>1, <2>3
  <2> QED
      BY <1>2, <1>3, <2>4 DEF Total, F, G, rest
<1> QED
    BY <1>2, <1>3 DEF Total

LEMMA TotalOfEmpty == \A w : Total(w, {}) = 0
BY TotalUnfolds, FS_EmptySet

Weighs(w, S) == \A x \in S : w[x] \in Nat

LEMMA TotalType ==
    ASSUME NEW w, NEW S, IsFiniteSet(S), Weighs(w, S)
    PROVE  \A T \in SUBSET S : Total(w, T) \in Nat
<1> DEFINE Good == {T \in SUBSET S : Total(w, T) \in Nat}
<1>1. ASSUME NEW T \in SUBSET S, \A U \in SUBSET T : U # T => U \in Good
      PROVE  T \in Good
  <2>1. IsFiniteSet(T)
      BY FS_Subset
  <2>2. CASE T = {}
      BY <2>2, TotalOfEmpty
  <2>3. CASE T # {}
    <3>1. Pick(T) \in T /\ w[Pick(T)] \in Nat
        BY <2>3, Picked DEF Weighs
    <3>2. Total(w, T \ {Pick(T)}) \in Nat
        BY <1>1, <3>1
    <3> QED
        BY <2>1, <2>3, <3>1, <3>2, TotalUnfolds
  <2> QED
      BY <2>2, <2>3
<1> HIDE DEF Good
<1>2. \A T \in SUBSET S : T \in Good
    BY <1>1, SetInduction
<1> QED
    BY <1>2 DEF Good

\* It does not matter which element is picked.
LEMMA TotalOfAny ==
    ASSUME NEW w, NEW S, IsFiniteSet(S), Weighs(w, S)
    PROVE  \A T \in SUBSET S : \A x \in T : Total(w, T) = w[x] + Total(w, T \ {x})
<1> DEFINE Good == {T \in SUBSET S : \A x \in T : Total(w, T) = w[x] + Total(w, T \ {x})}
<1>1. ASSUME NEW T \in SUBSET S, \A U \in SUBSET T : U # T => U \in Good
      PROVE  T \in Good
  <2>1. ASSUME NEW x \in T PROVE Total(w, T) = w[x] + Total(w, T \ {x})
    <3> DEFINE p == Pick(T)
    <3>1. p \in T /\ IsFiniteSet(T)
        BY Picked, FS_Subset
    <3>2. Total(w, T) = w[p] + Total(w, T \ {p})
        BY <3>1, TotalUnfolds
    <3> HIDE DEF p
    <3>3. CASE x = p
        BY <3>2, <3>3
    <3>4. CASE x # p
      <4> DEFINE both == (T \ {p}) \ {x}
      <4>1. Total(w, T \ {p}) = w[x] + Total(w, both)
        <5>1. T \ {p} \in Good /\ x \in T \ {p}
            BY <1>1, <3>1, <3>4
        <5> QED
            BY <5>1
      <4>2. Total(w, T \ {x}) = w[p] + Total(w, both)
        <5>1. T \ {x} \in Good /\ p \in T \ {x}
            BY <1>1, <3>1, <3>4
        <5>2. both = (T \ {x}) \ {p}
            OBVIOUS
        <5> HIDE DEF both
        <5> QED
            BY <5>1, <5>2
      <4>3. w[x] \in Nat /\ w[p] \in Nat /\ Total(w, both) \in Nat
        <5>1. both \in SUBSET S
            OBVIOUS
        <5> HIDE DEF both
        <5> QED
            BY <3>1, <5>1, TotalType DEF Weighs
      <4> HIDE DEF both
      <4> QED
          BY <3>2, <4>1, <4>2, <4>3
    <3> QED
        BY <3>3, <3>4
  <2> QED
      BY <2>1
<1> HIDE DEF Good
<1>2. \A T \in SUBSET S : T \in Good
    BY <1>1, SetInduction
<1> QED
    BY <1>2 DEF Good

\* The sum of two sets that have nothing in common
LEMMA TotalOfUnion ==
    ASSUME NEW w, NEW S, IsFiniteSet(S), Weighs(w, S), NEW A \in SUBSET S
    PROVE  \A B \in SUBSET (S \ A) : Total(w, A \cup B) = Total(w, A) + Total(w, B)
<1> DEFINE rest == S \ A
           Good == {B \in SUBSET rest : Total(w, A \cup B) = Total(w, A) + Total(w, B)}
<1>0. IsFiniteSet(rest) /\ \A B \in SUBSET rest : B \in SUBSET S /\ A \cup B \in SUBSET S /\ A \cap B = {}
    BY FS_Subset
<1>1. ASSUME NEW T \in SUBSET rest, \A U \in SUBSET T : U # T => U \in Good
      PROVE  T \in Good
  <2>1. CASE T = {}
    <3>1. A \cup T = A /\ Total(w, T) = 0 /\ Total(w, A) \in Nat
        BY <2>1, TotalOfEmpty, TotalType
    <3>2. Total(w, A \cup T) = Total(w, A) + Total(w, T)
        BY <3>1
    <3> QED
        BY <3>2
  <2>2. CASE T # {}
    <3> DEFINE p == Pick(T)  less == T \ {p}
    <3>1. p \in T /\ less \in SUBSET T /\ less # T
        BY <2>2, Picked
    <3>2. T \in SUBSET S /\ A \cup T \in SUBSET S /\ less \in SUBSET S /\ A \cup less \in SUBSET S
        BY <1>0, <3>1
    <3>3. (A \cup T) \ {p} = A \cup less /\ p \in A \cup T
        BY <1>0, <3>1
    <3>4. Total(w, A \cup T) = w[p] + Total(w, A \cup less)
        BY <3>2, <3>3, TotalOfAny
    <3>5. Total(w, T) = w[p] + Total(w, less)
        BY <3>1, <3>2, TotalOfAny
    <3>6. Total(w, A \cup less) = Total(w, A) + Total(w, less)
        BY <1>1, <3>1
    <3>7. w[p] \in Nat /\ Total(w, A) \in Nat /\ Total(w, less) \in Nat
        BY <3>1, <3>2, TotalType DEF Weighs
    <3> HIDE DEF p, less
    <3>8. Total(w, A \cup T) = Total(w, A) + Total(w, T)
        BY <3>4, <3>5, <3>6, <3>7
    <3> QED
        BY <3>8
  <2> QED
      BY <2>1, <2>2
<1> HIDE DEF Good
<1>2. \A T \in SUBSET rest : T \in Good
  <2> HIDE DEF rest
  <2> QED
      BY <1>0, <1>1, SetInduction
<1> QED
    BY <1>2 DEF Good

\* A sum over sets that have nothing in common is the sum of these sets' sums.
LEMMA TotalOfParts ==
    ASSUME NEW w, NEW S, IsFiniteSet(S), Weighs(w, S),
           NEW P, IsFiniteSet(P), NEW part \in [P -> SUBSET S],
           \A g, h \in P : g # h => part[g] \cap part[h] = {},
           NEW v, \A g \in P : v[g] = Total(w, part[g])
    PROVE  \A T \in SUBSET P : Total(v, T) = Total(w, UNION {part[g] : g \in T})
<1> DEFINE Joint(T) == UNION {part[g] : g \in T}
           Good == {T \in SUBSET P : Total(v, T) = Total(w, Joint(T))}
<1>1. Weighs(v, P)
    BY TotalType DEF Weighs
<1>2. ASSUME NEW T \in SUBSET P, \A U \in SUBSET T : U # T => U \in Good
      PROVE  T \in Good
  <2>1. CASE T = {}
    <3>1. Joint(T) = {}
        BY <2>1
    <3> HIDE DEF Joint
    <3> QED
        BY <2>1, <3>1, TotalOfEmpty
  <2>2. CASE T # {}
    <3>1. PICK g : g \in T
        BY <2>2
    <3> DEFINE rest == T \ {g}
    <3>2. g \in P /\ rest \in SUBSET P /\ rest \in Good
        BY <1>2, <3>1
    <3>3. Total(v, T) = v[g] + Total(v, rest)
        BY <1>1, <3>1, TotalOfAny
    <3>4. Total(v, rest) = Total(w, Joint(rest))
        BY <3>2
    <3>5. Joint(T) = part[g] \cup Joint(rest)
        BY <3>1
    <3>6. part[g] \in SUBSET S /\ Joint(rest) \in SUBSET (S \ part[g])
        BY <3>2
    <3> HIDE DEF Joint, rest
    <3>7. Total(w, Joint(T)) = Total(w, part[g]) + Total(w, Joint(rest))
        BY <3>5, <3>6, TotalOfUnion
    <3>8. Total(v, T) = Total(w, Joint(T))
        BY <3>2, <3>3, <3>4, <3>7
    <3> QED
        BY <3>8
  <2> QED
      BY <2>1, <2>2
<1> HIDE DEF Good
<1>3. \A T \in SUBSET P : T \in Good
    BY <1>2, SetInduction
<1> QED
    BY <1>3 DEF Good

\* A smaller set has no larger sum, and an equal one only without what weighs something.
LEMMA TotalGrows ==
    ASSUME NEW w, NEW S, IsFiniteSet(S), Weighs(w, S), NEW A \in SUBSET S
    PROVE  Total(w, A) <= Total(w, S)
<1>1. Total(w, A \cup (S \ A)) = Total(w, A) + Total(w, S \ A)
    BY TotalOfUnion
<1>2. A \cup (S \ A) = S
    OBVIOUS
<1>3. Total(w, A) \in Nat /\ Total(w, S \ A) \in Nat
    BY TotalType
<1> DEFINE a == Total(w, A)  b == Total(w, S \ A)  c == Total(w, S)
<1>4. c = a + b /\ a \in Nat /\ b \in Nat
    BY <1>1, <1>2, <1>3
<1> HIDE DEF a, b, c
<1>5. a <= c
    BY <1>4
<1> QED
    BY <1>5 DEF a, c

LEMMA TotalIsAll ==
    ASSUME NEW w, NEW S, IsFiniteSet(S), Weighs(w, S), NEW A \in SUBSET S,
           \A x \in S : w[x] # 0, Total(w, A) = Total(w, S)
    PROVE  A = S
<1>1. SUFFICES ASSUME NEW x \in S, x \notin A PROVE FALSE
    OBVIOUS
<1>2. Total(w, A \cup {x}) = Total(w, A) + Total(w, {x})
  <2>1. {x} \in SUBSET (S \ A)
      BY <1>1
  <2> QED
      BY <2>1, TotalOfUnion
<1>3. Total(w, {x}) = w[x] + Total(w, {x} \ {x}) /\ {x} \ {x} = {}
  <2>1. {x} \in SUBSET S /\ x \in {x}
      OBVIOUS
  <2> QED
      BY <2>1, TotalOfAny
<1>4. w[x] \in Nat /\ w[x] # 0 /\ Total(w, {}) = 0
    BY TotalOfEmpty DEF Weighs
<1>5. Total(w, A \cup {x}) <= Total(w, S)
  <2>1. A \cup {x} \in SUBSET S
      OBVIOUS
  <2> QED
      BY <2>1, TotalGrows
<1>6. Total(w, A) \in Nat
    BY TotalType
<1> DEFINE a == Total(w, A)  b == Total(w, A \cup {x})  c == w[x]
<1>7. b = a + c /\ b <= a /\ a \in Nat /\ c \in Nat /\ c # 0
    BY <1>2, <1>3, <1>4, <1>5, <1>6
<1> HIDE DEF a, b, c
<1> QED
    BY <1>7

-----------------------------------------------------------------------------

\* A finite set of numbers that is not empty has a largest.
LEMMA LargestNumber ==
    ASSUME NEW S \in SUBSET Nat, IsFiniteSet(S), S # {}
    PROVE  Max(S) \in S /\ \A n \in S : n <= Max(S)
<1> DEFINE Good == {T \in SUBSET S : T # {} => \E m \in T : \A n \in T : m >= n}
<1>1. ASSUME NEW T \in SUBSET S, \A U \in SUBSET T : U # T => U \in Good
      PROVE  T \in Good
  <2>1. CASE T # {}
    <3>1. PICK x : x \in T
        BY <2>1
    <3>2. T \ {x} \in Good
        BY <1>1, <3>1
    <3>3. CASE T \ {x} = {}
      <4>1. \A n \in T : x >= n
          BY <3>1, <3>3
      <4> QED
          BY <3>1, <4>1
    <3>4. CASE T \ {x} # {}
      <4>1. PICK m \in T \ {x} : \A n \in T \ {x} : m >= n
          BY <3>2, <3>4
      <4>2. m \in Nat /\ x \in Nat /\ \A n \in T : n \in Nat
          BY <3>1
      <4>3. CASE m >= x
        <5>1. \A n \in T : m >= n
            BY <4>1, <4>3
        <5> QED
            BY <4>1, <5>1
      <4>4. CASE m < x
        <5>1. \A n \in T : x >= n
            BY <4>1, <4>2, <4>4
        <5> QED
            BY <3>1, <5>1
      <4> QED
          BY <4>2, <4>3, <4>4
    <3> QED
        BY <3>3, <3>4
  <2> QED
      BY <2>1
<1> HIDE DEF Good
<1>2. \A T \in SUBSET S : T \in Good
    BY <1>1, SetInduction
<1>3. \E m \in S : \A n \in S : m >= n
    BY <1>2 DEF Good
<1>4. Max(S) \in S /\ \A n \in S : Max(S) >= n
    BY <1>3 DEF Max
<1> QED
    BY <1>4

=============================================================================
