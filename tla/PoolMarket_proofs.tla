------------------------- MODULE PoolMarket_proofs -------------------------
(***************************************************************************)
(* Proofs about PoolMarket: the tracked pool and its quotes, and the       *)
(* routes and amounts that are looked for in a view.                       *)
(***************************************************************************)
EXTENDS PoolMarket, FiniteSetTheorems, SequenceTheorems, WellFoundedInduction, TLAPS

-----------------------------------------------------------------------------
(* Least and greatest numbers                                              *)

\* A set of natural numbers that is not empty has a least one.
LEMMA Least ==
  ASSUME NEW S \in SUBSET Nat, S # {}
  PROVE  \E x \in S : \A y \in S : x <= y
<1> DEFINE Less == OpToRel(<, Nat)
<1>1. \E x \in S : \A y \in S : ~ (<<y, x>> \in Less)
  <2>1. IsWellFoundedOn(Less, Nat)
    BY NatLessThanWellFounded
  <2> HIDE DEF Less
  <2>2. QED  BY <2>1, WFMin
<1>2. PICK x \in S : \A y \in S : ~ (<<y, x>> \in Less)
  BY <1>1
<1>3. ASSUME NEW y \in S, ~(x <= y)  PROVE FALSE
  <2>1. x \in Nat /\ y \in Nat /\ y < x
    BY <1>3
  <2>2. <<y, x>> \in Less
    BY <2>1 DEF OpToRel
  <2>3. QED  BY <1>2, <1>3, <2>2
<1>4. QED  BY <1>3

\* Min and Max of a bounded set of numbers.
LEMMA MinFacts ==
  ASSUME NEW S \in SUBSET Nat, S # {}
  PROVE  Min(S) \in S /\ \A y \in S : Min(S) <= y
<1>1. \E x \in S : \A y \in S : x =< y
  BY Least
<1>2. QED  BY <1>1 DEF Min

LEMMA MaxFacts ==
  ASSUME NEW n \in Nat, NEW S \in SUBSET (0 .. n), S # {}
  PROVE  Max(S) \in S /\ \A y \in S : y <= Max(S)
<1> DEFINE T == {n - x : x \in S}
<1>1. T \in SUBSET Nat /\ T # {}
  <2>1. \A x \in S : n - x \in Nat
    OBVIOUS
  <2>2. QED  BY <2>1
<1>2. PICK t \in T : \A u \in T : t <= u
  BY <1>1, Least
<1>3. PICK x \in S : t = n - x
  BY <1>2
<1>4. \A y \in S : x >= y
  <2> SUFFICES ASSUME NEW y \in S PROVE x >= y
    OBVIOUS
  <2>1. n - x <= n - y
    BY <1>2, <1>3
  <2>2. QED  BY <2>1
<1>5. Max(S) \in S /\ \A y \in S : Max(S) >= y
  BY <1>4 DEF Max
<1>6. QED  BY <1>5

-----------------------------------------------------------------------------
(* The fold of a block's events                                            *)

\* f is the fold of the events of seq over sets of indices up to n.
Folds(f, base, seq, n) ==
  f = [s \in SUBSET (1 .. n) |->
         IF s = {} THEN base ELSE ApplyEvent(f[s \ {Max(s)}], seq[Max(s)])]

LEMMA IndexSets ==
  ASSUME NEW n \in Nat, NEW s \in SUBSET (1 .. n + 1)
  PROVE  /\ s # {} => Max(s) \in s /\ Max(s) \in 1 .. n + 1 /\ s \ {Max(s)} \in SUBSET (1 .. n)
         /\ s \notin SUBSET (1 .. n) => s # {} /\ Max(s) = n + 1
<1>1. ASSUME s # {}
      PROVE  Max(s) \in s /\ \A y \in s : y <= Max(s)
  <2>1. n + 1 \in Nat /\ s \in SUBSET (0 .. n + 1)
    OBVIOUS
  <2>2. QED  BY <1>1, <2>1, MaxFacts
<1>2. ASSUME s # {}, NEW y \in s, y # Max(s)
      PROVE  y \in 1 .. n
  <2>1. Max(s) \in 1 .. n + 1 /\ y \in 1 .. n + 1 /\ y <= Max(s)
    BY <1>1, <1>2
  <2>2. QED  BY <1>2, <2>1
<1>3. ASSUME s \notin SUBSET (1 .. n)  PROVE s # {} /\ Max(s) = n + 1
  <2>1. PICK y \in s : y \notin 1 .. n
    BY <1>3
  <2>2. y \in 1 .. n + 1 /\ Max(s) \in 1 .. n + 1 /\ y <= Max(s)
    BY <1>1, <2>1
  <2>3. Max(s) = n + 1
    BY <2>1, <2>2
  <2>4. QED  BY <2>1, <2>3
<1>4. QED  BY <1>1, <1>2, <1>3

\* Two functions of sets of indices are one if they agree on no index, and on a set
\* whenever they agree on the set without its last index.
AgreeStepwise(n, f, g) ==
  /\ f[{}] = g[{}]
  /\ \A s \in SUBSET (1 .. n) : s # {} /\ f[s \ {Max(s)}] = g[s \ {Max(s)}] => f[s] = g[s]

LEMMA SameFolds ==
  ASSUME NEW n \in Nat, NEW f, NEW g, AgreeStepwise(n, f, g)
  PROVE  f[1 .. n] = g[1 .. n]
<1> USE DEF AgreeStepwise
<1> DEFINE Differ == {k \in 0 .. n : \E s \in SUBSET (1 .. k) : f[s] # g[s]}
<1>1. 0 \notin Differ
  <2>1. 1 .. 0 = {}
    OBVIOUS
  <2>2. \A s \in SUBSET (1 .. 0) : f[s] = g[s]
    BY <2>1
  <2>3. QED  BY <2>2
<1>2. ASSUME NEW k \in Nat, k + 1 \in Differ  PROVE k \in Differ
  <2>1. PICK s \in SUBSET (1 .. k + 1) : f[s] # g[s]
    BY <1>2
  <2>2. s \in SUBSET (1 .. n) /\ k \in 0 .. n
    BY <1>2, <2>1
  <2>3. s # {}
    BY <2>1
  <2>4. s \ {Max(s)} \in SUBSET (1 .. k)
    BY <2>2, <2>3, IndexSets
  <2>5. f[s \ {Max(s)}] # g[s \ {Max(s)}]
    BY <2>1, <2>2, <2>3
  <2>6. QED  BY <2>2, <2>4, <2>5
<1> HIDE DEF Differ
<1>3. Differ = {}
  <2> SUFFICES ASSUME Differ # {} PROVE FALSE
    OBVIOUS
  <2>1. Differ \in SUBSET Nat
    BY DEF Differ
  <2>2. PICK k \in Differ : \A j \in Differ : k <= j
    BY <2>1, Least
  <2>3. k # 0 /\ k \in Nat
    BY <1>1, <2>1, <2>2
  <2>4. k - 1 \in Nat /\ (k - 1) + 1 = k /\ k - 1 \notin Differ
    BY <2>2, <2>3
  <2>5. QED  BY <1>2, <2>2, <2>4
<1>4. n \in 0 .. n /\ n \notin Differ
  BY <1>3
<1>5. QED  BY <1>4 DEF Differ

LEMMA FoldExists ==
  ASSUME NEW base, NEW seq, NEW n \in Nat
  PROVE  \E f : Folds(f, base, seq, n)
<1> DEFINE Missing == {k \in Nat : ~\E f : Folds(f, base, seq, k)}
<1>1. 0 \notin Missing
  <2> DEFINE f == [s \in {{}} |-> base]
  <2>1. SUBSET (1 .. 0) = {{}}
    <3>1. 1 .. 0 = {}
      OBVIOUS
    <3>2. QED  BY <3>1
  <2>2. f = [s \in SUBSET (1 .. 0) |->
               IF s = {} THEN base ELSE ApplyEvent(f[s \ {Max(s)}], seq[Max(s)])]
    BY <2>1
  <2>3. Folds(f, base, seq, 0)
    BY <2>2 DEF Folds
  <2>4. QED  BY <2>3
<1>2. ASSUME NEW k \in Nat, k \notin Missing  PROVE k + 1 \notin Missing
  <2>1. PICK f : Folds(f, base, seq, k)
    BY <1>2
  <2> DEFINE Step(h, s) == IF s = {} THEN base ELSE ApplyEvent(h[s \ {Max(s)}], seq[Max(s)])
  <2>2. \A s \in SUBSET (1 .. k) : f[s] = Step(f, s)
    BY <2>1 DEF Folds
  <2> DEFINE g == [s \in SUBSET (1 .. k + 1) |-> Step(f, s)]
  <2>3. \A s \in SUBSET (1 .. k) : s \in SUBSET (1 .. k + 1) /\ g[s] = f[s]
    BY <2>2
  <2>4. ASSUME NEW s \in SUBSET (1 .. k + 1)  PROVE Step(f, s) = Step(g, s)
    BY <2>3, IndexSets
  <2>5. g = [s \in SUBSET (1 .. k + 1) |-> Step(g, s)]
    BY <2>4
  <2>6. Folds(g, base, seq, k + 1)
    BY <2>5 DEF Folds
  <2>7. QED  BY <2>6
<1> HIDE DEF Missing
<1>3. Missing = {}
  <2> SUFFICES ASSUME Missing # {} PROVE FALSE
    OBVIOUS
  <2>1. Missing \in SUBSET Nat
    BY DEF Missing
  <2>2. PICK k \in Missing : \A j \in Missing : k <= j
    BY <2>1, Least
  <2>3. k # 0 /\ k \in Nat
    BY <1>1, <2>1, <2>2
  <2>4. k - 1 \in Nat /\ k - 1 \notin Missing /\ (k - 1) + 1 = k
    BY <2>2, <2>3
  <2>5. QED  BY <1>2, <2>2, <2>4
<1>4. QED  BY <1>3 DEF Missing

\* Folds over sequences that begin alike are alike.
LEMMA FoldsAgree ==
  ASSUME NEW n \in Nat, NEW m \in Nat, n <= m, NEW base, NEW p, NEW q,
         \A i \in 1 .. n : p[i] = q[i],
         NEW f, Folds(f, base, p, n), NEW g, Folds(g, base, q, m)
  PROVE  f[1 .. n] = g[1 .. n]
<1>1. \A s \in SUBSET (1 .. n) :
        f[s] = IF s = {} THEN base ELSE ApplyEvent(f[s \ {Max(s)}], p[Max(s)])
  BY DEF Folds
<1>2. \A s \in SUBSET (1 .. n) :
        g[s] = IF s = {} THEN base ELSE ApplyEvent(g[s \ {Max(s)}], q[Max(s)])
  <2>1. 1 .. n \subseteq 1 .. m
    OBVIOUS
  <2>2. SUBSET (1 .. n) \subseteq SUBSET (1 .. m)
    BY <2>1
  <2>3. QED  BY <2>2 DEF Folds
<1>3. f[{}] = g[{}]
  BY <1>1, <1>2
<1>4. ASSUME NEW s \in SUBSET (1 .. n), s # {}, f[s \ {Max(s)}] = g[s \ {Max(s)}]
      PROVE  f[s] = g[s]
  <2>1. Max(s) \in 1 .. n
    <3>1. s \in SUBSET (0 .. n)
      OBVIOUS
    <3>2. QED  BY <1>4, <3>1, MaxFacts
  <2>2. QED  BY <1>1, <1>2, <1>4, <2>1
<1>5. AgreeStepwise(n, f, g)
  BY <1>3, <1>4 DEF AgreeStepwise
<1>6. QED  BY <1>5, SameFolds

\* FoldLeft is a fold over all indices.
LEMMA FoldLeftFolds ==
  ASSUME NEW base, NEW S, NEW seq \in Seq(S)
  PROVE  \E f : Folds(f, base, seq, Len(seq))
                /\ FoldLeft(ApplyEvent, base, seq) = f[1 .. Len(seq)]
<1> DEFINE iter[s \in SUBSET DOMAIN seq] ==
             IF s = {} THEN base ELSE ApplyEvent(iter[s \ {Max(s)}], seq[Max(s)])
<1>1. FoldLeft(ApplyEvent, base, seq) = iter[DOMAIN seq]
  BY DEF FoldLeft, MapThenFoldSet
<1>2. PICK f : Folds(f, base, seq, Len(seq))
  BY FoldExists, LenProperties
<1>3. DOMAIN seq = 1 .. Len(seq)
  BY LenProperties
<1>4. iter = [s \in SUBSET DOMAIN seq |->
                IF s = {} THEN base ELSE ApplyEvent(iter[s \ {Max(s)}], seq[Max(s)])]
  <2> DEFINE Is(g) == g = [s \in SUBSET DOMAIN seq |->
                IF s = {} THEN base ELSE ApplyEvent(g[s \ {Max(s)}], seq[Max(s)])]
  <2>1. Is(f)
    BY <1>2, <1>3 DEF Folds
  <2>2. iter = CHOOSE g : Is(g)
    OBVIOUS
  <2> HIDE DEF Is, iter
  <2>3. Is(iter)
    BY <2>1, <2>2
  <2>4. QED  BY <2>3 DEF Is
<1>5. Folds(iter, base, seq, Len(seq))
  BY <1>3, <1>4 DEF Folds
<1>6. QED  BY <1>1, <1>3, <1>5

\* Without events the pool is as it was.
LEMMA FoldOfNone ==
  ASSUME NEW base
  PROVE  FoldLeft(ApplyEvent, base, <<>>) = base
<1>1. <<>> \in Seq({}) /\ Len(<<>>) = 0 /\ 1 .. 0 = {}
  BY EmptySeq
<1>2. PICK f : /\ Folds(f, base, <<>>, 0)
               /\ FoldLeft(ApplyEvent, base, <<>>) = f[{}]
  BY <1>1, FoldLeftFolds
<1>3. f[{}] = base
  BY <1>1, <1>2 DEF Folds
<1>4. QED  BY <1>2, <1>3

\* One more event is applied to what the others have made.
LEMMA FoldAppend ==
  ASSUME NEW base, NEW S, NEW seq \in Seq(S), NEW e \in S
  PROVE  FoldLeft(ApplyEvent, base, Append(seq, e))
           = ApplyEvent(FoldLeft(ApplyEvent, base, seq), e)
<1> DEFINE n == Len(seq)
           longer == Append(seq, e)
<1>2. /\ longer \in Seq(S) /\ Len(longer) = n + 1 /\ n \in Nat
      /\ longer[n + 1] = e /\ \A i \in 1 .. n : seq[i] = longer[i]
  BY AppendProperties, LenProperties
<1> HIDE DEF longer
<1>3. PICK f : /\ Folds(f, base, seq, n)
               /\ FoldLeft(ApplyEvent, base, seq) = f[1 .. n]
  BY FoldLeftFolds
<1>4. PICK g : /\ Folds(g, base, longer, n + 1)
               /\ FoldLeft(ApplyEvent, base, longer) = g[1 .. n + 1]
  BY <1>2, FoldLeftFolds
<1> HIDE DEF n
<1>5. n + 1 \in Nat /\ n <= n + 1
  BY <1>2
<1>6. f[1 .. n] = g[1 .. n]
  <2>1. /\ n \in Nat /\ n + 1 \in Nat /\ n <= n + 1 /\ \A i \in 1 .. n : seq[i] = longer[i]
        /\ Folds(f, base, seq, n) /\ Folds(g, base, longer, n + 1)
    BY <1>2, <1>3, <1>4, <1>5
  <2> DEFINE m == n + 1
  <2>2. m \in Nat /\ n <= m /\ Folds(g, base, longer, m)
    BY <2>1
  <2> HIDE DEF m
  <2>3. QED  BY <2>1, <2>2, FoldsAgree
<1>7. 1 .. n + 1 # {} /\ Max(1 .. n + 1) = n + 1 /\ (1 .. n + 1) \ {n + 1} = 1 .. n
  <2>1. n + 1 \in 1 .. n + 1 /\ n + 1 \notin 1 .. n
    BY <1>2
  <2>2. Max(1 .. n + 1) = n + 1
    BY <1>2, <2>1, IndexSets
  <2>3. (1 .. n + 1) \ {n + 1} = 1 .. n
    BY <1>2
  <2>4. QED  BY <2>1, <2>2, <2>3
<1>8. g[1 .. n + 1] = ApplyEvent(g[(1 .. n + 1) \ {Max(1 .. n + 1)}], longer[Max(1 .. n + 1)])
  BY <1>4, <1>7 DEF Folds
<1>9. g[1 .. n + 1] = ApplyEvent(f[1 .. n], e)
  BY <1>2, <1>6, <1>7, <1>8
<1>10. QED  BY <1>3, <1>4, <1>9 DEF longer

-----------------------------------------------------------------------------
(* Sums over a finite set                                                  *)

\* f is the sum of h over the parts of S that have at most k members.
Sums(f, h, S, k) ==
  f = [s \in {t \in SUBSET S : Cardinality(t) <= k} |->
         IF s = {} THEN 0
         ELSE h[CHOOSE x \in s : TRUE] + f[s \ {CHOOSE x \in s : TRUE}]]

\* A part without one of its members is a smaller part.
LEMMA OneLess ==
  ASSUME NEW S, IsFiniteSet(S), NEW s \in SUBSET S, s # {}
  PROVE  LET x == CHOOSE x \in s : TRUE IN
         /\ x \in s /\ s \ {x} \in SUBSET S
         /\ Cardinality(s) \in Nat \ {0} /\ Cardinality(s \ {x}) = Cardinality(s) - 1
<1> DEFINE x == CHOOSE x \in s : TRUE
<1>1. x \in s
  OBVIOUS
<1>2. IsFiniteSet(s)
  BY FS_Subset
<1>3. Cardinality(s) \in Nat /\ Cardinality(s \ {x}) = Cardinality(s) - 1
  BY <1>1, <1>2, FS_RemoveElement, FS_CardinalityType
<1>4. Cardinality(s) # 0
  BY <1>2, FS_EmptySet
<1>5. QED  BY <1>1, <1>3, <1>4

LEMMA SumExists ==
  ASSUME NEW S, IsFiniteSet(S), NEW h, NEW n \in Nat
  PROVE  \E f : Sums(f, h, S, n)
<1> DEFINE Missing == {k \in Nat : ~\E f : Sums(f, h, S, k)}
           Part(k) == {t \in SUBSET S : Cardinality(t) <= k}
           Sum(g, s) == IF s = {} THEN 0
                        ELSE h[CHOOSE x \in s : TRUE] + g[s \ {CHOOSE x \in s : TRUE}]
<1>1. 0 \notin Missing
  <2> DEFINE f == [s \in Part(0) |-> 0]
  <2>1. \A s \in Part(0) : s = {}
    <3> SUFFICES ASSUME NEW s \in Part(0), s # {} PROVE FALSE
      OBVIOUS
    <3>1. s \in SUBSET S /\ Cardinality(s) <= 0
      OBVIOUS
    <3>2. Cardinality(s) \in Nat \ {0}
      BY <3>1, OneLess
    <3>3. QED  BY <3>1, <3>2
  <2>2. f = [s \in Part(0) |-> Sum(f, s)]
    BY <2>1
  <2>3. Sums(f, h, S, 0)
    BY <2>2 DEF Sums
  <2>4. QED  BY <2>3
<1>2. ASSUME NEW k \in Nat, k \notin Missing  PROVE k + 1 \notin Missing
  <2>1. PICK f : Sums(f, h, S, k)
    BY <1>2
  <2>2. \A s \in Part(k) : f[s] = Sum(f, s)
    BY <2>1 DEF Sums
  <2> DEFINE g == [s \in Part(k + 1) |-> Sum(f, s)]
  <2>3. ASSUME NEW s \in Part(k)  PROVE g[s] = f[s]
    <3>1. s \in Part(k + 1)
      <4>1. Cardinality(s) \in Nat /\ Cardinality(s) <= k
        BY FS_Subset, FS_CardinalityType
      <4>2. Cardinality(s) <= k + 1
        BY <4>1
      <4>3. QED  BY <4>2
    <3>2. QED  BY <2>2, <3>1
  <2>4. ASSUME NEW s \in Part(k + 1)  PROVE Sum(f, s) = Sum(g, s)
    <3>1. CASE s = {}
      BY <3>1
    <3>2. CASE s # {}
      <4> DEFINE r == s \ {CHOOSE x \in s : TRUE}
      <4>1. r \in SUBSET S /\ Cardinality(s) \in Nat /\ Cardinality(r) = Cardinality(s) - 1
        BY <3>2, OneLess
      <4>2. Cardinality(r) <= k
        BY <4>1
      <4>3. r \in Part(k)
        BY <4>1, <4>2
      <4> HIDE DEF r, Part, g
      <4>4. f[r] = g[r]
        BY <2>3, <4>3
      <4>5. QED  BY <3>2, <4>4 DEF r
    <3>3. QED  BY <3>1, <3>2
  <2>5. g = [s \in Part(k + 1) |-> Sum(g, s)]
    BY <2>4
  <2>6. Sums(g, h, S, k + 1)
    BY <2>5 DEF Sums
  <2>7. QED  BY <2>6
<1> HIDE DEF Missing
<1>3. Missing = {}
  <2> SUFFICES ASSUME Missing # {} PROVE FALSE
    OBVIOUS
  <2>1. Missing \in SUBSET Nat
    BY DEF Missing
  <2>2. PICK k \in Missing : \A j \in Missing : k <= j
    BY <2>1, Least
  <2>3. k # 0 /\ k \in Nat
    BY <1>1, <2>1, <2>2
  <2>4. k - 1 \in Nat /\ k - 1 \notin Missing /\ (k - 1) + 1 = k
    BY <2>2, <2>3
  <2>5. QED  BY <1>2, <2>2, <2>4
<1>4. QED  BY <1>3 DEF Missing

Total(h, S) == FoldFunctionOnSet(+, 0, h, S)

AddsUp(f, h, S) ==
  /\ f[{}] = 0
  /\ \A s \in (SUBSET S) \ {{}} :
       f[s] = h[CHOOSE x \in s : TRUE] + f[s \ {CHOOSE x \in s : TRUE}]

\* FoldFunctionOnSet is a sum over all parts of the set.
LEMMA TotalSums ==
  ASSUME NEW S, IsFiniteSet(S), NEW h
  PROVE  \E f : Total(h, S) = f[S] /\ AddsUp(f, h, S)
<1> DEFINE iter[s \in SUBSET S] ==
             IF s = {} THEN 0
             ELSE h[CHOOSE x \in s : TRUE] + iter[s \ {CHOOSE x \in s : TRUE}]
<1>1. Total(h, S) = iter[S]
  BY DEF Total, FoldFunctionOnSet, MapThenFoldSet
<1>2. PICK f : Sums(f, h, S, Cardinality(S))
  BY SumExists, FS_CardinalityType
<1>3. {t \in SUBSET S : Cardinality(t) <= Cardinality(S)} = SUBSET S
  BY FS_Subset
<1>4. iter = [s \in SUBSET S |->
                IF s = {} THEN 0
                ELSE h[CHOOSE x \in s : TRUE] + iter[s \ {CHOOSE x \in s : TRUE}]]
  <2> DEFINE Is(g) ==
        g = [s \in SUBSET S |->
               IF s = {} THEN 0
               ELSE h[CHOOSE x \in s : TRUE] + g[s \ {CHOOSE x \in s : TRUE}]]
  <2>1. Is(f)
    BY <1>2, <1>3 DEF Sums
  <2>2. iter = CHOOSE g : Is(g)
    OBVIOUS
  <2> HIDE DEF Is, iter
  <2>3. Is(iter)
    BY <2>1, <2>2
  <2>4. QED  BY <2>3 DEF Is
<1> HIDE DEF iter
<1>5. AddsUp(iter, h, S)
  BY <1>4 DEF AddsUp
<1>6. QED  BY <1>1, <1>5

\* A sum of natural numbers is one, and changes by as much as a summand does.
LEMMA TotalChanges ==
  ASSUME NEW D, NEW S \in SUBSET D, IsFiniteSet(S), NEW h \in [D -> Nat],
         NEW r \in D, NEW d \in Int, h[r] + d \in Nat
  PROVE  /\ Total(h, S) \in Nat
         /\ Total([h EXCEPT ![r] = @ + d], S) = Total(h, S) + IF r \in S THEN d ELSE 0
<1> DEFINE h2 == [h EXCEPT ![r] = @ + d]
<1>1. /\ h2 \in [D -> Nat] /\ h2[r] = h[r] + d
      /\ \A x \in D : x # r => h2[x] = h[x]
  OBVIOUS
<1> HIDE DEF h2
<1>2. PICK f : Total(h, S) = f[S] /\ AddsUp(f, h, S)
  BY TotalSums
<1>3. PICK g : Total(h2, S) = g[S] /\ AddsUp(g, h2, S)
  BY TotalSums
<1> DEFINE Right(s) == f[s] \in Nat /\ g[s] = f[s] + IF r \in s THEN d ELSE 0
           Wrong == {k \in Nat : \E s \in SUBSET S : Cardinality(s) = k /\ ~Right(s)}
<1>4. Right({})
  BY <1>2, <1>3 DEF AddsUp
<1>5. ASSUME NEW s \in SUBSET S, s # {}, Right(s \ {CHOOSE x \in s : TRUE})
      PROVE  Right(s)
  <2> DEFINE x == CHOOSE x \in s : TRUE
             t == s \ {x}
  <2>1. x \in s /\ x \in D
    BY <1>5
  <2>2. f[s] = h[x] + f[t] /\ g[s] = h2[x] + g[t]
    BY <1>2, <1>3, <1>5 DEF AddsUp
  <2>3. f[t] \in Nat /\ g[t] = f[t] + IF r \in t THEN d ELSE 0
    BY <1>5
  <2>4. r \in t <=> r \in s /\ r # x
    OBVIOUS
  <2> HIDE DEF x, t
  <2>5. CASE r = x
    BY <1>1, <2>1, <2>2, <2>3, <2>4, <2>5
  <2>6. CASE r # x
    BY <1>1, <2>1, <2>2, <2>3, <2>4, <2>6
  <2>7. QED  BY <2>5, <2>6
<1>6. Wrong = {}
  <2> SUFFICES ASSUME Wrong # {} PROVE FALSE
    OBVIOUS
  <2>1. PICK k \in Wrong : \A j \in Wrong : k <= j
    BY Least
  <2>2. PICK s \in SUBSET S : Cardinality(s) = k /\ ~Right(s)
    BY <2>1
  <2>3. s # {}
    BY <1>4, <2>2
  <2> DEFINE t == s \ {CHOOSE x \in s : TRUE}
  <2>4. t \in SUBSET S /\ k \in Nat \ {0} /\ Cardinality(t) = k - 1
    BY <2>2, <2>3, OneLess
  <2>5. ~Right(t)
    BY <1>5, <2>2, <2>3
  <2> HIDE DEF t, Right
  <2>6. k - 1 \in Wrong
    BY <2>4, <2>5
  <2>7. QED  BY <2>1, <2>4, <2>6
<1>7. Right(S)
  <2>1. Cardinality(S) \in Nat /\ Cardinality(S) \notin Wrong
    BY <1>6, FS_CardinalityType
  <2> HIDE DEF Right
  <2>2. QED  BY <2>1
<1>8. QED  BY <1>2, <1>3, <1>7 DEF h2

-----------------------------------------------------------------------------
(* The inductive invariant                                                 *)

SwapEvent == [kind : {"Swap"}, price : Nat \ {0}, tick : Tick, lpFee : {0, 1}, liquidity : Nat]
LiquidityEvent == [kind : {"LiquidityChanged"}, lower : Tick, upper : Tick, delta : Int]
FeeEvent == [kind : {"ProtocolFeeUpdated"}, fee : {0, 1}]
Event == SwapEvent \cup LiquidityEvent \cup FeeEvent

ChainPool ==
  [positions : [Position -> Nat], price : Nat \ {0}, tick : Tick,
   lpFee : {0, 1}, protocolFee : {0, 1}]

\* What the view will be once the events of the block being built are applied.
View == FoldLeft(ApplyEvent, tracked, batch)

\* The pool is as the chain's; each of its words that is known is as the chain's.
Follows(pool, c) ==
  /\ pool \in Pool /\ Validates(pool)
  /\ pool.price = c.price /\ pool.tick = c.tick
  /\ pool.lpFee = c.lpFee /\ pool.protocolFee = c.protocolFee
  /\ pool.liquidity = Active(c, c.tick)
  /\ \A w \in Word : pool.bitmap[w] \in {None, BitsOf(c, w)}

Inv ==
  /\ chain \in ChainPool /\ batch \in Seq(Event) /\ ~refused
  /\ tracked # None => tracked \in Pool /\ Validates(tracked)
  /\ tracked = None => View = None
  /\ tracked # None => Follows(View, chain)

-----------------------------------------------------------------------------
(* What one event makes of a pool                                          *)

InRange(tick) == {r \in Position : r[1] <= tick /\ tick < r[2]}

LEMMA ActiveIsTotal ==
  ASSUME NEW c, NEW tick
  PROVE  Active(c, tick) = Total(c.positions, InRange(tick))
BY DEF Active, Total, InRange

LEMMA RangesAreFinite ==
  ASSUME NEW tick
  PROVE  InRange(tick) \in SUBSET Position /\ IsFiniteSet(InRange(tick))
<1>1. InRange(tick) \in SUBSET Position
  BY DEF InRange
<1>2. QED  BY <1>1, TrackingAssumption, FS_Subset

\* The liquidity at a tick is not negative.
LEMMA ActiveIsNat ==
  ASSUME NEW c \in ChainPool, NEW tick
  PROVE  Active(c, tick) \in Nat
<1>1. c.positions \in [Position -> Nat]
  BY DEF ChainPool
<1>2. CASE InRange(tick) = {}
  <2>1. PICK f : /\ Total(c.positions, InRange(tick)) = f[InRange(tick)]
                 /\ AddsUp(f, c.positions, InRange(tick))
    BY RangesAreFinite, TotalSums
  <2>2. Total(c.positions, InRange(tick)) = 0
    BY <1>2, <2>1 DEF AddsUp
  <2>3. QED  BY <2>2, ActiveIsTotal
<1>3. CASE InRange(tick) # {}
  <2>1. PICK r \in InRange(tick) : r \in Position
    BY <1>3, RangesAreFinite
  <2>2. c.positions[r] + 0 \in Nat /\ 0 \in Int
    BY <1>1, <2>1
  <2>3. Total(c.positions, InRange(tick)) \in Nat
    BY <1>1, <2>1, <2>2, RangesAreFinite, TotalChanges
  <2>4. QED  BY <2>3, ActiveIsTotal
<1>4. QED  BY <1>2, <1>3

LEMMA WordsAreWords ==
  ASSUME NEW tick \in Tick
  PROVE  WordsAround(tick) \subseteq Word
BY DEF WordsAround, Word

LEMMA BitsAreBits ==
  ASSUME NEW c, NEW w
  PROVE  BitsOf(c, w) \in Bits /\ BitsOf(c, w) # None
<1>1. BitsOf(c, w) \in Bits
  BY DEF BitsOf, Bits
<1>2. QED  BY <1>1, TrackingAssumption

\* A swap's event says all that the swap changes.
LEMMA SwapFollows ==
  ASSUME NEW c \in ChainPool, NEW pool, Follows(pool, c),
         NEW price \in Nat \ {0}, NEW tick \in Tick, NEW fee \in {0, 1},
         NEW c2, c2 = [c EXCEPT !.price = price, !.tick = tick, !.lpFee = fee],
         NEW e, e = [kind |-> "Swap", price |-> price, tick |-> tick, lpFee |-> fee,
                     liquidity |-> Active(c, tick)]
  PROVE  e \in Event /\ c2 \in ChainPool /\ Follows(ApplyEvent(pool, e), c2)
<1>1. Active(c, tick) \in Nat
  BY ActiveIsNat
<1>2. e \in Event
  BY <1>1 DEF Event, SwapEvent
<1>3. /\ c2 \in ChainPool /\ c2.positions = c.positions
      /\ c2.price = price /\ c2.tick = tick /\ c2.lpFee = fee
      /\ c2.protocolFee = c.protocolFee
  BY DEF ChainPool
<1>4. Active(c2, tick) = Active(c, tick) /\ \A w : BitsOf(c2, w) = BitsOf(c, w)
  BY <1>3 DEF Active, BitsOf, Initialized
<1>5. /\ pool \in Pool /\ pool # None /\ pool.protocolFee = c.protocolFee
      /\ \A w \in Word : pool.bitmap[w] \in {None, BitsOf(c, w)}
  BY TrackingAssumption DEF Follows
<1> DEFINE known == \A w \in WordsAround(tick) : pool.bitmap[w] # None
           v == IF ~known THEN "Pending"
                ELSE IF fee # 0 THEN "Unsupported" ELSE pool.verification
           after == [pool EXCEPT !.price = price, !.tick = tick,
                       !.liquidity = Active(c, tick), !.lpFee = fee, !.verification = v]
<1>6. v \in Verification /\ (v = "Supported" => known)
  BY <1>5 DEF Pool, Verification
<1>7. ApplyEvent(pool, e) = after
  <2>1. ApplyEvent(pool, e) = ApplySwap(pool, e)
    BY <1>5 DEF ApplyEvent
  <2>2. ApplySwap(pool, e) = after
    BY DEF ApplySwap
  <2>3. QED  BY <2>1, <2>2
<1> HIDE DEF v
<1>8. /\ after \in Pool /\ after.price = price /\ after.tick = tick
      /\ after.liquidity = Active(c, tick) /\ after.lpFee = fee
      /\ after.protocolFee = pool.protocolFee /\ after.bitmap = pool.bitmap
      /\ after.verification = v
  BY <1>1, <1>5, <1>6 DEF Pool
<1> HIDE DEF after
<1>9. Validates(after)
  BY <1>6, <1>8 DEF Validates
<1>10. Follows(after, c2)
  BY <1>3, <1>4, <1>5, <1>8, <1>9 DEF Follows
<1>11. QED  BY <1>2, <1>3, <1>7, <1>10

\* A change of liquidity counts where the pool's tick is in its range, and never
\* makes the sum negative.
LEMMA LiquidityFollows ==
  ASSUME NEW c \in ChainPool, NEW pool, Follows(pool, c),
         NEW r \in Position, NEW delta \in Int, c.positions[r] + delta \in Nat,
         NEW c2, c2 = [c EXCEPT !.positions = [c.positions EXCEPT ![r] = @ + delta]],
         NEW e, e = [kind |-> "LiquidityChanged", lower |-> r[1], upper |-> r[2],
                     delta |-> delta]
  PROVE  e \in Event /\ c2 \in ChainPool /\ Follows(ApplyEvent(pool, e), c2)
<1>1. r[1] \in Tick /\ r[2] \in Tick
  BY TrackingAssumption
<1>2. e \in Event
  BY <1>1 DEF Event, LiquidityEvent
<1> DEFINE positions == [c.positions EXCEPT ![r] = @ + delta]
<1>3. /\ c2 \in ChainPool /\ c2.positions = positions
      /\ c2.price = c.price /\ c2.tick = c.tick /\ c2.lpFee = c.lpFee
      /\ c2.protocolFee = c.protocolFee
  <2>1. positions \in [Position -> Nat]
    BY DEF ChainPool
  <2>2. c2 = [c EXCEPT !.positions = positions]
    BY DEF ChainPool
  <2> HIDE DEF positions
  <2>3. QED  BY <2>1, <2>2 DEF ChainPool
<1>4. Active(c2, c.tick) = Active(c, c.tick) + IF r \in InRange(c.tick) THEN delta ELSE 0
  <2>1. c.positions \in [Position -> Nat]
    BY DEF ChainPool
  <2>2. Total(positions, InRange(c.tick))
          = Total(c.positions, InRange(c.tick)) + IF r \in InRange(c.tick) THEN delta ELSE 0
    BY <2>1, RangesAreFinite, TotalChanges
  <2>3. QED  BY <1>3, <2>2, ActiveIsTotal
<1>5. Active(c2, c.tick) \in Nat
  BY <1>3, ActiveIsNat
<1>6. /\ pool \in Pool /\ pool # None /\ pool.price = c.price /\ pool.tick = c.tick
      /\ pool.lpFee = c.lpFee /\ pool.protocolFee = c.protocolFee
      /\ pool.liquidity = Active(c, c.tick) /\ Validates(pool)
      /\ \A w \in Word : pool.bitmap[w] \in {None, BitsOf(c, w)}
  BY TrackingAssumption DEF Follows
<1>7. Covers(e, pool.tick) <=> r \in InRange(c.tick)
  BY <1>6 DEF Covers, InRange
<1> DEFINE after == [pool EXCEPT
             !.liquidity = Active(c2, c.tick),
             !.bitmap = IF delta # 0 THEN [w \in Word |-> None] ELSE pool.bitmap,
             !.verification = IF delta # 0 THEN "Pending" ELSE pool.verification]
<1>8. ApplyEvent(pool, e) = after
  <2>1. (IF Covers(e, pool.tick) THEN pool.liquidity + delta ELSE pool.liquidity)
          = Active(c2, c.tick)
    <3>1. pool.liquidity \in Nat
      BY <1>6 DEF Pool
    <3>2. QED  BY <1>4, <1>6, <1>7, <3>1
  <2>2. ApplyLiquidity(pool, e) = after
    BY <2>1 DEF ApplyLiquidity
  <2>3. after.liquidity = Active(c2, c.tick)
    BY <1>6 DEF Pool
  <2>4. ~(after.liquidity < 0)
    BY <1>5, <2>3
  <2> HIDE DEF after
  <2>5. e.kind = "LiquidityChanged"
    OBVIOUS
  <2>6. QED  BY <1>6, <2>2, <2>4, <2>5 DEF ApplyEvent
<1>9. /\ after \in Pool /\ after.price = c.price /\ after.tick = c.tick
      /\ after.liquidity = Active(c2, c.tick) /\ after.lpFee = c.lpFee
      /\ after.protocolFee = c.protocolFee
      /\ after.bitmap = IF delta # 0 THEN [w \in Word |-> None] ELSE pool.bitmap
      /\ after.verification = IF delta # 0 THEN "Pending" ELSE pool.verification
  BY <1>5, <1>6 DEF Pool, Verification
<1> HIDE DEF after
<1>10. Validates(after)
  BY <1>6, <1>9 DEF Validates
<1>11. \A w \in Word : after.bitmap[w] \in {None, BitsOf(c2, w)}
  <2>1. CASE delta # 0
    BY <1>9, <2>1
  <2>2. CASE delta = 0
    <3>1. c2.positions = c.positions
      BY <1>3, <2>2 DEF ChainPool
    <3>2. \A w : BitsOf(c2, w) = BitsOf(c, w)
      BY <3>1 DEF BitsOf, Initialized
    <3>3. QED  BY <1>6, <1>9, <2>2, <3>2
  <2>3. QED  BY <2>1, <2>2
<1>12. Follows(after, c2)
  BY <1>3, <1>9, <1>10, <1>11 DEF Follows
<1>13. QED  BY <1>2, <1>3, <1>8, <1>12

LEMMA ProtocolFeeFollows ==
  ASSUME NEW c \in ChainPool, NEW pool, Follows(pool, c), NEW fee \in {0, 1},
         NEW c2, c2 = [c EXCEPT !.protocolFee = fee],
         NEW e, e = [kind |-> "ProtocolFeeUpdated", fee |-> fee]
  PROVE  e \in Event /\ c2 \in ChainPool /\ Follows(ApplyEvent(pool, e), c2)
<1>1. e \in Event
  BY DEF Event, FeeEvent
<1>2. /\ c2 \in ChainPool /\ c2.positions = c.positions
      /\ c2.price = c.price /\ c2.tick = c.tick /\ c2.lpFee = c.lpFee
      /\ c2.protocolFee = fee
  BY DEF ChainPool
<1>3. Active(c2, c.tick) = Active(c, c.tick) /\ \A w : BitsOf(c2, w) = BitsOf(c, w)
  BY <1>2 DEF Active, BitsOf, Initialized
<1>4. pool \in Pool /\ pool # None /\ Validates(pool)
  BY TrackingAssumption DEF Follows
<1> DEFINE v == IF fee # 0 THEN "Unsupported" ELSE pool.verification
           after == [pool EXCEPT !.protocolFee = fee, !.verification = v]
<1>5. ApplyEvent(pool, e) = after
  BY <1>4 DEF ApplyEvent, ApplyProtocolFee
<1>6. v \in Verification /\ (v = "Supported" => pool.verification = "Supported")
  BY <1>4 DEF Pool, Verification
<1> HIDE DEF v
<1>7. /\ after \in Pool /\ after.price = pool.price /\ after.tick = pool.tick
      /\ after.liquidity = pool.liquidity /\ after.lpFee = pool.lpFee
      /\ after.protocolFee = fee /\ after.bitmap = pool.bitmap /\ after.verification = v
  BY <1>4, <1>6 DEF Pool
<1> HIDE DEF after
<1>8. Validates(after)
  BY <1>4, <1>6, <1>7 DEF Validates
<1>9. Follows(after, c2)
  BY <1>2, <1>3, <1>7, <1>8 DEF Follows
<1>10. QED  BY <1>1, <1>2, <1>5, <1>9

\* A snapshot is as the chain is.
LEMMA SnapshotFollows ==
  ASSUME NEW c \in ChainPool
  PROVE  Follows(ReadPool(c), c)
<1> DEFINE pool == ReadPool(c)
           words == [w \in Word |-> IF w \in WordsAround(c.tick) THEN BitsOf(c, w) ELSE None]
<1>1. /\ pool.price = c.price /\ pool.tick = c.tick /\ pool.liquidity = Active(c, c.tick)
      /\ pool.lpFee = c.lpFee /\ pool.protocolFee = c.protocolFee /\ pool.bitmap = words
  BY DEF ReadPool
<1>2. Active(c, c.tick) \in Nat /\ c.tick \in Tick /\ c.price \in Nat \ {0}
      /\ c.lpFee \in {0, 1} /\ c.protocolFee \in {0, 1}
  BY ActiveIsNat DEF ChainPool
<1>3. words \in [Word -> Bits \cup {None}]
  BY BitsAreBits
<1>4. pool \in Pool
  <2>1. pool = [price |-> c.price, tick |-> c.tick, liquidity |-> Active(c, c.tick),
                lpFee |-> c.lpFee, protocolFee |-> c.protocolFee,
                verification |-> IF c.lpFee = 0 /\ c.protocolFee = 0
                                   THEN "Supported" ELSE "Unsupported",
                bitmap |-> words]
    BY DEF ReadPool
  <2> HIDE DEF words, pool
  <2>2. QED  BY <1>2, <1>3, <2>1 DEF Pool, Verification
<1>5. \A w \in WordsAround(c.tick) : words[w] = BitsOf(c, w)
  BY <1>2, WordsAreWords
<1>6. Validates(pool)
  <2> HIDE DEF words, pool
  <2>1. QED  BY <1>1, <1>2, <1>5, BitsAreBits DEF Validates
<1>7. \A w \in Word : words[w] \in {None, BitsOf(c, w)}
  OBVIOUS
<1> HIDE DEF words, pool
<1>8. Follows(pool, c)
  BY <1>1, <1>4, <1>6, <1>7 DEF Follows
<1>9. QED  BY <1>8 DEF pool

-----------------------------------------------------------------------------
(* Every step                                                              *)

LEMMA InitialInv == Init => Inv
<1> SUFFICES ASSUME Init PROVE Inv
  OBVIOUS
<1>1. batch = <<>> /\ batch \in Seq(Event) /\ tracked = None /\ ~refused
  BY EmptySeq DEF Init
<1>2. View = None
  BY <1>1, FoldOfNone DEF View
<1>3. chain \in ChainPool
  <2>1. 0 \in Tick /\ SqrtAtTick[0] \in Nat \ {0}
    BY QuoteAssumption DEF Tick
  <2>2. QED  BY <2>1 DEF Init, ChainPool
<1>4. QED  BY <1>1, <1>2, <1>3 DEF Inv

\* An event of the block being built, whose effect on the view is the chain's.
LEMMA EmitKeepsInv ==
  ASSUME Inv, NEW e \in Event, Emit(e), chain' \in ChainPool,
         tracked # None => Follows(ApplyEvent(View, e), chain')
  PROVE  Inv'
<1>1. /\ batch' = Append(batch, e) /\ tracked' = tracked /\ refused' = refused
      /\ batch \in Seq(Event)
  BY DEF Emit, Inv
<1>2. batch' \in Seq(Event)
  BY <1>1, AppendProperties
<1>3. View' = ApplyEvent(View, e)
  <2>1. FoldLeft(ApplyEvent, tracked, Append(batch, e))
          = ApplyEvent(FoldLeft(ApplyEvent, tracked, batch), e)
    BY <1>1, FoldAppend
  <2>2. View' = FoldLeft(ApplyEvent, tracked, Append(batch, e))
    BY <1>1 DEF View
  <2>3. QED  BY <2>1, <2>2 DEF View
<1>4. tracked = None => View' = None
  BY <1>3 DEF Inv, ApplyEvent
<1>5. tracked # None => Follows(View', chain')
  BY <1>3
<1>6. tracked' # None => tracked' \in Pool /\ Validates(tracked')
  BY <1>1 DEF Inv
<1>7. QED
  <2>1. tracked' = None => View' = None
    BY <1>1, <1>4
  <2>2. tracked' # None => Follows(View', chain')
    BY <1>1, <1>5
  <2>3. ~refused'
    BY <1>1 DEF Inv
  <2>4. QED  BY <1>2, <1>6, <2>1, <2>2, <2>3 DEF Inv

\* apply_block makes the view what the events made of it, and refuses no block.
LEMMA ApplyBlockKeepsInv ==
  ASSUME Inv, ApplyBlock
  PROVE  Inv'
<1>1. tracked # None => View # None
  BY TrackingAssumption DEF Inv, Follows
<1>2. tracked' = View /\ refused' = refused /\ batch' = <<>> /\ chain' = chain
  BY <1>1 DEF ApplyBlock, View
<1>3. View' = View
  BY <1>2, FoldOfNone DEF View
<1>4. batch' \in Seq(Event)
  BY <1>2, EmptySeq
<1>5. tracked = None <=> View = None
  BY <1>1 DEF Inv
<1>6. View # None => Follows(View, chain) /\ View \in Pool /\ Validates(View)
  BY <1>5 DEF Inv, Follows
<1> HIDE DEF View
<1>7. chain' \in ChainPool /\ ~refused'
  BY <1>2 DEF Inv
<1>8. tracked' # None => tracked' \in Pool /\ Validates(tracked') /\ Follows(View', chain')
  BY <1>2, <1>3, <1>6
<1>9. tracked' = None => View' = None
  BY <1>2, <1>3
<1>10. QED  BY <1>4, <1>7, <1>8, <1>9 DEF Inv

LEMMA BootstrapKeepsInv ==
  ASSUME Inv, Bootstrap
  PROVE  Inv'
<1>1. /\ batch = <<>> /\ tracked' = ReadPool(chain)
      /\ chain' = chain /\ batch' = batch /\ refused' = refused
  BY DEF Bootstrap
<1>2. View' = ReadPool(chain)
  BY <1>1, FoldOfNone DEF View
<1>3. Follows(ReadPool(chain), chain)
  BY SnapshotFollows DEF Inv
<1>4. ReadPool(chain) \in Pool /\ Validates(ReadPool(chain)) /\ ReadPool(chain) # None
  BY <1>3, TrackingAssumption DEF Follows
<1>5. chain' \in ChainPool /\ batch' \in Seq(Event) /\ ~refused'
  BY <1>1 DEF Inv
<1>6. tracked' \in Pool /\ Validates(tracked') /\ Follows(View', chain') /\ tracked' # None
  BY <1>1, <1>2, <1>3, <1>4
<1>7. QED  BY <1>5, <1>6 DEF Inv

LEMMA Invariance == Spec => []Inv
<1>1. Inv /\ [Next]_vars => Inv'
  <2> SUFFICES ASSUME Inv, [Next]_vars PROVE Inv'
    OBVIOUS
  <2> DEFINE pool == View
  <2>0. chain \in ChainPool /\ (tracked # None => Follows(pool, chain))
    BY DEF Inv
  <2>1. ASSUME NEW price \in Landing, NEW tick \in Tick, NEW fee \in {0, 1},
               Swap(price, tick, fee)
        PROVE  Inv'
    <3> DEFINE e == [kind |-> "Swap", price |-> price, tick |-> tick, lpFee |-> fee,
                     liquidity |-> Active(chain, tick)]
               c2 == [chain EXCEPT !.price = price, !.tick = tick, !.lpFee = fee]
    <3>1. Emit(e) /\ chain' = c2
      BY <2>1 DEF Swap
    <3>2. price \in Nat \ {0}
      <4>1. SqrtAtTick[tick] <= price /\ SqrtAtTick[tick] \in Nat \ {0} /\ price \in Nat
        BY <2>1, QuoteAssumption, TrackingAssumption DEF Swap, FitsTick
      <4>2. QED  BY <4>1
    <3>3. e \in Event /\ c2 \in ChainPool
      <4>1. Active(chain, tick) \in Nat
        BY <2>0, ActiveIsNat
      <4>2. e \in Event
        BY <3>2, <4>1 DEF Event, SwapEvent
      <4>3. c2 \in ChainPool
        BY <2>0, <3>2 DEF ChainPool
      <4>4. QED  BY <4>2, <4>3
    <3>4. tracked # None => Follows(ApplyEvent(pool, e), c2)
      BY <2>0, <3>2, SwapFollows
    <3> HIDE DEF e, c2
    <3>5. QED  BY <3>1, <3>3, <3>4, EmitKeepsInv
  <2>2. ASSUME NEW r \in Position, NEW delta \in {-Unit, 0, Unit}, ModifyLiquidity(r, delta)
        PROVE  Inv'
    <3> DEFINE e == [kind |-> "LiquidityChanged", lower |-> r[1], upper |-> r[2],
                     delta |-> delta]
               c2 == [chain EXCEPT !.positions = [chain.positions EXCEPT ![r] = @ + delta]]
    <3>1. Emit(e) /\ chain' = c2 /\ chain.positions[r] + delta \in 0 .. MaxUnits * Unit
      BY <2>2 DEF ModifyLiquidity
    <3>2. delta \in Int /\ chain.positions[r] + delta \in Nat
      BY <3>1, TrackingAssumption
    <3>3. e \in Event /\ c2 \in ChainPool
      <4>1. r[1] \in Tick /\ r[2] \in Tick
        BY TrackingAssumption
      <4>2. e \in Event
        BY <3>2, <4>1 DEF Event, LiquidityEvent
      <4>3. [chain.positions EXCEPT ![r] = @ + delta] \in [Position -> Nat]
        BY <2>0, <3>2 DEF ChainPool
      <4>4. c2 \in ChainPool
        BY <2>0, <4>3 DEF ChainPool
      <4>5. QED  BY <4>2, <4>4
    <3>4. tracked # None => Follows(ApplyEvent(pool, e), c2)
      BY <2>0, <3>2, LiquidityFollows
    <3> HIDE DEF e, c2
    <3>5. QED  BY <3>1, <3>3, <3>4, EmitKeepsInv
  <2>3. ASSUME NEW fee \in {0, 1}, SetProtocolFee(fee)
        PROVE  Inv'
    <3> DEFINE e == [kind |-> "ProtocolFeeUpdated", fee |-> fee]
               c2 == [chain EXCEPT !.protocolFee = fee]
    <3>1. Emit(e) /\ chain' = c2
      BY <2>3 DEF SetProtocolFee
    <3>2. e \in Event /\ c2 \in ChainPool
      BY <2>0 DEF Event, FeeEvent, ChainPool
    <3>3. tracked # None => Follows(ApplyEvent(pool, e), c2)
      BY <2>0, ProtocolFeeFollows
    <3> HIDE DEF e, c2
    <3>4. QED  BY <3>1, <3>2, <3>3, EmitKeepsInv
  <2>4. CASE UNCHANGED vars
    <3>1. View' = View
      BY <2>4 DEF vars, View
    <3>2. QED  BY <2>4, <3>1 DEF vars, Inv
  <2>5. QED  BY <2>1, <2>2, <2>3, <2>4, ApplyBlockKeepsInv, BootstrapKeepsInv DEF Next
<1>2. QED  BY <1>1, InitialInv, PTL DEF Spec

\* The events since the snapshot add up to the chain's own liquidity, price and tick,
\* whatever ranges were changed and wherever the price went, and no block is refused.
THEOREM LiquidityAddsUp == Spec => []LiquidityIsActive
<1>1. Inv => LiquidityIsActive
  <2> SUFFICES ASSUME Inv, Tracking
               PROVE  /\ tracked.liquidity = Active(chain, chain.tick)
                      /\ tracked.price = chain.price /\ tracked.tick = chain.tick
    BY DEF Inv, LiquidityIsActive
  <2>1. View = tracked
    BY FoldOfNone DEF Tracking, View
  <2>2. QED  BY <2>1 DEF Tracking, Inv, Follows
<1>2. QED  BY <1>1, Invariance, PTL

\* What the view holds after any block is accepted by Bootstrap::validate, so the
\* checkpoint saved of it can be loaded.
THEOREM CheckpointsReload == Spec => []CheckpointReloads
<1>1. Inv => CheckpointReloads
  BY DEF Inv, CheckpointReloads
<1>2. QED  BY <1>1, Invariance, PTL

-----------------------------------------------------------------------------
(* Rounding                                                                *)

\* Products with a positive factor are ordered as the other factors are.
LEMMA TimesOrder ==
  ASSUME NEW x \in Int, NEW y \in Int, NEW b \in Nat \ {0}
  PROVE  x * b \in Int /\ (x <= y <=> x * b <= y * b) /\ (x < y <=> x * b < y * b)
<1>1. ASSUME NEW u \in Int, NEW v \in Int, u < v  PROVE u * b < v * b
  <2>1. v - u \in Nat \ {0}
    BY <1>1
  <2>2. (v - u) * b > 0
    BY <2>1
  <2>3. (v - u) * b = v * b - u * b
    OBVIOUS
  <2>4. QED  BY <2>2, <2>3
<1>2. x = y \/ x < y \/ y < x
  OBVIOUS
<1>3. QED  BY <1>1, <1>2

LEMMA Division ==
  ASSUME NEW a \in Int, NEW b \in Nat \ {0}
  PROVE  /\ a \div b \in Int /\ a % b \in 0 .. b - 1
         /\ a = (a \div b) * b + (a % b)
OBVIOUS

\* Products of three numbers.
LEMMA Products ==
  ASSUME NEW x \in Int, NEW y \in Int, NEW z \in Int
  PROVE  /\ x * y \in Int /\ x * y = y * x
         /\ x * (y * z) = (x * y) * z
         /\ x * (y + z) = x * y + x * z /\ x * (y - z) = x * y - x * z
OBVIOUS

\* A number is at most the quotient rounded down exactly if its product is at most the
\* dividend, and the quotient rounded up at most a number in the other direction.
LEMMA Quotients ==
  ASSUME NEW a \in Int, NEW b \in Nat \ {0}, NEW k \in Int
  PROVE  /\ a \div b \in Int /\ CeilDiv(a, b) \in Int
         /\ k <= a \div b <=> k * b <= a
         /\ CeilDiv(a, b) <= k <=> a <= k * b
<1>1. ASSUME NEW n \in Int
      PROVE  n \div b \in Int /\ (n \div b) * b <= n /\ n < (n \div b) * b + b
  <2>1. /\ n \div b \in Int /\ n % b \in 0 .. b - 1
        /\ n = (n \div b) * b + (n % b)
    BY Division
  <2> DEFINE q == n \div b
             r == n % b
             qb == q * b
  <2>2. qb \in Int /\ r \in 0 .. b - 1 /\ n = qb + r
    BY <2>1
  <2> HIDE DEF qb, r
  <2>3. qb <= n /\ n < qb + b
    BY <2>2
  <2>4. QED  BY <2>1, <2>3 DEF qb
<1>2. ASSUME NEW n \in Int, NEW j \in Int
      PROVE  j <= n \div b <=> j * b <= n
  <2> DEFINE q == n \div b
  <2>1. q \in Int /\ q * b <= n /\ n < q * b + b
    BY <1>1
  <2> HIDE DEF q
  <2>2. (q + 1) * b = q * b + b /\ q + 1 \in Int /\ q * b \in Int /\ j * b \in Int
    BY <2>1
  <2>3. j <= q => j * b <= n
    BY <2>1, <2>2, TimesOrder
  <2>4. q + 1 <= j => (q + 1) * b <= j * b
    BY <2>1, <2>2, TimesOrder
  <2>5. q < j => n < j * b
    BY <2>1, <2>2, <2>4
  <2>6. QED  BY <2>1, <2>2, <2>3, <2>5 DEF q
<1>3. CeilDiv(a, b) <= k <=> a <= k * b
  <2> DEFINE n == a + b - 1
  <2>1. n \in Int /\ k + 1 \in Int /\ k * b \in Int /\ (k + 1) * b = k * b + b
    OBVIOUS
  <2>2. k + 1 <= n \div b <=> (k + 1) * b <= n
    BY <1>2, <2>1
  <2>3. (k + 1) * b <= n <=> ~(a <= k * b)
    BY <2>1
  <2>4. n \div b \in Int
    BY <1>1, <2>1
  <2>5. n \div b <= k <=> ~(k + 1 <= n \div b)
    BY <2>4
  <2>6. QED  BY <2>2, <2>3, <2>5 DEF CeilDiv
<1>4. a \div b \in Int /\ CeilDiv(a, b) \in Int
  BY <1>1 DEF CeilDiv
<1>5. QED  BY <1>2, <1>3, <1>4

\* The price after a swap down, by the numbers that are not below it: what a trader pays
\* for going from p to k is rounded up.
IsPriced(pool) == pool.price \in Nat \ {0} /\ pool.liquidity \in Nat \ {0}

LEMMA PriceDown ==
  ASSUME NEW pool, IsPriced(pool), NEW amount \in Nat \ {0}
  PROVE  LET L == pool.liquidity
             p == pool.price
             after == PriceAfter(pool, TRUE, amount) IN
         /\ after \in 1 .. p
         /\ \A k \in Int : after <= k <=> L * Q * (p - k) <= amount * (k * p)
<1> DEFINE L == pool.liquidity
           p == pool.price
           after == PriceAfter(pool, TRUE, amount)
           n == L * Q
           d == n + amount * p
<1>1. L \in Nat \ {0} /\ p \in Nat \ {0} /\ Q \in Nat \ {0}
  BY QuoteAssumption DEF IsPriced
<1>2. after = CeilDiv(n * p, d)
  BY DEF PriceAfter
<1> HIDE DEF L, p, after
<1>3. n \in Nat \ {0} /\ amount * p \in Nat \ {0}
  BY <1>1
<1> HIDE DEF n
<1>4. d \in Nat \ {0} /\ n * p \in Nat \ {0}
  BY <1>1, <1>3
<1> HIDE DEF d
<1>5. after \in Int
  BY <1>2, <1>4, Quotients
<1>6. ASSUME NEW k \in Int
      PROVE  after <= k <=> n * (p - k) <= amount * (k * p)
  <2>1. after <= k <=> n * p <= k * d
    BY <1>2, <1>4, Quotients
  <2>2. k * d = k * n + amount * (k * p) /\ n * (p - k) = n * p - k * n
    <3>1. k * d = k * n + k * (amount * p)
      BY <1>1, <1>3, Products DEF d
    <3>2. k * (amount * p) = amount * (k * p)
      <4>1. k * (amount * p) = (k * amount) * p /\ amount * (k * p) = (amount * k) * p
            /\ k * amount = amount * k
        BY <1>1, Products
      <4>2. QED  BY <4>1
    <3>3. n * (p - k) = n * p - k * n
      BY <1>1, <1>3, Products
    <3>4. QED  BY <3>1, <3>2, <3>3
  <2>3. n * p \in Int /\ k * n \in Int /\ amount * (k * p) \in Int
    BY <1>1, <1>3
  <2>4. QED  BY <2>1, <2>2, <2>3
<1>7. after <= p
  <2>1. n * (p - p) = 0 /\ amount * (p * p) \in Nat
    BY <1>1, <1>3
  <2>2. QED  BY <1>1, <1>6, <2>1
<1>8. ~(after <= 0)
  <2>1. n * (p - 0) \in Nat \ {0} /\ amount * (0 * p) = 0
    BY <1>1, <1>3
  <2>2. QED  BY <1>6, <2>1
<1>9. after \in 1 .. p
  BY <1>1, <1>5, <1>7, <1>8
<1>10. \A k \in Int : after <= k <=> L * Q * (p - k) <= amount * (k * p)
  BY <1>6 DEF n
<1>11. QED  BY <1>9, <1>10 DEF L, p, after

\* The price after a swap up, by the numbers that are not above it.
LEMMA PriceUp ==
  ASSUME NEW pool, IsPriced(pool), NEW amount \in Nat \ {0}
  PROVE  LET L == pool.liquidity
             p == pool.price
             after == PriceAfter(pool, FALSE, amount) IN
         /\ after \in Nat \ {0} /\ p <= after
         /\ \A k \in Int : k <= after <=> (k - p) * L <= amount * Q
<1> DEFINE L == pool.liquidity
           p == pool.price
           after == PriceAfter(pool, FALSE, amount)
           up == (amount * Q) \div L
<1>1. L \in Nat \ {0} /\ p \in Nat \ {0} /\ Q \in Nat \ {0} /\ amount * Q \in Nat
  BY QuoteAssumption DEF IsPriced
<1>2. after = p + up
  BY DEF PriceAfter
<1> HIDE DEF L, p, after
<1>3. up \in Int /\ \A k \in Int : k <= up <=> k * L <= amount * Q
  BY <1>1, Quotients
<1> HIDE DEF up
<1>4. 0 <= up
  <2>1. 0 * L = 0
    BY <1>1
  <2>2. QED  BY <1>1, <1>3, <2>1
<1>5. ASSUME NEW k \in Int
      PROVE  k <= after <=> (k - p) * L <= amount * Q
  <2>1. k - p \in Int /\ (k - p <= up <=> k <= after)
    BY <1>1, <1>2, <1>3
  <2>2. QED  BY <1>3, <2>1
<1>6. after \in Nat \ {0} /\ p <= after
  BY <1>1, <1>2, <1>3, <1>4
<1>7. QED  BY <1>5, <1>6 DEF L, p, after

\* What a swap gives before fees, by the numbers that are not above it.
LEMMA GrossDown ==
  ASSUME NEW pool, IsPriced(pool), NEW amount \in Nat \ {0}
  PROVE  LET after == PriceAfter(pool, TRUE, amount)
             gross == Gross(pool, TRUE, amount) IN
         /\ gross \in Nat
         /\ \A k \in Int : k <= gross <=> k * Q <= pool.liquidity * (pool.price - after)
<1> DEFINE L == pool.liquidity
           p == pool.price
           after == PriceAfter(pool, TRUE, amount)
           gross == Gross(pool, TRUE, amount)
           n == L * (p - after)
<1>1. L \in Nat \ {0} /\ p \in Nat \ {0} /\ Q \in Nat \ {0}
  BY QuoteAssumption DEF IsPriced
<1>2. after \in 1 .. p
  BY PriceDown
<1>3. gross = n \div Q
  BY DEF Gross
<1> HIDE DEF L, p, after, gross
<1>4. p - after \in Nat /\ n \in Nat
  BY <1>1, <1>2
<1> HIDE DEF n
<1>5. gross \in Int /\ \A k \in Int : k <= gross <=> k * Q <= n
  <2>1. n \in Int
    BY <1>4
  <2>2. gross \in Int /\ \A k \in Int : k <= n \div Q <=> k * Q <= n
    BY <1>1, <1>3, <2>1, Quotients
  <2>3. QED  BY <1>3, <2>2
<1>6. gross \in Nat
  <2>1. 0 * Q = 0
    BY <1>1
  <2>2. QED  BY <1>4, <1>5, <2>1
<1>7. QED  BY <1>5, <1>6 DEF n, L, p, after, gross

LEMMA GrossUp ==
  ASSUME NEW pool, IsPriced(pool), NEW amount \in Nat \ {0}
  PROVE  LET after == PriceAfter(pool, FALSE, amount)
             gross == Gross(pool, FALSE, amount) IN
         /\ gross \in Nat
         /\ \A k \in Int : k <= gross <=>
              (k * pool.price) * after <= pool.liquidity * Q * (after - pool.price)
<1> DEFINE L == pool.liquidity
           p == pool.price
           after == PriceAfter(pool, FALSE, amount)
           gross == Gross(pool, FALSE, amount)
           n == L * Q * (after - p)
<1>1. L \in Nat \ {0} /\ p \in Nat \ {0} /\ Q \in Nat \ {0}
  BY QuoteAssumption DEF IsPriced
<1>2. after \in Nat \ {0} /\ p <= after
  BY PriceUp
<1>3. gross = (n \div after) \div p
  BY DEF Gross
<1> HIDE DEF L, p, after, gross
<1>4. L * Q \in Nat /\ after - p \in Nat /\ n \in Nat
  BY <1>1, <1>2
<1> HIDE DEF n
<1> DEFINE whole == n \div after
<1>5. whole \in Int /\ \A k \in Int : k <= whole <=> k * after <= n
  <2>1. n \in Int
    BY <1>4
  <2>2. QED  BY <1>2, <2>1, Quotients
<1> HIDE DEF whole
<1>6. gross \in Int /\ \A k \in Int : k <= gross <=> k * p <= whole
  BY <1>1, <1>3, <1>5, Quotients DEF whole
<1>7. \A k \in Int : k <= gross <=> (k * p) * after <= n
  BY <1>1, <1>5, <1>6
<1>8. gross \in Nat
  <2>1. (0 * p) * after = 0
    BY <1>1, <1>2
  <2>2. QED  BY <1>4, <1>6, <1>7, <2>1
<1>9. QED  BY <1>7, <1>8 DEF n, L, p, after, gross

\* The fees are taken from what the swap gives.
LEMMA FeesAreTaken ==
  ASSUME NEW pool, NEW down \in BOOLEAN, NEW amount, Gross(pool, down, amount) \in Nat
  PROVE  /\ AmountOut(pool, down, amount) \in Int
         /\ AmountOut(pool, down, amount) <= Gross(pool, down, amount)
<1> DEFINE gross == Gross(pool, down, amount)
<1>1. gross \in Nat /\ HookFee \in Nat /\ CreatorTax \in Nat /\ FeeUnit \in Nat \ {0}
  BY QuoteAssumption
<1>2. AmountOut(pool, down, amount)
        = gross - (gross * HookFee) \div FeeUnit - (gross * CreatorTax) \div FeeUnit
  BY DEF AmountOut
<1> HIDE DEF gross
<1>3. ASSUME NEW fee \in Nat
      PROVE  (gross * fee) \div FeeUnit \in Nat
  <2>1. gross * fee \in Nat /\ 0 * FeeUnit = 0
    BY <1>1
  <2>2. (gross * fee) \div FeeUnit \in Int /\ 0 <= (gross * fee) \div FeeUnit
    BY <1>1, <2>1, Quotients
  <2>3. QED  BY <2>2
<1>4. (gross * HookFee) \div FeeUnit \in Nat /\ (gross * CreatorTax) \div FeeUnit \in Nat
  BY <1>1, <1>3
<1>5. QED  BY <1>1, <1>2, <1>4 DEF gross

-----------------------------------------------------------------------------
(* The boundaries                                                          *)

\* The tick that a compressed tick and its multiple are on the same side of.
LEMMA CompressedOrder ==
  ASSUME NEW tick \in Tick, NEW m \in Int
  PROVE  /\ Compressed(tick) \in Int
         /\ m * Spacing <= tick <=> m <= Compressed(tick)
<1> DEFINE k == tick \div Spacing
<1>1. Spacing \in Nat \ {0} /\ tick \in Int
  BY QuoteAssumption DEF Tick
<1>2. /\ k \in Int /\ tick % Spacing \in 0 .. Spacing - 1
      /\ tick = k * Spacing + (tick % Spacing)
  BY <1>1, Division
<1>3. k * Spacing \in Int /\ k * Spacing <= tick /\ tick < k * Spacing + Spacing
  BY <1>1, <1>2, TimesOrder
<1>4. (k + 1) * Spacing = k * Spacing + Spacing
  BY <1>1, <1>2
<1> HIDE DEF k
<1>5. m <= k => m * Spacing <= tick
  BY <1>1, <1>2, <1>3, TimesOrder
<1>6. k + 1 <= m => tick < m * Spacing
  BY <1>1, <1>2, <1>3, <1>4, TimesOrder
<1>7. QED  BY <1>1, <1>2, <1>3, <1>5, <1>6, TimesOrder DEF Compressed, k

\* Initialized ticks are multiples of the spacing.
LEMMA InitializedTicks ==
  ASSUME NEW c, NEW t \in Initialized(c)
  PROVE  t \in Tick /\ \E m \in Int : t = m * Spacing
<1>1. PICK r \in Position : t = r[1] \/ t = r[2]
  BY DEF Initialized
<1>2. t \in Tick /\ t \in Int /\ t % Spacing = 0 /\ Spacing \in Nat \ {0}
  BY <1>1, TrackingAssumption, QuoteAssumption DEF Tick
<1>3. t = (t \div Spacing) * Spacing + (t % Spacing) /\ t \div Spacing \in Int
  BY <1>2, Division
<1>4. (t \div Spacing) * Spacing \in Int
  BY <1>2, <1>3, TimesOrder
<1>5. t = (t \div Spacing) * Spacing
  BY <1>2, <1>3, <1>4
<1>6. QED  BY <1>2, <1>3, <1>5

\* The bit of an initialized tick is set in its word.
LEMMA BitIsSet ==
  ASSUME NEW c, NEW m \in Int, m * Spacing \in Initialized(c),
         NEW w \in Int, NEW b \in 0 .. WordSize - 1, m = w * WordSize + b
  PROVE  b \in BitsOf(c, w)
BY DEF BitsOf

LEMMA ClampOrder ==
  ASSUME NEW x \in Int, NEW t \in Tick
  PROVE  /\ Clamp(x) \in Tick
         /\ t <= x => t <= Clamp(x)
         /\ x <= t => Clamp(x) <= t
BY QuoteAssumption DEF Clamp, Tick

\* No initialized tick lies between the boundary and the tick that holds the price.
LEMMA NoTickBelow ==
  ASSUME NEW c \in ChainPool, NEW pool, Follows(pool, c), HasBoundary(pool, TRUE),
         NEW t \in Initialized(c), t <= pool.tick
  PROVE  BoundaryTick(pool, TRUE) \in Tick /\ t <= BoundaryTick(pool, TRUE)
<1> DEFINE k == Compressed(pool.tick)
           w == k \div WordSize
           p == k % WordSize
           M == {b \in pool.bitmap[w] : b <= p} \cup {0}
           raw == (w * WordSize + Max(M)) * Spacing
<1>1. /\ pool.tick \in Tick /\ Spacing \in Nat \ {0} /\ WordSize \in Nat \ {0}
      /\ t \in Tick
  BY InitializedTicks, QuoteAssumption DEF Follows, Pool
<1>2. k \in Int
  BY <1>1, CompressedOrder
<1>3. w \in Int /\ p \in 0 .. WordSize - 1 /\ k = w * WordSize + p /\ w * WordSize \in Int
  BY <1>1, <1>2, Division, TimesOrder
<1>4. k + 0 = k
  BY <1>2
<1>5. BoundaryTick(pool, TRUE) = Clamp(raw) /\ pool.bitmap[w] # None
  BY <1>4 DEF BoundaryTick, HasBoundary
<1>6. w \in Word
  BY <1>1, <1>4 DEF Word
<1>7. pool.bitmap[w] = BitsOf(c, w) /\ BitsOf(c, w) \in Bits
  BY <1>5, <1>6, BitsAreBits DEF Follows
<1>8. M \in SUBSET (0 .. WordSize - 1) /\ M # {} /\ WordSize - 1 \in Nat
  BY <1>1, <1>7 DEF Bits
<1>9. Max(M) \in 0 .. WordSize - 1 /\ \A y \in M : y <= Max(M)
  BY <1>8, MaxFacts
<1>10. PICK m \in Int : t = m * Spacing
  BY InitializedTicks
<1>11. m <= k
  BY <1>1, <1>10, CompressedOrder
<1>12. m <= w * WordSize + Max(M)
  <2>1. CASE m < w * WordSize
    BY <1>3, <1>9, <2>1
  <2>2. CASE ~(m < w * WordSize)
    <3> DEFINE b == m - w * WordSize
    <3> HIDE DEF w, p, k
    <3>1. b \in 0 .. WordSize - 1 /\ b <= p /\ m = w * WordSize + b
      BY <1>1, <1>2, <1>3, <1>11, <2>2
    <3> USE DEF w, p, k
    <3>2. b \in BitsOf(c, w)
      BY <1>3, <1>10, <3>1, BitIsSet
    <3>3. b \in M
      BY <1>7, <3>1, <3>2
    <3>4. b <= Max(M)
      BY <1>9, <3>3
    <3> HIDE DEF b, M, w
    <3>5. QED  BY <1>3, <1>9, <3>1, <3>4
  <2>3. QED  BY <2>1, <2>2
<1>13. w * WordSize + Max(M) \in Int
  BY <1>3, <1>9
<1> HIDE DEF M, w, p, k
<1>14. raw \in Int /\ t <= raw
  BY <1>1, <1>10, <1>12, <1>13, TimesOrder
<1> HIDE DEF raw
<1>15. QED  BY <1>1, <1>5, <1>14, ClampOrder

LEMMA NoTickAbove ==
  ASSUME NEW c \in ChainPool, NEW pool, Follows(pool, c), HasBoundary(pool, FALSE),
         NEW t \in Initialized(c), pool.tick < t
  PROVE  BoundaryTick(pool, FALSE) \in Tick /\ BoundaryTick(pool, FALSE) <= t
<1> DEFINE k == Compressed(pool.tick) + 1
           w == k \div WordSize
           p == k % WordSize
           M == {b \in pool.bitmap[w] : b >= p} \cup {WordSize - 1}
           raw == (w * WordSize + Min(M)) * Spacing
<1>1. /\ pool.tick \in Tick /\ Spacing \in Nat \ {0} /\ WordSize \in Nat \ {0}
      /\ t \in Tick
  BY InitializedTicks, QuoteAssumption DEF Follows, Pool
<1>2. k \in Int /\ Compressed(pool.tick) = k - 1 /\ Compressed(pool.tick) \in Int
  BY <1>1, CompressedOrder
<1>3. w \in Int /\ p \in 0 .. WordSize - 1 /\ k = w * WordSize + p /\ w * WordSize \in Int
  BY <1>1, <1>2, Division, TimesOrder
<1>4. BoundaryTick(pool, FALSE) = Clamp(raw) /\ pool.bitmap[w] # None
  BY DEF BoundaryTick, HasBoundary
<1>5. w \in Word
  BY <1>1 DEF Word
<1>6. pool.bitmap[w] = BitsOf(c, w) /\ BitsOf(c, w) \in Bits
  BY <1>4, <1>5, BitsAreBits DEF Follows
<1>7. M \in SUBSET (0 .. WordSize - 1) /\ M # {} /\ M \in SUBSET Nat
  BY <1>1, <1>6 DEF Bits
<1>8. Min(M) \in 0 .. WordSize - 1 /\ \A y \in M : Min(M) <= y
  BY <1>7, MinFacts
<1>9. PICK m \in Int : t = m * Spacing
  BY InitializedTicks
<1>10. ~(m <= Compressed(pool.tick))
  <2>1. ~(t <= pool.tick)
    BY <1>1, QuoteAssumption DEF Tick
  <2>2. QED  BY <1>1, <1>9, <2>1, CompressedOrder
<1>11. k <= m
  BY <1>2, <1>10
<1>12. w * WordSize + Min(M) <= m
  <2>1. CASE m > w * WordSize + (WordSize - 1)
    BY <1>1, <1>3, <1>8, <2>1
  <2>2. CASE ~(m > w * WordSize + (WordSize - 1))
    <3> DEFINE b == m - w * WordSize
    <3> HIDE DEF w, p, k
    <3>1. b \in 0 .. WordSize - 1 /\ b >= p /\ m = w * WordSize + b
      BY <1>1, <1>2, <1>3, <1>11, <2>2
    <3> USE DEF w, p, k
    <3>2. b \in BitsOf(c, w)
      BY <1>3, <1>9, <3>1, BitIsSet
    <3>3. b \in M
      BY <1>6, <3>1, <3>2
    <3>4. Min(M) <= b
      BY <1>8, <3>3
    <3> HIDE DEF b, M, w
    <3>5. QED  BY <1>3, <1>8, <3>1, <3>4
  <2>3. QED  BY <2>1, <2>2
<1>13. w * WordSize + Min(M) \in Int
  BY <1>3, <1>8
<1> HIDE DEF M, w, p, k
<1>14. raw \in Int /\ raw <= t
  BY <1>1, <1>9, <1>12, <1>13, TimesOrder
<1> HIDE DEF raw
<1>15. QED  BY <1>1, <1>4, <1>14, ClampOrder

\* Prices are ordered as their ticks are.
LEMMA SqrtOrder ==
  ASSUME NEW t \in Tick, NEW u \in Tick
  PROVE  /\ SqrtAtTick[t] \in Nat /\ SqrtAtTick[u] \in Nat
         /\ t <= u => SqrtAtTick[t] <= SqrtAtTick[u]
<1>1. t \in Int /\ u \in Int /\ (t = u \/ t < u \/ u < t)
  BY QuoteAssumption DEF Tick
<1>2. QED  BY <1>1, QuoteAssumption

\* A number between two others does not pass them.
LEMMA Between ==
  ASSUME NEW a \in Int, NEW b \in Nat, NEW s \in Nat
  PROVE  /\ ~(a <= s /\ s <= b /\ a > b)
         /\ ~(s <= a /\ b <= s /\ a < b)
  OBVIOUS

\* The pool of a view may be priced when it is quoted, and the price after a swap is a
\* number.
LEMMA QuotedIsPriced ==
  ASSUME NEW pool \in Pool, pool.liquidity > 0, NEW down \in BOOLEAN, NEW amount \in Amount
  PROVE  /\ IsPriced(pool) /\ amount \in Nat \ {0}
         /\ PriceAfter(pool, down, amount) \in Nat \ {0}
<1>1. IsPriced(pool) /\ amount \in Nat \ {0}
  BY QuoteAssumption DEF Pool, Amount, IsPriced
<1>2. CASE down
  <2>1. PriceAfter(pool, down, amount) \in 1 .. pool.price
    BY <1>1, <1>2, PriceDown
  <2>2. pool.price \in Nat
    BY <1>1 DEF IsPriced
  <2>3. QED  BY <1>1, <2>1, <2>2
<1>3. CASE ~down
  BY <1>1, <1>3, PriceUp
<1>4. QED  BY <1>2, <1>3

\* A quote is inside the range of ticks that the chain's liquidity is the same in, though
\* the words were read at one block and the events of many blocks were added since.
THEOREM QuotesCrossNoTick == Spec => []QuoteCrossesNoTick
<1>1. Inv => QuoteCrossesNoTick
  <2> SUFFICES ASSUME Inv, Tracking, NEW down \in BOOLEAN, NEW amount \in Amount,
                      IsQuoted(tracked, down, amount)
               PROVE  /\ chain.lpFee = 0 /\ chain.protocolFee = 0
                      /\ LET after == PriceAfter(tracked, down, amount) IN
                         \A t \in Initialized(chain) :
                           IF down
                             THEN ~(after <= SqrtAtTick[t] /\ SqrtAtTick[t] < chain.price)
                             ELSE ~(chain.price < SqrtAtTick[t] /\ SqrtAtTick[t] <= after)
    BY DEF QuoteCrossesNoTick
  <2> DEFINE after == PriceAfter(tracked, down, amount)
  <2>1. chain \in ChainPool /\ Follows(tracked, chain)
    <3>1. View = tracked
      BY FoldOfNone DEF Tracking, View
    <3>2. QED  BY <3>1 DEF Tracking, Inv
  <2>2. /\ tracked.lpFee = 0 /\ tracked.protocolFee = 0 /\ HasBoundary(tracked, down)
        /\ tracked.tick < MaxTick
        /\ SqrtAtTick[tracked.tick] <= tracked.price
        /\ tracked.price <= SqrtAtTick[tracked.tick + 1]
        /\ IF down THEN after > Boundary(tracked, down) ELSE after < Boundary(tracked, down)
    BY DEF IsQuoted, IsQuotable
  <2>3. /\ tracked.price = chain.price /\ tracked.lpFee = chain.lpFee
        /\ tracked.protocolFee = chain.protocolFee
        /\ tracked.tick \in Tick /\ tracked.price \in Nat
        /\ tracked.tick \in Int /\ tracked.tick + 1 \in Tick
    BY <2>1, <2>2, QuoteAssumption DEF Follows, Pool, Tick
  <2>0. after \in Int
    BY <2>1, QuotedIsPriced DEF Follows, IsQuoted, IsQuotable
  <2> HIDE DEF after
  <2>4. ASSUME NEW t \in Initialized(chain), down,
               after <= SqrtAtTick[t], SqrtAtTick[t] < chain.price
        PROVE  FALSE
    <3>1. t \in Tick /\ t \in Int
      BY InitializedTicks, QuoteAssumption DEF Tick
    <3>2. ~(tracked.tick + 1 <= t)
      <4>1. ~(SqrtAtTick[tracked.tick + 1] <= SqrtAtTick[t])
        BY <2>2, <2>3, <2>4, <3>1, SqrtOrder
      <4>2. QED  BY <2>3, <3>1, <4>1, SqrtOrder
    <3>3. t <= tracked.tick
      BY <2>3, <3>1, <3>2
    <3>4. HasBoundary(tracked, TRUE) /\ after > Boundary(tracked, TRUE)
      BY <2>2, <2>4
    <3>5. BoundaryTick(tracked, TRUE) \in Tick /\ t <= BoundaryTick(tracked, TRUE)
      BY <2>1, <3>3, <3>4, NoTickBelow
    <3>6. SqrtAtTick[t] <= Boundary(tracked, TRUE) /\ Boundary(tracked, TRUE) \in Nat
          /\ SqrtAtTick[t] \in Nat
      BY <3>1, <3>5, SqrtOrder DEF Boundary
    <3>7. after <= SqrtAtTick[t]
      BY <2>4
    <3>8. QED  BY <2>0, <3>4, <3>6, <3>7, Between
  <2>5. ASSUME NEW t \in Initialized(chain), ~down,
               chain.price < SqrtAtTick[t], SqrtAtTick[t] <= after
        PROVE  FALSE
    <3>1. t \in Tick /\ t \in Int
      BY InitializedTicks, QuoteAssumption DEF Tick
    <3>2. ~(t <= tracked.tick)
      <4>1. ~(SqrtAtTick[t] <= SqrtAtTick[tracked.tick])
        BY <2>2, <2>3, <2>5, <3>1, SqrtOrder
      <4>2. QED  BY <2>3, <3>1, <4>1, SqrtOrder
    <3>3. tracked.tick < t
      BY <2>3, <3>1, <3>2
    <3>4. HasBoundary(tracked, FALSE) /\ after < Boundary(tracked, FALSE)
      BY <2>2, <2>5
    <3>5. BoundaryTick(tracked, FALSE) \in Tick /\ BoundaryTick(tracked, FALSE) <= t
      BY <2>1, <3>3, <3>4, NoTickAbove
    <3>6. Boundary(tracked, FALSE) <= SqrtAtTick[t] /\ Boundary(tracked, FALSE) \in Nat
          /\ SqrtAtTick[t] \in Nat
      BY <3>1, <3>5, SqrtOrder DEF Boundary
    <3>7. SqrtAtTick[t] <= after
      BY <2>5
    <3>8. QED  BY <2>0, <3>4, <3>6, <3>7, Between
  <2>6. QED  BY <2>2, <2>3, <2>4, <2>5 DEF after
<1>2. QED  BY <1>1, Invariance, PTL

-----------------------------------------------------------------------------
(* There and back                                                          *)

\* The numbers of a swap down from p to q and of one up again from q to r.
LEMMA UpAgain ==
  ASSUME NEW n \in Nat \ {0}, NEW p \in Nat \ {0}, NEW q \in Nat \ {0}, NEW r \in Nat,
         q <= r, r <= p, NEW a \in Nat, NEW g \in Nat,
         n * (p - q) <= a * (q * p), (g * q) * r <= n * (r - q)
  PROVE  g <= a
<1> DEFINE d == r - q
           e == p - q
<1>1. d \in Nat /\ e \in Nat /\ d <= e /\ r \in Nat \ {0} /\ r = q + d /\ p = q + e
  OBVIOUS
<1>2. n * e <= a * (q * p) /\ (g * q) * r <= n * d
  OBVIOUS
<1> HIDE DEF d, e
<1>3. CASE d = 0
  <2>1. (g * q) * r <= 0
    BY <1>2, <1>3
  <2>2. g # 0 => (g * q) * r \in Nat \ {0}
    <3>1. g # 0 => g * q \in Nat \ {0}
      OBVIOUS
    <3>2. QED  BY <1>1, <3>1
  <2>3. QED  BY <2>1, <2>2
<1>4. CASE d # 0
  <2>1. d \in Nat \ {0} /\ e \in Nat \ {0}
    BY <1>1, <1>4
  <2>2. (n * e) * d <= (a * (q * p)) * d
    <3>1. n * e \in Int /\ a * (q * p) \in Int
      BY <2>1
    <3>2. QED  BY <1>2, <2>1, <3>1, TimesOrder
  <2>3. ((g * q) * r) * e <= (n * d) * e
    <3>1. (g * q) * r \in Int /\ n * d \in Int
      BY <2>1
    <3>2. QED  BY <1>2, <2>1, <3>1, TimesOrder
  <2>4. (n * e) * d = (n * d) * e
    BY <2>1
  <2>5. ((g * q) * r) * e = (g * (e * r)) * q /\ (a * (q * p)) * d = (a * (p * d)) * q
    BY <1>1, <2>1
  <2>6. (g * (e * r)) * q <= (a * (p * d)) * q
    <3>1. /\ (n * e) * d \in Int /\ (g * (e * r)) * q \in Int /\ (a * (p * d)) * q \in Int
      BY <1>1, <2>1
    <3>2. QED  BY <2>2, <2>3, <2>4, <2>5, <3>1
  <2>7. g * (e * r) <= a * (p * d)
    <3>1. g * (e * r) \in Int /\ a * (p * d) \in Int
      BY <1>1, <2>1
    <3>2. QED  BY <2>6, <3>1, TimesOrder
  <2>8. p * d <= e * r
    <3>1. p * d = q * d + e * d /\ e * r = e * q + e * d
      BY <1>1, <2>1
    <3>2. d * q <= e * q /\ d * q = q * d
      BY <1>1, <2>1, TimesOrder
    <3>3. q * d \in Int /\ e * d \in Int /\ e * q \in Int
      BY <2>1
    <3>4. QED  BY <3>1, <3>2, <3>3
  <2>9. e * r \in Nat \ {0} /\ p * d \in Nat
    BY <1>1, <2>1
  <2> DEFINE x == e * r
             y == p * d
  <2>10. x \in Nat \ {0} /\ y \in Nat /\ y <= x /\ g * x <= a * y
    BY <2>7, <2>8, <2>9
  <2> HIDE DEF x, y
  <2>11. a * y <= a * x
    <3>1. a = 0 \/ a \in Nat \ {0}
      OBVIOUS
    <3>2. a \in Nat \ {0} => y * a <= x * a
      BY <2>10, TimesOrder
    <3>3. y * a = a * y /\ x * a = a * x
      BY <2>10
    <3>4. QED  BY <2>10, <3>1, <3>2, <3>3
  <2>12. g * x <= a * x
    <3>1. g * x \in Int /\ a * x \in Int /\ a * y \in Int
      BY <2>10
    <3>2. QED  BY <2>10, <2>11, <3>1
  <2>13. QED  BY <2>10, <2>12, TimesOrder
<1>5. QED  BY <1>3, <1>4

\* Who swaps and swaps back what he got, or less, has not gained.
LEMMA NoGain ==
  ASSUME NEW pool, IsPriced(pool), NEW down \in BOOLEAN, NEW amount \in Nat \ {0},
         NEW back, back.liquidity = pool.liquidity,
         back.price = PriceAfter(pool, down, amount),
         NEW out \in Nat \ {0}, out <= Gross(pool, down, amount)
  PROVE  Gross(back, ~down, out) \in Nat /\ Gross(back, ~down, out) <= amount
<1> DEFINE L == pool.liquidity
           p == pool.price
           q == PriceAfter(pool, down, amount)
           r == PriceAfter(back, ~down, out)
           g == Gross(back, ~down, out)
           n == L * Q
<1>1. /\ L \in Nat \ {0} /\ p \in Nat \ {0} /\ Q \in Nat \ {0} /\ n \in Nat \ {0}
      /\ q \in Nat \ {0}
  <2>1. L \in Nat \ {0} /\ p \in Nat \ {0} /\ Q \in Nat \ {0}
    BY QuoteAssumption DEF IsPriced
  <2>2. q \in Nat \ {0}
    <3>1. CASE down
      <4>1. q \in 1 .. p
        BY <3>1, PriceDown
      <4> HIDE DEF q, p
      <4>2. QED  BY <2>1, <4>1
    <3>2. CASE ~down
      BY <3>2, PriceUp
    <3>3. QED  BY <3>1, <3>2
  <2> HIDE DEF L
  <2>3. QED  BY <2>1, <2>2
<1>2. IsPriced(back) /\ back.price = q /\ back.liquidity = L
  BY <1>1 DEF IsPriced
<1>3. CASE down
  <2>1. q <= p /\ n * (p - q) <= amount * (q * p)
    <3>1. /\ q \in 1 .. p
          /\ \A k \in Int : q <= k <=> L * Q * (p - k) <= amount * (k * p)
      BY <1>3, PriceDown
    <3> HIDE DEF q, L, p
    <3>2. QED  BY <1>1, <3>1
  <2>2. out * Q <= L * (p - q)
    <3> DEFINE gross == Gross(pool, TRUE, amount)
    <3>1. \A k \in Int : k <= gross <=> k * Q <= L * (p - q)
      BY <1>3, GrossDown
    <3>2. out <= gross
      <4>1. down = TRUE
        BY <1>3
      <4>2. out <= Gross(pool, down, amount)
        OBVIOUS
      <4>3. QED  BY <4>1, <4>2, Zenon
    <3> HIDE DEF q, L, p, gross
    <3>3. QED  BY <3>1, <3>2
  <2>3. r \in Nat \ {0} /\ q <= r /\ (r - q) * L <= out * Q
    <3>1. /\ r \in Nat \ {0} /\ q <= r
          /\ \A k \in Int : k <= r <=> (k - q) * L <= out * Q
      BY <1>2, <1>3, PriceUp
    <3> HIDE DEF q, L, r
    <3>2. QED  BY <3>1
  <2>4. g \in Nat /\ (g * q) * r <= n * (r - q)
    <3>1. /\ g \in Nat
          /\ \A k \in Int : k <= g <=> (k * q) * r <= L * Q * (r - q)
      BY <1>2, <1>3, GrossUp
    <3> HIDE DEF q, L, r, g
    <3>2. QED  BY <3>1
  <2> HIDE DEF L, p, q, r, g, n
  <2>5. r <= p
    <3>1. (r - q) * L <= (p - q) * L
      <4>1. (p - q) * L = L * (p - q) /\ (r - q) * L \in Int /\ out * Q \in Int
            /\ L * (p - q) \in Int
        BY <1>1, <2>3
      <4>2. QED  BY <2>2, <2>3, <4>1
    <3>2. r - q \in Int /\ p - q \in Int
      BY <1>1, <2>3
    <3>3. r - q <= p - q
      BY <1>1, <3>1, <3>2, TimesOrder
    <3>4. QED  BY <1>1, <2>3, <3>3
  <2>6. g <= amount
    BY <1>1, <2>1, <2>3, <2>4, <2>5, UpAgain
  <2>7. QED  BY <2>4, <2>6 DEF g
<1>4. CASE ~down
  <2>1. p <= q /\ (q - p) * L <= amount * Q
    <3>1. /\ q \in Nat \ {0} /\ p <= q
          /\ \A k \in Int : k <= q <=> (k - p) * L <= amount * Q
      BY <1>4, PriceUp
    <3> HIDE DEF q, L, p
    <3>2. QED  BY <3>1
  <2>2. (out * p) * q <= n * (q - p)
    <3> DEFINE gross == Gross(pool, FALSE, amount)
    <3>1. \A k \in Int : k <= gross <=> (k * p) * q <= L * Q * (q - p)
      BY <1>4, GrossUp
    <3>2. out <= gross
      <4>1. down = FALSE
        BY <1>4
      <4>2. out <= Gross(pool, down, amount)
        OBVIOUS
      <4>3. QED  BY <4>1, <4>2, Zenon
    <3> HIDE DEF q, L, p, gross
    <3>3. QED  BY <3>1, <3>2
  <2>3. r \in 1 .. q /\ \A k \in Int : r <= k <=> n * (q - k) <= out * (k * q)
    BY <1>2, <1>4, PriceDown
  <2>4. g \in Nat /\ g * Q <= L * (q - r)
    <3>1. g \in Nat /\ \A k \in Int : k <= g <=> k * Q <= L * (q - r)
      BY <1>2, <1>4, GrossDown
    <3> HIDE DEF q, L, r, g
    <3>2. QED  BY <3>1
  <2> HIDE DEF L, p, q, r, g, n
  <2>5. ~(r <= p - 1)
    <3> DEFINE k == p - 1
               x == out * (p * q)
               y == n * (q - p)
    <3>1. k \in Int /\ n * (q - k) = y + n /\ out * (k * q) = x - out * q
      <4>1. q - k = (q - p) + 1 /\ n * ((q - p) + 1) = n * (q - p) + n
        BY <1>1
      <4>2. k * q = p * q - q /\ out * (p * q - q) = out * (p * q) - out * q
        BY <1>1
      <4>3. QED  BY <1>1, <4>1, <4>2
    <3>2. x <= y
      <4>1. (out * p) * q = out * (p * q)
        BY <1>1
      <4>2. QED  BY <2>2, <4>1
    <3>3. x \in Int /\ y \in Int /\ out * q \in Nat
      BY <1>1
    <3> HIDE DEF x, y
    <3>4. ~(n * (q - k) <= out * (k * q))
      BY <1>1, <3>1, <3>2, <3>3
    <3>5. QED  BY <2>3, <3>1, <3>4
  <2>6. L * (q - r) <= amount * Q
    <3>1. r \in Int /\ q - r <= q - p /\ q - r \in Int /\ q - p \in Int
      BY <1>1, <2>3, <2>5
    <3>2. (q - r) * L <= (q - p) * L
      BY <1>1, <3>1, TimesOrder
    <3>3. L * (q - r) = (q - r) * L /\ (q - p) * L \in Int /\ L * (q - r) \in Int
          /\ amount * Q \in Int
      BY <1>1, <3>1
    <3>4. QED  BY <2>1, <3>2, <3>3
  <2>7. g <= amount
    <3>1. r \in Int /\ L * (q - r) \in Int /\ g * Q \in Int /\ amount * Q \in Int
      BY <1>1, <2>3, <2>4
    <3>2. g * Q <= amount * Q
      BY <2>4, <2>6, <3>1
    <3>3. QED  BY <1>1, <2>4, <3>2, TimesOrder
  <2>8. QED  BY <2>4, <2>7 DEF g
<1>5. QED  BY <1>3, <1>4

-----------------------------------------------------------------------------
(* The depth                                                               *)

\* With less than the lower boundary is away, the price stays above it.
LEMMA StaysAbove ==
  ASSUME NEW pool, IsPriced(pool), NEW amount \in Nat \ {0},
         NEW lo \in Nat \ {0}, lo < pool.price,
         amount < ((pool.liquidity * Q * (pool.price - lo)) \div pool.price) \div lo
  PROVE  PriceAfter(pool, TRUE, amount) > lo
<1> DEFINE L == pool.liquidity
           p == pool.price
           after == PriceAfter(pool, TRUE, amount)
           n == L * Q * (p - lo)
           whole == n \div p
           k == amount + 1
<1>1. L \in Nat \ {0} /\ p \in Nat \ {0} /\ Q \in Nat \ {0} /\ lo < p
  BY QuoteAssumption DEF IsPriced
<1>2. /\ after \in 1 .. p
      /\ \A j \in Int : after <= j <=> L * Q * (p - j) <= amount * (j * p)
  BY PriceDown
<1>3. amount < whole \div lo
  OBVIOUS
<1> HIDE DEF L, p, after
<1>4. n \in Int /\ k \in Int /\ k * lo \in Int
  <2>1. L * Q \in Int /\ p - lo \in Int
    BY <1>1
  <2>2. QED  BY <2>1
<1>11. after <= lo <=> n <= amount * (lo * p)
  BY <1>2
<1> HIDE DEF n
<1>5. whole \in Int /\ (k * lo <= whole <=> (k * lo) * p <= n)
  BY <1>1, <1>4, Quotients
<1> HIDE DEF whole
<1>6. k <= whole \div lo
  <2>1. whole \div lo \in Int
    BY <1>5, Quotients
  <2>2. QED  BY <1>3, <2>1
<1>7. k * lo <= whole
  BY <1>4, <1>5, <1>6, Quotients
<1>8. (k * lo) * p = amount * (lo * p) + lo * p /\ lo * p \in Nat \ {0}
      /\ amount * (lo * p) \in Int
  BY <1>1
<1>9. ~(n <= amount * (lo * p))
  BY <1>4, <1>5, <1>7, <1>8
<1>10. after > lo
  BY <1>1, <1>2, <1>9, <1>11
<1>12. QED  BY <1>10 DEF after

LEMMA StaysBelow ==
  ASSUME NEW pool, IsPriced(pool), NEW amount \in Nat \ {0},
         NEW hi \in Nat \ {0}, pool.price < hi,
         amount < (pool.liquidity * (hi - pool.price)) \div Q
  PROVE  PriceAfter(pool, FALSE, amount) < hi
<1> DEFINE L == pool.liquidity
           p == pool.price
           after == PriceAfter(pool, FALSE, amount)
           n == L * (hi - p)
           k == amount + 1
<1>1. L \in Nat \ {0} /\ p \in Nat \ {0} /\ Q \in Nat \ {0}
  BY QuoteAssumption DEF IsPriced
<1>2. after \in Nat /\ \A j \in Int : j <= after <=> (j - p) * L <= amount * Q
  BY PriceUp
<1>3. amount < n \div Q
  OBVIOUS
<1> HIDE DEF L, p, after
<1>4. n \in Int /\ k \in Int /\ n = (hi - p) * L
  BY <1>1
<1> HIDE DEF n
<1>5. k <= n \div Q
  <2>1. n \div Q \in Int
    BY <1>1, <1>4, Quotients
  <2>2. QED  BY <1>3, <2>1
<1>6. k * Q <= n
  BY <1>1, <1>4, <1>5, Quotients
<1>7. k * Q = amount * Q + Q /\ amount * Q \in Int
  BY <1>1
<1>8. ~(n <= amount * Q)
  BY <1>1, <1>4, <1>6, <1>7
<1>9. after < hi
  BY <1>2, <1>4, <1>8
<1>10. QED  BY <1>9 DEF after

\* A swap that gives less than the upper boundary is away does not reach it.
LEMMA EndsBelow ==
  ASSUME NEW pool, IsPriced(pool), NEW amount \in Nat \ {0},
         NEW hi \in Nat \ {0}, pool.price < hi,
         Gross(pool, FALSE, amount)
           < ((pool.liquidity * Q * (hi - pool.price)) \div hi) \div pool.price
  PROVE  PriceAfter(pool, FALSE, amount) < hi
<1> DEFINE n == pool.liquidity * Q
           p == pool.price
           after == PriceAfter(pool, FALSE, amount)
           gross == Gross(pool, FALSE, amount)
           room == n * (hi - p)
           whole == room \div hi
           k == whole \div p
<1>1. p \in Nat \ {0} /\ n \in Nat \ {0} /\ p < hi
  <2>1. pool.liquidity \in Nat \ {0} /\ pool.price \in Nat \ {0} /\ Q \in Nat \ {0}
    BY QuoteAssumption DEF IsPriced
  <2>2. QED  BY <2>1
<1>2. /\ after \in Nat \ {0} /\ p <= after
      /\ gross \in Nat
      /\ \A j \in Int : j <= gross <=> (j * p) * after <= n * (after - p)
  BY PriceUp, GrossUp
<1>3. gross < k
  OBVIOUS
<1> HIDE DEF n, p, after, gross
<1>4. room \in Int
  BY <1>1
<1> HIDE DEF room
<1>5. whole \in Int /\ \A j \in Int : j <= whole <=> j * hi <= room
  BY <1>4, Quotients
<1> HIDE DEF whole
<1>6. k \in Int /\ k * p <= whole
  <2>1. k \in Int /\ k <= whole \div p
    BY <1>1, <1>5, Quotients
  <2>2. QED  BY <1>1, <1>5, <2>1, Quotients
<1>7. (k * p) * hi <= room
  <2>1. k * p \in Int
    BY <1>1, <1>6
  <2>2. QED  BY <1>5, <1>6, <2>1
<1> HIDE DEF k
<1>8. ASSUME hi <= after  PROVE FALSE
  <2> DEFINE x == k * p
  <2>1. x \in Int
    BY <1>1, <1>6
  <2>2. x * hi <= n * (hi - p)
    BY <1>7 DEF room
  <2> HIDE DEF x
  <2>3. (x * after) * hi <= (n * (after - p)) * hi
    <3>1. (x * hi) * after <= (n * (hi - p)) * after
      <4>1. x * hi \in Int /\ n * (hi - p) \in Int
        BY <1>1, <2>1
      <4>2. QED  BY <1>2, <2>2, <4>1, TimesOrder
    <3>2. (n * (hi - p)) * after <= (n * (after - p)) * hi
      <4> DEFINE np == n * p
                 na == (n * after) * hi
      <4>1. np \in Nat \ {0}
        BY <1>1
      <4>2. (n * (hi - p)) * after = na - np * after
            /\ (n * (after - p)) * hi = na - np * hi
        BY <1>1, <1>2
      <4>3. hi * np <= after * np
        BY <1>2, <1>8, <4>1, TimesOrder
      <4>4. hi * np = np * hi /\ after * np = np * after
            /\ na \in Int /\ np * hi \in Int /\ np * after \in Int
        BY <1>1, <1>2, <4>1
      <4> HIDE DEF np, na
      <4>5. QED  BY <4>2, <4>3, <4>4
    <3>3. (x * hi) * after = (x * after) * hi
      BY <1>2, <2>1
    <3>4. (x * hi) * after \in Int /\ (n * (hi - p)) * after \in Int
          /\ (n * (after - p)) * hi \in Int
      BY <1>1, <1>2, <2>1
    <3>5. QED  BY <3>1, <3>2, <3>3, <3>4
  <2>4. x * after <= n * (after - p)
    <3>1. x * after \in Int /\ n * (after - p) \in Int
      BY <1>1, <1>2, <2>1
    <3>2. QED  BY <2>3, <3>1, TimesOrder
  <2>5. k <= gross
    BY <1>2, <1>6, <2>4 DEF x
  <2>6. QED  BY <1>2, <1>3, <1>6, <2>5
<1>9. after < hi
  BY <1>2, <1>8
<1>10. QED  BY <1>9 DEF after

LEMMA EndsAbove ==
  ASSUME NEW pool, IsPriced(pool), NEW amount \in Nat \ {0},
         NEW lo \in Nat \ {0}, lo < pool.price,
         Gross(pool, TRUE, amount) < (pool.liquidity * (pool.price - lo)) \div Q
  PROVE  PriceAfter(pool, TRUE, amount) > lo
<1> DEFINE L == pool.liquidity
           p == pool.price
           after == PriceAfter(pool, TRUE, amount)
           gross == Gross(pool, TRUE, amount)
           room == L * (p - lo)
           k == room \div Q
<1>1. L \in Nat \ {0} /\ p \in Nat \ {0} /\ Q \in Nat \ {0} /\ lo < p
  BY QuoteAssumption DEF IsPriced
<1>2. /\ after \in 1 .. p /\ gross \in Nat
      /\ \A j \in Int : j <= gross <=> j * Q <= L * (p - after)
  BY PriceDown, GrossDown
<1>3. gross < k
  OBVIOUS
<1> HIDE DEF L, p, after, gross
<1>4. room \in Int
  BY <1>1
<1> HIDE DEF room
<1>5. k \in Int /\ k * Q <= room
  <2>1. k \in Int /\ k <= room \div Q
    BY <1>1, <1>4, Quotients
  <2>2. QED  BY <1>1, <1>4, <2>1, Quotients
<1> HIDE DEF k
<1>6. ASSUME after <= lo  PROVE FALSE
  <2>1. p - lo <= p - after /\ p - lo \in Int /\ p - after \in Int
    BY <1>1, <1>2, <1>6
  <2>2. (p - lo) * L <= (p - after) * L
    BY <1>1, <2>1, TimesOrder
  <2>3. (p - lo) * L = room /\ (p - after) * L = L * (p - after)
        /\ L * (p - after) \in Int /\ k * Q \in Int
    BY <1>1, <1>2, <1>5, <2>1 DEF room
  <2>4. k * Q <= L * (p - after)
    BY <1>4, <1>5, <2>2, <2>3
  <2>5. QED  BY <1>2, <1>3, <1>5, <2>4
<1>7. after > lo
  BY <1>1, <1>2, <1>6
<1>8. QED  BY <1>7 DEF after

\* A pool that is tracked at the end of a block is a Pool, and so are its price and
\* liquidity numbers when it can be quoted.
LEMMA TrackedIsPool ==
  ASSUME Inv, Tracking
  PROVE  tracked \in Pool
<1>1. View = tracked
  BY FoldOfNone DEF Tracking, View
<1>2. QED  BY <1>1 DEF Tracking, Inv, Follows

\* Rounding never favours the trader, at any prices, liquidity and fees.
THEOREM RoundTripsLose == Spec => []RoundTripNeverGains
<1>1. Inv => RoundTripNeverGains
  <2> SUFFICES ASSUME Inv, Tracking, NEW down \in BOOLEAN, NEW amount \in Amount,
                      IsQuoted(tracked, down, amount)
               PROVE  LET out == AmountOut(tracked, down, amount)
                          back == [tracked EXCEPT !.price = PriceAfter(tracked, down, amount)] IN
                      out > 0 => AmountOut(back, ~down, out) <= amount
    BY DEF RoundTripNeverGains
  <2>1. PICK pool : pool = tracked
    OBVIOUS
  <2> DEFINE out == AmountOut(pool, down, amount)
             back == [pool EXCEPT !.price = PriceAfter(pool, down, amount)]
  <2>2. /\ pool \in Pool /\ IsPriced(pool) /\ amount \in Nat \ {0}
        /\ PriceAfter(pool, down, amount) \in Nat \ {0}
    BY <2>1, TrackedIsPool, QuotedIsPriced DEF IsQuoted, IsQuotable
  <2>3. back.liquidity = pool.liquidity /\ back.price = PriceAfter(pool, down, amount)
    BY <2>2 DEF Pool
  <2>4. Gross(pool, down, amount) \in Nat
    <3>1. CASE down
      BY <2>2, <3>1, GrossDown
    <3>2. CASE ~down
      BY <2>2, <3>2, GrossUp
    <3>3. QED  BY <3>1, <3>2
  <2>5. out \in Int /\ out <= Gross(pool, down, amount)
    BY <2>4, FeesAreTaken
  <2> HIDE DEF out, back
  <2>6. ASSUME out > 0  PROVE AmountOut(back, ~down, out) <= amount
    <3>1. out \in Nat \ {0}
      BY <2>5, <2>6
    <3>2. Gross(back, ~down, out) \in Nat /\ Gross(back, ~down, out) <= amount
      BY <2>2, <2>3, <2>5, <3>1, NoGain
    <3>3. AmountOut(back, ~down, out) \in Int
          /\ AmountOut(back, ~down, out) <= Gross(back, ~down, out)
      BY <3>2, FeesAreTaken
    <3>4. QED  BY <2>2, <3>2, <3>3
  <2>7. QED  BY <2>1, <2>6 DEF out, back
<1>2. QED  BY <1>1, Invariance, PTL

\* The lesser of two numbers.
LEMMA LesserOfTwo ==
  ASSUME NEW a \in Int, NEW b \in Int, NEW x \in Int, x < Min({a, b})
  PROVE  x < a /\ x < b
<1>1. a <= b \/ b <= a
  OBVIOUS
<1>2. \E m \in {a, b} : \A y \in {a, b} : m =< y
  BY <1>1
<1>3. Min({a, b}) \in {a, b} /\ \A y \in {a, b} : Min({a, b}) <= y
  BY <1>2 DEF Min
<1>4. QED  BY <1>3

\* Where a word was read, the boundary in it is a price.
LEMMA BoundaryIsPrice ==
  ASSUME NEW pool \in Pool, NEW down \in BOOLEAN, HasBoundary(pool, down)
  PROVE  Boundary(pool, down) \in Nat \ {0}
<1> DEFINE k == Compressed(pool.tick) + (IF down THEN 0 ELSE 1)
           w == k \div WordSize
           bits == pool.bitmap[w]
           Low == {b \in bits : b <= k % WordSize} \cup {0}
           High == {b \in bits : b >= k % WordSize} \cup {WordSize - 1}
           bit == IF down THEN Max(Low) ELSE Min(High)
           raw == (w * WordSize + bit) * Spacing
<1>1. pool.tick \in Tick /\ Spacing \in Nat \ {0} /\ WordSize \in Nat \ {0}
  BY QuoteAssumption DEF Pool
<1>2. BoundaryTick(pool, down) = Clamp(raw) /\ bits # None
  BY DEF BoundaryTick, HasBoundary
<1>3. w \in Int /\ w \in Word
  <2>1. k \in Int
    BY <1>1, CompressedOrder
  <2>2. w \in Word
    BY <1>1 DEF Word
  <2> HIDE DEF k
  <2>3. QED  BY <1>1, <2>1, <2>2, Division
<1> HIDE DEF w
<1>4. bits \in SUBSET (0 .. WordSize - 1)
  BY <1>2, <1>3 DEF Pool, Bits
<1> HIDE DEF bits, k
<1>5. bit \in Int
  <2> DEFINE last == WordSize - 1
  <2>1. last \in Nat /\ 0 \in 0 .. last /\ last \in 0 .. last /\ bits \subseteq 0 .. last
    BY <1>1, <1>4
  <2>2. Low \in SUBSET (0 .. last) /\ Low # {} /\ High \in SUBSET (0 .. last) /\ High # {}
    <3> HIDE DEF last
    <3>1. Low \in SUBSET (0 .. last) /\ Low # {}
      BY <2>1
    <3> USE DEF last
    <3>2. last \in High /\ \A x \in High : x = last \/ x \in bits
      OBVIOUS
    <3> HIDE DEF last, High
    <3>3. QED  BY <2>1, <3>1, <3>2
  <2> HIDE DEF Low, High, last
  <2>3. Max(Low) \in 0 .. last
    BY <2>1, <2>2, MaxFacts
  <2>4. Min(High) \in 0 .. last
    <3>1. High \in SUBSET Nat
      BY <2>1, <2>2
    <3>2. QED  BY <2>2, <3>1, MinFacts
  <2>5. QED  BY <2>1, <2>3, <2>4
<1> HIDE DEF bit
<1>6. raw \in Int
  <2>1. w * WordSize \in Int
    BY <1>1, <1>3
  <2>2. w * WordSize + bit \in Int
    BY <1>5, <2>1
  <2>3. QED  BY <1>1, <2>2, TimesOrder
<1> HIDE DEF raw
<1>7. BoundaryTick(pool, down) \in Tick
  BY <1>1, <1>2, <1>6, ClampOrder
<1>8. QED  BY <1>7, QuoteAssumption DEF Boundary

\* An amount of less than the depth stays inside the boundaries, on its way in and on its
\* way out, at any prices and liquidity.
THEOREM DepthsAreInside == Spec => []DepthIsInside
<1>1. Inv => DepthIsInside
  <2> SUFFICES ASSUME Inv, Tracking, NEW zero \in BOOLEAN, HasDepth(tracked, zero),
                      NEW amount \in Amount
               PROVE  /\ amount < Depth(tracked, zero) => StaysInside(tracked, zero, amount)
                      /\ Gross(tracked, ~zero, amount) < Depth(tracked, zero) =>
                           StaysInside(tracked, ~zero, amount)
    BY DEF DepthIsInside
  <2>1. PICK pool : pool = tracked
    OBVIOUS
  <2> DEFINE lo == Boundary(pool, TRUE)
             hi == Boundary(pool, FALSE)
             p == pool.price
             L == pool.liquidity
  <2>2. /\ pool \in Pool /\ IsPriced(pool) /\ amount \in Nat \ {0}
    BY <2>1, TrackedIsPool, QuotedIsPriced DEF HasDepth, IsQuoted, IsQuotable
  <2>3. lo \in Nat \ {0} /\ hi \in Nat \ {0} /\ lo < p /\ p < hi
    BY <2>1, <2>2, BoundaryIsPrice DEF HasDepth
  <2>4. L \in Nat \ {0} /\ p \in Nat \ {0} /\ Q \in Nat \ {0}
    BY <2>2, QuoteAssumption DEF IsPriced
  <2>8. Gross(pool, TRUE, amount) \in Nat /\ Gross(pool, FALSE, amount) \in Nat
    <3>1. Gross(pool, TRUE, amount) \in Nat
      BY <2>2, GrossDown
    <3>2. Gross(pool, FALSE, amount) \in Nat
      BY <2>2, GrossUp
    <3>3. QED  BY <3>1, <3>2
  <2>5. CASE zero
    <3> DEFINE below == ((L * Q * (p - lo)) \div p) \div lo
               above == ((L * Q * (hi - p)) \div hi) \div p
           depth == Depth(pool, TRUE)
    <3>1. depth = Min({below, above})
      BY DEF Depth
    <3>2. below \in Int /\ above \in Int
      <4> HIDE DEF lo, hi, p, L
      <4>1. L * Q * (p - lo) \in Int /\ L * Q * (hi - p) \in Int
        <5>1. L * Q \in Int /\ p - lo \in Int /\ hi - p \in Int
          BY <2>3, <2>4
        <5>2. QED  BY <5>1
      <4>2. (L * Q * (p - lo)) \div p \in Int /\ (L * Q * (hi - p)) \div hi \in Int
        BY <2>3, <2>4, <4>1, Division
      <4>3. QED  BY <2>3, <2>4, <4>2, Division
    <3>3. ASSUME amount < depth  PROVE PriceAfter(pool, TRUE, amount) > lo
      <4>1. amount < below
        <5> HIDE DEF below, above, depth
        <5>1. amount \in Int /\ amount < Min({below, above})
          BY <2>2, <3>1, <3>3
        <5>2. QED  BY <3>2, <5>1, LesserOfTwo
      <4> HIDE DEF lo
      <4>2. QED  BY <2>2, <2>3, <4>1, StaysAbove
    <3>4. ASSUME Gross(pool, FALSE, amount) < depth
          PROVE  PriceAfter(pool, FALSE, amount) < hi
      <4> DEFINE gross == Gross(pool, FALSE, amount)
      <4>1. gross < above
        <5>1. gross \in Nat
          BY <2>8, Zenon
        <5> HIDE DEF below, above, depth, gross
        <5>2. gross < Min({below, above})
          BY <3>1, <3>4 DEF gross
        <5>3. QED  BY <3>2, <5>1, <5>2, LesserOfTwo
      <4> HIDE DEF hi
      <4>2. QED  BY <2>2, <2>3, <4>1, EndsBelow
    <3>5. QED  BY <2>1, <2>5, <3>3, <3>4 DEF StaysInside
  <2>6. CASE ~zero
    <3> DEFINE below == (L * (p - lo)) \div Q
               above == (L * (hi - p)) \div Q
           depth == Depth(pool, FALSE)
    <3>1. depth = Min({below, above})
      BY DEF Depth
    <3>2. below \in Int /\ above \in Int
      <4> HIDE DEF lo, hi, p, L
      <4>1. L * (p - lo) \in Int /\ L * (hi - p) \in Int
        BY <2>3, <2>4
      <4>2. QED  BY <2>4, <4>1, Division
    <3>3. ASSUME amount < depth  PROVE PriceAfter(pool, FALSE, amount) < hi
      <4>1. amount < above
        <5> HIDE DEF below, above, depth
        <5>1. amount \in Int /\ amount < Min({below, above})
          BY <2>2, <3>1, <3>3
        <5>2. QED  BY <3>2, <5>1, LesserOfTwo
      <4> HIDE DEF hi
      <4>2. QED  BY <2>2, <2>3, <4>1, StaysBelow
    <3>4. ASSUME Gross(pool, TRUE, amount) < depth
          PROVE  PriceAfter(pool, TRUE, amount) > lo
      <4> DEFINE gross == Gross(pool, TRUE, amount)
      <4>1. gross < below
        <5>1. gross \in Nat
          BY <2>8, Zenon
        <5> HIDE DEF below, above, depth, gross
        <5>2. gross < Min({below, above})
          BY <3>1, <3>4 DEF gross
        <5>3. QED  BY <3>2, <5>1, <5>2, LesserOfTwo
      <4> HIDE DEF lo
      <4>2. QED  BY <2>2, <2>3, <4>1, EndsAbove
    <3>5. QED  BY <2>1, <2>6, <3>3, <3>4 DEF StaysInside
  <2>7. QED  BY <2>5, <2>6
<1>2. QED  BY <1>1, Invariance, PTL

-----------------------------------------------------------------------------
(* The ids of a list                                                       *)

\* What Unique has made of the descriptors at a set of indices.
ListedAs(pools, s, id) == {i \in s : pools[i].id = id}

Described(pools, s) ==
  [last |-> [id \in {pools[i].id : i \in s} |-> pools[Max(ListedAs(pools, s, id))]],
   conflicts |-> {pools[i].id : i \in {j \in s :
                    \E k \in s : pools[k].id = pools[j].id /\ pools[k] # pools[j]}}]

LEMMA DescribedNone ==
  ASSUME NEW pools
  PROVE  Described(pools, {}) = [last |-> [id \in {} |-> None], conflicts |-> {}]
<1>1. {pools[i].id : i \in {}} = {}
  OBVIOUS
<1>2. [id \in {} |-> pools[Max(ListedAs(pools, {}, id))]] = [id \in {} |-> None]
  OBVIOUS
<1>3. QED  BY <1>1, <1>2 DEF Described

\* The last index at which an id of the set is listed.
IsLast(pools, s, id, last) ==
  /\ last \in s /\ pools[last].id = id
  /\ \A j \in s : pools[j].id = id => j <= last

LEMMA LastListed ==
  ASSUME NEW n \in Nat, NEW pools, NEW s \in SUBSET (1 .. n), NEW id,
         ListedAs(pools, s, id) # {}
  PROVE  IsLast(pools, s, id, Max(ListedAs(pools, s, id)))
<1> DEFINE T == ListedAs(pools, s, id)
<1>1. T \in SUBSET (0 .. n) /\ T # {}
  <2>1. T \subseteq s /\ s \subseteq 1 .. n /\ 1 .. n \subseteq 0 .. n
    BY DEF ListedAs
  <2>2. QED  BY <2>1
<1> HIDE DEF T
<1>2. Max(T) \in T /\ \A y \in T : y <= Max(T)
  BY <1>1, MaxFacts
<1>3. QED  BY <1>2 DEF T, ListedAs, IsLast

LEMMA DescribedStep ==
  ASSUME NEW n \in Nat, NEW pools, NEW s \in SUBSET (1 .. n), s # {}
  PROVE  Described(pools, s)
           = Insert(Described(pools, s \ {Max(s)}), pools[Max(s)])
<1> DEFINE m == Max(s)
           t == s \ {m}
           p == pools[m]
           old == Described(pools, t)
           new == Described(pools, s)
           Ids(u) == {pools[i].id : i \in u}
<1>1. m \in s /\ m \in 1 .. n /\ \A i \in s : i <= m
  <2>1. s \in SUBSET (0 .. n)
    OBVIOUS
  <2>2. QED  BY <2>1, MaxFacts
<1> HIDE DEF m
<1>2. s = t \cup {m} /\ m \notin t
  BY <1>1
<1>3. Ids(s) = Ids(t) \cup {p.id}
  BY <1>2
<1>4. DOMAIN old.last = Ids(t) /\ DOMAIN new.last = Ids(s)
  BY DEF Described
<1>5. ASSUME NEW id \in Ids(s)
      PROVE  new.last[id] = IF id = p.id THEN p ELSE old.last[id]
  <2>1. new.last[id] = pools[Max(ListedAs(pools, s, id))]
    BY <1>5 DEF Described
  <2>2. CASE id = p.id
    <3>1. m \in ListedAs(pools, s, id)
      BY <1>1, <2>2 DEF ListedAs
    <3> DEFINE l == Max(ListedAs(pools, s, id))
    <3>2. l \in s /\ m <= l
      BY <1>1, <2>2, <3>1, LastListed DEF IsLast
    <3> HIDE DEF l
    <3>3. l = m
      BY <1>1, <3>2
    <3>4. QED  BY <2>1, <2>2, <3>3 DEF l
  <2>3. CASE id # p.id
    <3>1. ListedAs(pools, s, id) = ListedAs(pools, t, id)
      BY <1>2, <2>3 DEF ListedAs
    <3>2. id \in Ids(t)
      BY <1>3, <2>3
    <3>3. old.last[id] = pools[Max(ListedAs(pools, t, id))]
      BY <3>2 DEF Described
    <3>4. QED  BY <2>1, <2>3, <3>1, <3>3
  <2>4. QED  BY <2>2, <2>3
<1>6. new.last = [id \in DOMAIN old.last \cup {p.id} |->
                    IF id = p.id THEN p ELSE old.last[id]]
  <2>1. new.last = [id \in Ids(s) |-> new.last[id]]
    BY DEF Described
  <2> HIDE DEF old, new, Ids, p, t
  <2>2. QED  BY <1>3, <1>4, <1>5, <2>1
<1>7. new.conflicts = IF p.id \in DOMAIN old.last /\ old.last[p.id] # p
                        THEN old.conflicts \cup {p.id} ELSE old.conflicts
  <2> DEFINE Differs(u) == {j \in u : \E k \in u : pools[k].id = pools[j].id /\ pools[k] # pools[j]}
             Conflicts(u) == {pools[i].id : i \in Differs(u)}
  <2>1. old.conflicts = Conflicts(t) /\ new.conflicts = Conflicts(s)
    BY DEF Described
  <2>2. Conflicts(t) \subseteq Conflicts(s)
    BY <1>2
  <2>3. ASSUME NEW c \in Conflicts(s), c # p.id  PROVE c \in Conflicts(t)
    <3>1. PICK j \in s, k \in s : c = pools[j].id /\ pools[k].id = c /\ pools[k] # pools[j]
      BY <2>3
    <3>2. j \in t /\ k \in t
      BY <1>2, <2>3, <3>1
    <3>3. QED  BY <3>1, <3>2
  <2>4. CASE p.id \in DOMAIN old.last
    <3> DEFINE l == Max(ListedAs(pools, t, p.id))
    <3>1. PICK other \in t : pools[other].id = p.id
      BY <1>4, <2>4
    <3>2. ListedAs(pools, t, p.id) # {}
      BY <3>1 DEF ListedAs
    <3>3. l \in t /\ pools[l].id = p.id
      <4> DEFINE c == p.id
      <4>1. t \in SUBSET (1 .. n) /\ ListedAs(pools, t, c) # {} /\ l = Max(ListedAs(pools, t, c))
        BY <3>2
      <4> HIDE DEF t, l, c
      <4>2. l \in t /\ pools[l].id = c
        <5>1. IsLast(pools, t, c, l)
          BY <4>1, LastListed
        <5>2. QED  BY <5>1 DEF IsLast
      <4>3. QED  BY <4>2 DEF c
    <3>4. old.last[p.id] = pools[l]
      BY <1>4, <2>4 DEF Described
    <3> HIDE DEF l
    <3>5. CASE old.last[p.id] # p
      <4>1. p.id \in Conflicts(s)
        BY <1>1, <1>2, <3>3, <3>4, <3>5
      <4> HIDE DEF Conflicts, old, new, p
      <4>2. Conflicts(s) = Conflicts(t) \cup {p.id}
        BY <2>2, <2>3, <4>1
      <4>3. QED  BY <2>1, <2>4, <3>5, <4>2
    <3>6. CASE old.last[p.id] = p
      <4>1. ASSUME p.id \in Conflicts(s)  PROVE p.id \in Conflicts(t)
        <5>1. PICK j \in s, k \in s : /\ pools[j].id = p.id /\ pools[k].id = p.id
                                     /\ pools[k] # pools[j]
          BY <4>1
        <5>2. pools[l] = p /\ pools[m] = p
          BY <3>4, <3>6
        <5>3. PICK i \in {j, k} : pools[i] # p
          BY <5>1
        <5>4. i \in t /\ pools[i].id = p.id /\ pools[i] # pools[l]
          BY <1>2, <5>1, <5>2, <5>3
        <5>5. i \in Differs(t)
          BY <3>3, <5>4
        <5>6. QED  BY <5>4, <5>5
      <4> HIDE DEF Conflicts, old, new, p
      <4>2. Conflicts(s) = Conflicts(t)
        BY <2>2, <2>3, <4>1
      <4>3. QED  BY <2>1, <2>4, <3>6, <4>2
    <3>7. QED  BY <3>5, <3>6
  <2>5. CASE p.id \notin DOMAIN old.last
    <3>1. \A i \in t : pools[i].id # p.id
      BY <1>4, <2>5
    <3>2. p.id \notin Conflicts(s)
      <4>1. \A j \in s : pools[j].id = p.id => j = m
        BY <1>2, <3>1
      <4>2. QED  BY <4>1
    <3> HIDE DEF Conflicts, old, new, p
    <3>3. Conflicts(s) = Conflicts(t)
      BY <2>2, <2>3, <3>2
    <3>4. QED  BY <2>1, <2>5, <3>3
  <2>6. QED  BY <2>4, <2>5
<1>8. new = [last |-> new.last, conflicts |-> new.conflicts]
  BY DEF Described
<1> HIDE DEF old, new, p, t
<1>9. new = Insert(old, p)
  BY <1>6, <1>7, <1>8 DEF Insert
<1>10. QED  BY <1>9 DEF new, old, p, t, m

LEMMA UniqueIs ==
  ASSUME NEW S, NEW pools \in Seq(S)
  PROVE  Unique(pools) = Described(pools, 1 .. Len(pools))
<1> DEFINE base == [last |-> [id \in {} |-> None], conflicts |-> {}]
           iter[s \in SUBSET DOMAIN pools] ==
             IF s = {} THEN base ELSE Insert(iter[s \ {Max(s)}], pools[Max(s)])
           f == [s \in SUBSET DOMAIN pools |-> Described(pools, s)]
           n == Len(pools)
<1>1. DOMAIN pools = 1 .. n /\ n \in Nat
  BY LenProperties
<1>2. Unique(pools) = iter[DOMAIN pools]
  BY DEF Unique, FoldLeft, MapThenFoldSet
<1> DEFINE Is(g) == g = [s \in SUBSET DOMAIN pools |->
                IF s = {} THEN base ELSE Insert(g[s \ {Max(s)}], pools[Max(s)])]
<1>3. Is(f)
  <2>1. ASSUME NEW s \in SUBSET DOMAIN pools
        PROVE  f[s] = IF s = {} THEN base ELSE Insert(f[s \ {Max(s)}], pools[Max(s)])
    <3>1. CASE s = {}
      BY <3>1, DescribedNone
    <3>2. CASE s # {}
      <4>1. s \ {Max(s)} \in SUBSET DOMAIN pools
        OBVIOUS
      <4> HIDE DEF base
      <4>2. s \in SUBSET (1 .. n)
        BY <1>1
      <4>3. QED  BY <1>1, <3>2, <4>1, <4>2, DescribedStep
    <3>3. QED  BY <3>1, <3>2
  <2> HIDE DEF base
  <2>2. QED  BY <2>1
<1>4. iter = CHOOSE g : Is(g)
  OBVIOUS
<1> HIDE DEF iter, f, Is
<1>5. Is(iter)
  BY <1>3, <1>4
<1>6. f[1 .. n] = iter[1 .. n]
  <2>1. f[{}] = iter[{}]
    BY <1>3, <1>5 DEF Is
  <2>2. ASSUME NEW s \in SUBSET (1 .. n), s # {}, f[s \ {Max(s)}] = iter[s \ {Max(s)}]
        PROVE  f[s] = iter[s]
    <3>1. s \in SUBSET DOMAIN pools
      BY <1>1
    <3> HIDE DEF base, n
    <3>2. f[s] = Insert(f[s \ {Max(s)}], pools[Max(s)])
      BY <1>3, <2>2, <3>1 DEF Is
    <3>3. iter[s] = Insert(iter[s \ {Max(s)}], pools[Max(s)])
      BY <1>5, <2>2, <3>1 DEF Is
    <3>4. QED  BY <2>2, <3>2, <3>3
  <2> HIDE DEF n
  <2>3. \A s \in SUBSET (1 .. n) :
          s # {} /\ f[s \ {Max(s)}] = iter[s \ {Max(s)}] => f[s] = iter[s]
    BY <2>2
  <2>4. n \in Nat
    BY <1>1
  <2>5. AgreeStepwise(n, f, iter)
    BY <2>1, <2>3 DEF AgreeStepwise
  <2>6. QED  BY <2>4, <2>5, SameFolds
<1>7. f[1 .. n] = Described(pools, 1 .. n)
  BY <1>1 DEF f
<1>8. QED  BY <1>1, <1>2, <1>6, <1>7

\* Descriptors of pools that may be used and that are described in one way only.
Clear(pools) ==
  {pools[i] : i \in {j \in DOMAIN pools :
     /\ Usable(pools[j])
     /\ \A l \in DOMAIN pools : pools[l].id = pools[j].id => pools[l] = pools[j]}}

ListedIds(pools) == {pools[i].id : i \in DOMAIN pools}

LEMMA GroupedIsClear ==
  ASSUME NEW S, NEW pools \in Seq(S)
  PROVE  Grouped(pools) = Clear(pools) /\ DOMAIN Unique(pools).last = ListedIds(pools)
<1> DEFINE n == Len(pools)
           u == Unique(pools)
<1>1. DOMAIN pools = 1 .. n /\ n \in Nat
  BY LenProperties
<1>2. u = Described(pools, 1 .. n)
  BY UniqueIs
<1>3. DOMAIN u.last = ListedIds(pools)
  BY <1>1, <1>2 DEF Described, ListedIds
<1>4. ASSUME NEW id \in DOMAIN u.last
      PROVE  \E i \in DOMAIN pools : pools[i].id = id /\ u.last[id] = pools[i]
  <2> DEFINE l == Max(ListedAs(pools, 1 .. n, id))
  <2>1. PICK i \in 1 .. n : pools[i].id = id
    BY <1>1, <1>3 DEF ListedIds
  <2>2. ListedAs(pools, 1 .. n, id) # {}
    BY <2>1 DEF ListedAs
  <2>3. u.last[id] = pools[l]
    BY <1>1, <1>2, <1>3 DEF Described, ListedIds
  <2>4. IsLast(pools, 1 .. n, id, l)
    <3> HIDE DEF n
    <3>1. 1 .. n \in SUBSET (1 .. n)
      OBVIOUS
    <3>2. QED  BY <1>1, <2>2, <3>1, LastListed
  <2> HIDE DEF l
  <2>5. QED  BY <1>1, <2>3, <2>4 DEF IsLast
<1>5. \A id : id \in u.conflicts <=>
        \E j, k \in DOMAIN pools :
          pools[j].id = id /\ pools[k].id = id /\ pools[k] # pools[j]
  <2> DEFINE Differs == {j \in 1 .. n : \E k \in 1 .. n :
                           pools[k].id = pools[j].id /\ pools[k] # pools[j]}
  <2>1. u.conflicts = {pools[i].id : i \in Differs}
    BY <1>2 DEF Described
  <2>2. \A j : j \in Differs <=> j \in DOMAIN pools /\ \E k \in DOMAIN pools :
                           pools[k].id = pools[j].id /\ pools[k] # pools[j]
    BY <1>1
  <2> HIDE DEF Differs, u
  <2>3. \A id : id \in u.conflicts <=> \E j \in Differs : id = pools[j].id
    BY <2>1
  <2>4. QED  BY <2>2, <2>3
<1> HIDE DEF u
<1>6. Grouped(pools) = {u.last[id] : id \in {i \in DOMAIN u.last :
                                          i \notin u.conflicts /\ Usable(u.last[i])}}
  BY DEF Grouped, u
<1>7. ASSUME NEW p \in Grouped(pools)  PROVE p \in Clear(pools)
  <2>1. PICK id \in DOMAIN u.last : id \notin u.conflicts /\ Usable(p) /\ p = u.last[id]
    BY <1>6
  <2>2. PICK i \in DOMAIN pools : pools[i].id = id /\ p = pools[i]
    BY <1>4, <2>1
  <2>3. \A l \in DOMAIN pools : pools[l].id = pools[i].id => pools[l] = pools[i]
    BY <1>5, <2>1, <2>2
  <2>4. QED  BY <2>1, <2>2, <2>3 DEF Clear
<1>8. ASSUME NEW p \in Clear(pools)  PROVE p \in Grouped(pools)
  <2>1. PICK j \in DOMAIN pools :
          /\ p = pools[j] /\ Usable(pools[j])
          /\ \A l \in DOMAIN pools : pools[l].id = pools[j].id => pools[l] = pools[j]
    BY DEF Clear
  <2>2. p.id \in DOMAIN u.last
    BY <1>3, <2>1 DEF ListedIds
  <2>3. u.last[p.id] = p
    <3>1. PICK i \in DOMAIN pools : pools[i].id = p.id /\ u.last[p.id] = pools[i]
      BY <1>4, <2>2
    <3>2. QED  BY <2>1, <3>1
  <2>4. p.id \notin u.conflicts
    <3>1. \A k \in DOMAIN pools : pools[k].id = p.id => pools[k] = p
      BY <2>1
    <3>2. QED  BY <1>5, <3>1
  <2>5. QED  BY <1>6, <2>1, <2>2, <2>3, <2>4
<1>9. QED  BY <1>3, <1>7, <1>8 DEF u

LEMMA RouteFacts ==
  ASSUME NEW p, NEW q, p.token = q.token, p.token # QuoteAsset, Chain[p.id] = Chain[q.id]
  PROVE  ValidRoute(RouteOver(p, q))
<1> DEFINE r == RouteOver(p, q)
<1>1. /\ Len(r) = 2 /\ DOMAIN r = 1 .. 2
      /\ r[1].pool = p.id /\ r[1].in = QuoteAsset /\ r[1].out = p.token
      /\ r[2].pool = q.id /\ r[2].in = q.token /\ r[2].out = QuoteAsset
  BY DEF RouteOver, Leg
<1> HIDE DEF r
<1>2. ASSUME NEW i \in DOMAIN r
      PROVE  /\ Chain[r[i].pool] = Chain[r[1].pool]
             /\ r[i].in # r[i].out
             /\ r[i].out = r[(i % Len(r)) + 1].in
  <2>1. CASE i = 1
    <3>1. (i % Len(r)) + 1 = 2
      BY <1>1, <2>1
    <3>2. QED  BY <1>1, <2>1, <3>1
  <2>2. CASE i = 2
    <3>1. (i % Len(r)) + 1 = 1
      BY <1>1, <2>2
    <3>2. QED  BY <1>1, <2>2, <3>1
  <2>3. QED  BY <1>1, <2>1, <2>2
<1>3. QED  BY <1>1, <1>2 DEF ValidRoute, r

LEMMA RoutesOfList ==
  ASSUME NEW S, NEW pools \in Seq(S)
  PROVE  /\ \A route \in Routes(pools) : ValidRoute(route) /\ route[1].pool # route[2].pool
         /\ \A p, q \in Clear(pools) :
              RouteOver(p, q) \in Routes(pools) <=>
                p.id # q.id /\ p.token = q.token /\ Chain[p.id] = Chain[q.id]
         /\ \A route \in Routes(pools) : \E p, q \in Clear(pools) : route = RouteOver(p, q)
         /\ ExcludedPools(pools) + Cardinality(Clear(pools)) = Cardinality(ListedIds(pools))
<1> DEFINE Fits(p, q) == p.id # q.id /\ Chain[p.id] = Chain[q.id] /\ p.token = q.token
<1>1. Grouped(pools) = Clear(pools) /\ DOMAIN Unique(pools).last = ListedIds(pools)
  BY GroupedIsClear
<1>2. \A route : route \in Routes(pools) <=>
        \E p, q \in Clear(pools) : Fits(p, q) /\ route = RouteOver(p, q)
  <2> DEFINE G == Clear(pools)
             Pairs == {xy \in G \X G : /\ xy[1].id # xy[2].id
                                     /\ Chain[xy[1].id] = Chain[xy[2].id]
                                     /\ xy[1].token = xy[2].token}
  <2>1. Routes(pools) = {RouteOver(pq[1], pq[2]) : pq \in Pairs}
    BY <1>1 DEF Routes
  <2>2. ASSUME NEW p \in G, NEW q \in G, Fits(p, q)
        PROVE  RouteOver(p, q) \in Routes(pools)
    <3>1. <<p, q>> \in Pairs /\ <<p, q>>[1] = p /\ <<p, q>>[2] = q
      BY <2>2
    <3> HIDE DEF Pairs
    <3>2. QED  BY <2>1, <3>1
  <2>3. ASSUME NEW route \in Routes(pools)
        PROVE  \E p, q \in G : Fits(p, q) /\ route = RouteOver(p, q)
    <3>1. PICK pq \in Pairs : route = RouteOver(pq[1], pq[2])
      BY <2>1
    <3>2. pq[1] \in G /\ pq[2] \in G /\ Fits(pq[1], pq[2])
      OBVIOUS
    <3>3. QED  BY <3>1, <3>2
  <2> HIDE DEF Fits
  <2>4. QED  BY <2>2, <2>3
<1>3. \A p \in Clear(pools) : p.token # QuoteAsset
  BY DEF Clear, Usable
<1>4. \A p, q : RouteOver(p, q)[1].pool = p.id /\ RouteOver(p, q)[2].pool = q.id
  BY DEF RouteOver, Leg
<1>5. ASSUME NEW route \in Routes(pools)
      PROVE  ValidRoute(route) /\ route[1].pool # route[2].pool
  <2>1. PICK p \in Clear(pools), q \in Clear(pools) : Fits(p, q) /\ route = RouteOver(p, q)
    BY <1>2
  <2>2. ValidRoute(route)
    BY <1>3, <2>1, RouteFacts
  <2>3. QED  BY <1>4, <2>1, <2>2
<1>6. ASSUME NEW p \in Clear(pools), NEW q \in Clear(pools)
      PROVE  RouteOver(p, q) \in Routes(pools) <=> Fits(p, q)
  <2>1. ASSUME RouteOver(p, q) \in Routes(pools)  PROVE Fits(p, q)
    <3>1. PICK x \in Clear(pools), y \in Clear(pools) :
            Fits(x, y) /\ RouteOver(p, q) = RouteOver(x, y)
      BY <1>2, <2>1
    <3>2. /\ RouteOver(p, q)[1] = Leg(p.id, QuoteAsset, p.token)
          /\ RouteOver(p, q)[2] = Leg(q.id, q.token, QuoteAsset)
          /\ RouteOver(x, y)[1] = Leg(x.id, QuoteAsset, x.token)
          /\ RouteOver(x, y)[2] = Leg(y.id, y.token, QuoteAsset)
      BY DEF RouteOver
    <3>3. /\ Leg(p.id, QuoteAsset, p.token) = Leg(x.id, QuoteAsset, x.token)
          /\ Leg(q.id, q.token, QuoteAsset) = Leg(y.id, y.token, QuoteAsset)
      BY <3>1, <3>2
    <3>4. p.id = x.id /\ p.token = x.token /\ q.id = y.id /\ q.token = y.token
      BY <3>3 DEF Leg
    <3>5. QED  BY <3>1, <3>4
  <2>2. QED  BY <1>2, <2>1
<1>7. ExcludedPools(pools) + Cardinality(Clear(pools)) = Cardinality(ListedIds(pools))
  <2>1. IsFiniteSet(DOMAIN pools)
    BY LenProperties, FS_Interval
  <2>2. IsFiniteSet({pools[i] : i \in DOMAIN pools}) /\ IsFiniteSet(ListedIds(pools))
    <3>1. IsFiniteSet(ListedIds(pools))
      <4> DEFINE f == [i \in DOMAIN pools |-> pools[i].id]
      <4>1. f \in Surjection(DOMAIN pools, ListedIds(pools))
        BY DEF ListedIds, Surjection
      <4>2. QED  BY <2>1, <4>1, FS_Surjection DEF ExistsSurjection
    <3>2. IsFiniteSet({pools[i] : i \in DOMAIN pools})
      <4> DEFINE T == {pools[i] : i \in DOMAIN pools}
                 f == [i \in DOMAIN pools |-> pools[i]]
      <4>1. f \in Surjection(DOMAIN pools, T)
        BY DEF Surjection
      <4> HIDE DEF f, T
      <4>2. IsFiniteSet(T)
        BY <2>1, <4>1, FS_Surjection DEF ExistsSurjection
      <4>3. QED  BY <4>2 DEF T
    <3>3. QED  BY <3>1, <3>2
  <2>3. Clear(pools) \subseteq {pools[i] : i \in DOMAIN pools}
    BY DEF Clear
  <2>4. IsFiniteSet(Clear(pools))
    BY <2>2, <2>3, FS_Subset
  <2>5. Cardinality(Clear(pools)) \in Nat /\ Cardinality(ListedIds(pools)) \in Nat
    BY <2>2, <2>4, FS_CardinalityType
  <2>6. ExcludedPools(pools) = Cardinality(ListedIds(pools)) - Cardinality(Clear(pools))
    BY <1>1 DEF ExcludedPools
  <2>7. QED  BY <2>5, <2>6
<1>8. QED  BY <1>2, <1>5, <1>6, <1>7

-----------------------------------------------------------------------------
(* What is asked about                                                     *)

SearchInv == asked = None \/ asked \in {[pools |-> list] : list \in Listing} \/ asked \in Market

LEMMA SearchInvariance == MarketSpec => []SearchInv
<1>1. MarketInit => SearchInv
  BY DEF MarketInit, NothingAsked, SearchInv
<1>2. SearchInv /\ [MarketNext]_<<vars, asked>> => SearchInv'
  BY DEF SearchInv, MarketNext, Search, AskRoutes, AskAmounts, NextView
<1>3. QED  BY <1>1, <1>2, PTL DEF MarketSpec

\* Beside the search, the tracked pool is PoolTracking's.
THEOREM MarketTracks == MarketSpec => Spec
<1>1. MarketInit => Init
  BY DEF MarketInit
<1>2. [MarketNext]_<<vars, asked>> => [Next]_vars
  BY DEF MarketNext
<1>3. QED  BY <1>1, <1>2, PTL DEF MarketSpec, Spec

\* The routes of a list are both orders of any two of its clear descriptors of one token
\* on one chain, whatever the list.
THEOREM RoutesArePairs == MarketSpec => []RoutesAreThePairs
<1>1. SearchInv => RoutesAreThePairs
  <2> SUFFICES ASSUME SearchInv, IsListing  PROVE RoutesAreThePairs
    BY DEF RoutesAreThePairs
  <2>1. PICK list \in Listing : asked = [pools |-> list]
    <3>1. asked \notin Market
      BY SearchAssumption DEF IsListing
    <3>2. QED  BY <3>1 DEF SearchInv, IsListing
  <2>2. asked.pools = list /\ list \in Seq({list[i] : i \in DOMAIN list})
    BY <2>1, SearchAssumption
  <2>3. /\ \A route \in Routes(list) : ValidRoute(route) /\ route[1].pool # route[2].pool
        /\ \A p, q \in Clear(list) :
             RouteOver(p, q) \in Routes(list) <=>
               p.id # q.id /\ p.token = q.token /\ Chain[p.id] = Chain[q.id]
        /\ \A route \in Routes(list) : \E p, q \in Clear(list) : route = RouteOver(p, q)
        /\ ExcludedPools(list) + Cardinality(Clear(list)) = Cardinality(ListedIds(list))
    BY <2>2, RoutesOfList
  <2>4. QED  BY <2>2, <2>3 DEF RoutesAreThePairs, Clear, ListedIds
<1>2. QED  BY <1>1, SearchInvariance, PTL

-----------------------------------------------------------------------------
(* The amounts that pay                                                    *)

\* No swap gives more than the pool's price before it.
LEMMA SwapRate ==
  ASSUME NEW pool, IsPriced(pool), NEW down \in BOOLEAN, NEW amount \in Nat \ {0},
         NEW out \in Nat, out <= Gross(pool, down, amount)
  PROVE  LET p == pool.price IN
         IF down THEN out * (Q * Q) <= amount * (p * p) ELSE out * (p * p) <= amount * (Q * Q)
<1> DEFINE L == pool.liquidity
           p == pool.price
           q == PriceAfter(pool, down, amount)
           gross == Gross(pool, down, amount)
<1>1. L \in Nat \ {0} /\ p \in Nat \ {0} /\ Q \in Nat \ {0} /\ out <= gross
  BY QuoteAssumption DEF IsPriced
<1>2. CASE down
  <2>1. /\ q \in 1 .. p
        /\ \A k \in Int : q <= k <=> L * Q * (p - k) <= amount * (k * p)
    BY <1>2, PriceDown
  <2>2. gross \in Nat /\ \A k \in Int : k <= gross <=> k * Q <= L * (p - q)
    BY <1>2, GrossDown
  <2> HIDE DEF L, p, q, gross
  <2>3. q \in Nat \ {0} /\ q <= p /\ p - q \in Nat
    BY <1>1, <2>1
  <2>4. L * Q * (p - q) <= amount * (q * p)
    BY <2>1, <2>3
  <2>5. out * Q <= L * (p - q)
    BY <1>1, <2>2
  <2>6. (out * Q) * Q <= (L * (p - q)) * Q
    <3>1. out * Q \in Int /\ L * (p - q) \in Int
      BY <1>1, <2>3
    <3>2. QED  BY <1>1, <2>5, <3>1, TimesOrder
  <2>7. amount * (q * p) <= amount * (p * p)
    <3>1. q * (amount * p) <= p * (amount * p)
      <4>1. amount * p \in Nat \ {0}
        BY <1>1
      <4>2. QED  BY <1>1, <2>3, <4>1, TimesOrder
    <3>2. q * (amount * p) = amount * (q * p) /\ p * (amount * p) = amount * (p * p)
      BY <1>1, <2>3
    <3>3. QED  BY <3>1, <3>2
  <2>8. (out * Q) * Q = out * (Q * Q) /\ (L * (p - q)) * Q = L * Q * (p - q)
    BY <1>1, <2>3
  <2>9. /\ out * (Q * Q) \in Int /\ L * Q * (p - q) \in Int
        /\ amount * (q * p) \in Int /\ amount * (p * p) \in Int
    <3>1. L * Q \in Int
      BY <1>1
    <3>2. QED  BY <1>1, <2>3, <3>1
  <2>10. out * (Q * Q) <= amount * (p * p)
    BY <2>4, <2>6, <2>7, <2>8, <2>9
  <2>11. QED  BY <1>2, <2>10 DEF p
<1>3. CASE ~down
  <2>1. /\ q \in Nat \ {0} /\ p <= q
        /\ \A k \in Int : k <= q <=> (k - p) * L <= amount * Q
    BY <1>3, PriceUp
  <2>2. gross \in Nat /\ \A k \in Int : k <= gross <=> (k * p) * q <= L * Q * (q - p)
    BY <1>3, GrossUp
  <2> HIDE DEF L, p, q, gross
  <2>3. (q - p) * L <= amount * Q
    BY <2>1
  <2>4. (out * p) * q <= L * Q * (q - p)
    BY <1>1, <2>2
  <2>5. ((q - p) * L) * Q <= (amount * Q) * Q
    <3>1. (q - p) * L \in Int /\ amount * Q \in Int
      BY <1>1, <2>1
    <3>2. QED  BY <1>1, <2>3, <3>1, TimesOrder
  <2>6. (out * p) * p <= (out * p) * q
    <3>1. out * p = 0 \/ out * p \in Nat \ {0}
      BY <1>1
    <3> DEFINE x == out * p
    <3>2. x \in Nat /\ (x = 0 \/ x \in Nat \ {0})
      BY <3>1
    <3> HIDE DEF x
    <3>3. x \in Nat \ {0} => p * x <= q * x
      BY <1>1, <2>1, TimesOrder
    <3>4. p * x = x * p /\ q * x = x * q
      BY <1>1, <2>1, <3>2
    <3>5. x = 0 => x * p = 0 /\ x * q = 0
      BY <1>1, <2>1
    <3>6. x * p <= x * q
      BY <3>2, <3>3, <3>4, <3>5
    <3>7. QED  BY <3>6 DEF x
  <2>7. ((q - p) * L) * Q = L * Q * (q - p) /\ (amount * Q) * Q = amount * (Q * Q)
        /\ (out * p) * p = out * (p * p)
    BY <1>1, <2>1
  <2>8. /\ out * (p * p) \in Int /\ (out * p) * q \in Int
        /\ L * Q * (q - p) \in Int /\ amount * (Q * Q) \in Int
    <3>1. L * Q \in Int /\ q - p \in Int
      BY <1>1, <2>1
    <3>2. QED  BY <1>1, <2>1, <3>1
  <2>9. out * (p * p) <= amount * (Q * Q)
    BY <2>4, <2>5, <2>6, <2>7, <2>8
  <2>10. QED  BY <1>3, <2>9 DEF p
<1>4. QED  BY <1>2, <1>3

\* Who ends with more than he began with has bought cheaper than he sold.
LEMMA RatesApart ==
  ASSUME NEW a \in Nat \ {0}, NEW o \in Nat, NEW f \in Nat, a < f,
         NEW b1 \in Nat \ {0}, NEW b2 \in Nat \ {0},
         NEW s1 \in Nat \ {0}, NEW s2 \in Nat \ {0},
         o * b2 <= a * b1, f * s1 <= o * s2
  PROVE  b1 * s2 > s1 * b2
<1>1. (f * s1) * b2 <= (o * s2) * b2
  <2>1. f * s1 \in Int /\ o * s2 \in Int
    OBVIOUS
  <2>2. QED  BY <2>1, TimesOrder
<1>2. (o * b2) * s2 <= (a * b1) * s2
  <2>1. o * b2 \in Int /\ a * b1 \in Int
    OBVIOUS
  <2>2. QED  BY <2>1, TimesOrder
<1> DEFINE x == s1 * b2
           y == b1 * s2
<1>3. x \in Nat \ {0} /\ y \in Nat \ {0}
  OBVIOUS
<1>4. (f * s1) * b2 = f * x /\ (o * s2) * b2 = (o * b2) * s2 /\ (a * b1) * s2 = y * a
  OBVIOUS
<1>5. (o * b2) * s2 \in Int
  OBVIOUS
<1>6. f * x <= y * a
  <2>1. f * x \in Int /\ y * a \in Int
    OBVIOUS
  <2>2. QED  BY <1>1, <1>2, <1>4, <1>5, <2>1
<1> HIDE DEF x, y
<1>7. a * x < f * x
  BY <1>3, TimesOrder
<1>8. x * a < y * a
  <2>1. a * x = x * a /\ f * x \in Int /\ a * x \in Int /\ y * a \in Int
    BY <1>3
  <2>2. QED  BY <1>6, <1>7, <2>1
<1>9. x < y
  BY <1>3, <1>8, TimesOrder
<1>10. QED  BY <1>3, <1>9 DEF x, y

\* A pool of the market can be priced when it is quoted, and gives a number.
LEMMA MarketQuote ==
  ASSUME NEW market \in Market, NEW pool \in {market.buy, market.sell},
         NEW down \in BOOLEAN, NEW amount, IsQuoted(pool, down, amount)
  PROVE  /\ IsPriced(pool) /\ amount \in Nat \ {0} /\ pool.quoteIsZero \in BOOLEAN
         /\ Gross(pool, down, amount) \in Nat
         /\ AmountOut(pool, down, amount) \in Int
         /\ AmountOut(pool, down, amount) <= Gross(pool, down, amount)
<1>1. pool.price \in Nat \ {0} /\ pool.liquidity \in Nat /\ pool.quoteIsZero \in BOOLEAN
  BY SearchAssumption
<1>2. pool.liquidity > 0 /\ amount \in 1 .. MaxAmount
  BY DEF IsQuoted, IsQuotable
<1>3. IsPriced(pool) /\ amount \in Nat \ {0}
  BY <1>1, <1>2, QuoteAssumption DEF IsPriced
<1>4. Gross(pool, down, amount) \in Nat
  <2>1. CASE down
    BY <1>3, <2>1, GrossDown
  <2>2. CASE ~down
    BY <1>3, <2>2, GrossUp
  <2>3. QED  BY <2>1, <2>2
<1>5. QED  BY <1>1, <1>3, <1>4, FeesAreTaken

LEMMA GapPays ==
  ASSUME NEW market \in Market, NEW amount \in 1 .. MaxAmount,
         Evaluates(market.buy, market.sell, amount),
         FinalAmount(market.buy, market.sell, amount) > amount
  PROVE  Rate(market.buy)[1] * Rate(market.sell)[2] > Rate(market.sell)[1] * Rate(market.buy)[2]
<1>1. PICK buy, sell : buy = market.buy /\ sell = market.sell
  OBVIOUS
<1> DEFINE out == AmountOut(buy, Buys(buy), amount)
           final == AmountOut(sell, Sells(sell), out)
<1>2. buy.quoteIsZero \in BOOLEAN /\ sell.quoteIsZero \in BOOLEAN
  BY <1>1, SearchAssumption
<1>3. Buys(buy) \in BOOLEAN /\ Sells(sell) \in BOOLEAN
  BY <1>2 DEF Buys, Sells
<1>4. IsQuoted(buy, Buys(buy), amount) /\ IsQuoted(sell, Sells(sell), out) /\ final > amount
  BY <1>1 DEF Evaluates, FinalAmount
<1>5. /\ IsPriced(buy) /\ amount \in Nat \ {0} /\ out <= Gross(buy, Buys(buy), amount)
  BY <1>1, <1>3, <1>4, MarketQuote
<1>6. /\ IsPriced(sell) /\ out \in Nat \ {0} /\ final \in Int
      /\ final <= Gross(sell, Sells(sell), out)
  <2> HIDE DEF out
  <2>1. QED  BY <1>1, <1>3, <1>4, MarketQuote
<1>7. final \in Nat /\ final > amount
  BY <1>4, <1>5, <1>6
<1> HIDE DEF out, final
<1> DEFINE b1 == Rate(buy)[1]
           b2 == Rate(buy)[2]
           s1 == Rate(sell)[1]
           s2 == Rate(sell)[2]
<1>8. /\ buy.price \in Nat \ {0} /\ sell.price \in Nat \ {0} /\ Q \in Nat \ {0}
  BY <1>5, <1>6, QuoteAssumption DEF IsPriced
<1>9. b1 \in Nat \ {0} /\ b2 \in Nat \ {0} /\ out * b2 <= amount * b1
  <2>1. Q * Q \in Nat \ {0} /\ buy.price * buy.price \in Nat \ {0}
    BY <1>8
  <2>2. CASE buy.quoteIsZero
    <3>1. b1 = buy.price * buy.price /\ b2 = Q * Q /\ Buys(buy)
      BY <2>2 DEF Rate, Buys
    <3>2. out * (Q * Q) <= amount * (buy.price * buy.price)
      BY <1>3, <1>5, <1>6, <3>1, SwapRate
    <3>3. QED  BY <2>1, <3>1, <3>2
  <2>3. CASE ~buy.quoteIsZero
    <3>1. b1 = Q * Q /\ b2 = buy.price * buy.price /\ ~Buys(buy)
      BY <2>3 DEF Rate, Buys
    <3>2. out * (buy.price * buy.price) <= amount * (Q * Q)
      BY <1>3, <1>5, <1>6, <3>1, SwapRate
    <3>3. QED  BY <2>1, <3>1, <3>2
  <2>4. QED  BY <2>2, <2>3
<1>10. s1 \in Nat \ {0} /\ s2 \in Nat \ {0} /\ final * s1 <= out * s2
  <2>1. Q * Q \in Nat \ {0} /\ sell.price * sell.price \in Nat \ {0}
    BY <1>8
  <2>2. CASE sell.quoteIsZero
    <3>1. s1 = sell.price * sell.price /\ s2 = Q * Q /\ ~Sells(sell)
      BY <2>2 DEF Rate, Sells
    <3>2. final * (sell.price * sell.price) <= out * (Q * Q)
      BY <1>3, <1>6, <1>7, <3>1, SwapRate
    <3>3. QED  BY <2>1, <3>1, <3>2
  <2>3. CASE ~sell.quoteIsZero
    <3>1. s1 = Q * Q /\ s2 = sell.price * sell.price /\ Sells(sell)
      BY <2>3 DEF Rate, Sells
    <3>2. final * (Q * Q) <= out * (sell.price * sell.price)
      BY <1>3, <1>6, <1>7, <3>1, SwapRate
    <3>3. QED  BY <2>1, <3>1, <3>2
  <2>4. QED  BY <2>2, <2>3
<1> HIDE DEF b1, b2, s1, s2
<1>11. b1 * s2 > s1 * b2
  <2>1. out \in Nat
    BY <1>6
  <2>2. QED  BY <1>5, <1>7, <1>9, <1>10, <2>1, RatesApart
<1>12. QED  BY <1>1, <1>11 DEF b1, b2, s1, s2

LEMMA CostIsCovered ==
  ASSUME NEW market \in Market, NEW amount \in 1 .. MaxAmount, NEW cost \in Cost,
         Accepted(market.buy, market.sell, amount, cost)
  PROVE  LET left == FinalAmount(market.buy, market.sell, amount) - amount - MinProfit IN
         IF cost.asset = QuoteAsset THEN left >= cost.amount
         ELSE left * cost.conversion.denominator >= cost.amount * cost.conversion.numerator
<1>1. PICK buy, sell : buy = market.buy /\ sell = market.sell
  OBVIOUS
<1> DEFINE out == AmountOut(buy, Buys(buy), amount)
           final == FinalAmount(buy, sell, amount)
           paid == CostInQuote(cost)
           left == final - amount - MinProfit
<1>2. /\ Evaluates(buy, sell, amount) /\ ~CostFails(cost)
      /\ paid # None /\ final - amount - paid >= MinProfit
  BY <1>1 DEF Accepted
<1>3. final \in Int /\ amount \in Int /\ MinProfit \in Int
  <2>1. IsQuoted(sell, Sells(sell), out)
    BY <1>2 DEF Evaluates
  <2>2. Sells(sell) \in BOOLEAN
    BY <1>1, SearchAssumption DEF Sells
  <2> HIDE DEF out
  <2>3. AmountOut(sell, Sells(sell), out) \in Int
    BY <1>1, <2>1, <2>2, MarketQuote
  <2>4. final \in Int
    BY <2>3 DEF FinalAmount, out
  <2>5. QED  BY <2>4, SearchAssumption
<1>4. cost.amount # None /\ cost.amount \in Nat
  BY <1>2, SearchAssumption DEF CostInQuote
<1> HIDE DEF final
<1>5. left \in Int /\ (paid \in Int => paid <= left)
  <2>1. final - amount \in Int
    BY <1>3
  <2> HIDE DEF paid
  <2>2. QED  BY <1>2, <1>3, <2>1
<1> HIDE DEF left
<1>6. CASE cost.asset = QuoteAsset
  <2>1. paid = cost.amount
    BY <1>4, <1>6 DEF CostInQuote
  <2>2. left >= cost.amount
    BY <1>4, <1>5, <2>1
  <2>3. QED  BY <1>1, <1>6, <2>2 DEF left, final
<1>7. CASE cost.asset # QuoteAsset
  <2> DEFINE n == cost.conversion.numerator
             d == cost.conversion.denominator
  <2>1. cost.conversion # None /\ cost.conversion.current
    BY <1>2, <1>4, <1>7 DEF CostInQuote
  <2>2. n \in Nat /\ d \in Nat \ {0}
    BY <1>2, <1>4, <1>7, <2>1, SearchAssumption DEF CostFails
  <2>3. paid = CeilDiv(cost.amount * n, d)
    BY <1>4, <1>7, <2>1 DEF CostInQuote
  <2> HIDE DEF n, d, paid
  <2>4. cost.amount * n \in Int
    BY <1>4, <2>2
  <2>5. paid \in Int /\ (paid <= left <=> cost.amount * n <= left * d)
    BY <1>5, <2>2, <2>3, <2>4, Quotients
  <2>6. cost.amount * n <= left * d /\ left * d \in Int
    BY <1>5, <2>2, <2>5
  <2>7. left * d >= cost.amount * n
    BY <2>4, <2>6
  <2>8. QED  BY <1>1, <1>7, <2>7 DEF left, final, n, d
<1>8. QED  BY <1>6, <1>7

\* An accepted amount pays because the pools' prices differ, and it pays its costs in full,
\* whatever the pools, the fees and the costs.
THEOREM ProfitsAreReal == MarketSpec => []ProfitIsReal
<1>1. SearchInv => ProfitIsReal
  <2> SUFFICES ASSUME SearchInv, IsMarket  PROVE ProfitIsReal
    BY DEF ProfitIsReal, ProfitNeedsPriceGap, ProfitCoversCost
  <2>1. PICK market \in Market : asked = market
    BY DEF SearchInv, IsMarket
  <2>2. ProfitNeedsPriceGap
    BY <2>1, GapPays DEF ProfitNeedsPriceGap
  <2>3. ProfitCoversCost
    BY <2>1, CostIsCovered DEF ProfitCoversCost
  <2>4. QED  BY <2>2, <2>3 DEF ProfitIsReal
<1>2. QED  BY <1>1, SearchInvariance, PTL

=============================================================================
