-------------------------- MODULE ForkTree_proofs --------------------------
(***************************************************************************)
(* Facts about blocks and sequences the proofs of the other modules cite.  *)
(***************************************************************************)
EXTENDS ForkTree, SequenceTheorems, WellFoundedInduction, TLAPS

\* A set of naturals has a least element.
LEMMA Least ==
  ASSUME NEW S \in SUBSET Nat, S # {}
  PROVE  \E x \in S : \A y \in S : x <= y
<1> DEFINE Less == OpToRel(<, Nat)
<1>1. \E x \in S : \A y \in S : ~ (<<y, x>> \in Less)
  <2>1. IsWellFoundedOn(Less, Nat)
    BY NatLessThanWellFounded
  <2> HIDE DEF Less
  <2>2. QED  BY <2>1, WFMin
<1>2. PICK x \in S : \A y \in S : ~ (<<y, x>> \in Less)
  BY <1>1
<1>3. ASSUME NEW y \in S, ~(x <= y)  PROVE FALSE
  <2>1. x \in Nat /\ y \in Nat /\ y < x
    BY <1>3
  <2>2. <<y, x>> \in Less
    BY <2>1 DEF OpToRel
  <2>3. QED  BY <1>2, <1>3, <2>2
<1>4. QED  BY <1>3

\* A block's height is a number, and every ancestor of a block is a block.
LEMMA BlockFacts ==
  ASSUME NEW b \in Block
  PROVE  /\ b \in Seq(Nat)
         /\ Number(b) \in Nat
         /\ \A n \in 0 .. Number(b) : BlockAt(b, n) \in Block
         /\ Parent(b) \in Block
<1>1. b \in Seq(Nat) /\ \A n \in 0 .. Number(b) : BlockAt(b, n) \in Block
  BY BlockAssumption
<1>2. Number(b) \in Nat
  BY <1>1, LenProperties DEF Number
<1>3. CASE Number(b) = 0
  <2>1. b = <<>>
    BY <1>1, <1>3, EmptySeq DEF Number
  <2>2. Parent(b) = <<>>
    BY <2>1 DEF Parent
  <2>3. QED  BY <1>1, <1>2, <2>2, BlockAssumption
<1>4. CASE Number(b) # 0
  <2>1. Number(b) - 1 \in 0 .. Number(b)
    BY <1>2, <1>4
  <2>2. Parent(b) = BlockAt(b, Number(b) - 1)
    BY DEF Parent, BlockAt, Number
  <2>3. QED  BY <1>1, <1>2, <2>1, <2>2
<1>5. QED  BY <1>3, <1>4

\* BlockAt(b, n) has height n.
LEMMA BlockAtNumber ==
  ASSUME NEW b \in Block, NEW n \in 0 .. Number(b)
  PROVE  Number(BlockAt(b, n)) = n
BY BlockFacts DEF Number, BlockAt

\* The last element of a sequence that ends in a non-empty one.
LEMMA LastOfConcat ==
  ASSUME NEW S, NEW s \in Seq(S), NEW t \in Seq(S), t # <<>>
  PROVE  /\ s \o t \in Seq(S) /\ s \o t # <<>>
         /\ Last(s \o t) = Last(t)
         /\ Last(t) \in S
<1>1. Len(t) \in Nat \ {0} /\ Len(s) \in Nat
  BY EmptySeq, LenProperties
<1>2. /\ s \o t \in Seq(S)
      /\ Len(s \o t) = Len(s) + Len(t)
      /\ (s \o t)[Len(s) + Len(t)] = t[Len(t)]
  BY <1>1, ConcatProperties
<1>3. s \o t # <<>>
  BY <1>1, <1>2, EmptySeq
<1>4. t[Len(t)] \in S
  BY <1>1, ElementOfSeq
<1>5. QED  BY <1>2, <1>3, <1>4 DEF Last

\* An ancestor agrees with its descendant at every height it has.
LEMMA OnChainPointwise ==
  ASSUME NEW a \in Block, NEW b \in Block
  PROVE  OnChain(a, b) <=> /\ Number(a) <= Number(b)
                           /\ \A i \in 1 .. Number(a) : a[i] = b[i]
<1>1. a \in Seq(Nat) /\ b \in Seq(Nat) /\ Len(a) \in Nat /\ Len(b) \in Nat
  BY BlockFacts DEF Number
<1>2. ASSUME Len(a) <= Len(b)
      PROVE  SubSeq(a, 1, Len(a)) = SubSeq(b, 1, Len(a))
               <=> \A i \in 1 .. Len(a) : a[i] = b[i]
  <2>1. /\ SubSeq(a, 1, Len(a)) \in Seq(Nat) /\ Len(SubSeq(a, 1, Len(a))) = Len(a)
        /\ \A i \in 1 .. Len(a) : SubSeq(a, 1, Len(a))[i] = a[i]
    BY <1>1
  <2>2. /\ SubSeq(b, 1, Len(a)) \in Seq(Nat) /\ Len(SubSeq(b, 1, Len(a))) = Len(a)
        /\ \A i \in 1 .. Len(a) : SubSeq(b, 1, Len(a))[i] = b[i]
    BY <1>1, <1>2
  <2>3. ASSUME \A i \in 1 .. Len(a) : a[i] = b[i]
        PROVE  SubSeq(a, 1, Len(a)) = SubSeq(b, 1, Len(a))
    BY <2>1, <2>2, <2>3, SeqEqual
  <2>4. ASSUME SubSeq(a, 1, Len(a)) = SubSeq(b, 1, Len(a)), NEW i \in 1 .. Len(a)
        PROVE  a[i] = b[i]
    BY <2>1, <2>2, <2>4
  <2>5. QED  BY <2>3, <2>4
<1>3. QED  BY <1>2 DEF OnChain, IsPrefix, Number

\* A block is its own ancestor, and two blocks that are ancestors of each other
\* are the same block.
LEMMA OnChainOrder ==
  ASSUME NEW a \in Block, NEW b \in Block
  PROVE  /\ OnChain(a, a)
         /\ OnChain(a, b) /\ OnChain(b, a) => a = b
<1>1. Number(a) \in Nat /\ Number(b) \in Nat
  BY BlockFacts
<1>2. OnChain(a, a)
  BY <1>1, OnChainPointwise
<1>3. ASSUME OnChain(a, b), OnChain(b, a) PROVE a = b
  <2>1. Number(a) = Number(b) /\ \A i \in 1 .. Number(a) : a[i] = b[i]
    BY <1>1, <1>3, OnChainPointwise
  <2>2. a \in Seq(Nat) /\ b \in Seq(Nat)
    BY BlockFacts
  <2>3. QED  BY <2>1, <2>2, SeqEqual DEF Number
<1>4. QED  BY <1>2, <1>3

LEMMA OnChainTransitive ==
  ASSUME NEW a \in Block, NEW b \in Block, NEW c \in Block,
         OnChain(a, b), OnChain(b, c)
  PROVE  OnChain(a, c)
<1>1. Number(a) \in Nat /\ Number(b) \in Nat /\ Number(c) \in Nat
  BY BlockFacts
<1>2. /\ Number(a) <= Number(b) /\ \A i \in 1 .. Number(a) : a[i] = b[i]
      /\ Number(b) <= Number(c) /\ \A i \in 1 .. Number(b) : b[i] = c[i]
  BY OnChainPointwise
<1>3. QED  BY <1>1, <1>2, OnChainPointwise

\* Of two ancestors of one block, the lower is an ancestor of the higher.
LEMMA AncestorsAreOrdered ==
  ASSUME NEW a \in Block, NEW b \in Block, NEW c \in Block,
         OnChain(a, c), OnChain(b, c), Number(a) <= Number(b)
  PROVE  OnChain(a, b)
<1>1. Number(a) \in Nat /\ Number(b) \in Nat
  BY BlockFacts
<1>2. /\ \A i \in 1 .. Number(a) : a[i] = c[i]
      /\ \A i \in 1 .. Number(b) : b[i] = c[i]
  BY OnChainPointwise
<1>3. QED  BY <1>1, <1>2, OnChainPointwise

\* BlockAt(c, n) is an ancestor of c, of height n, and the only one.
LEMMA BlockAtFacts ==
  ASSUME NEW c \in Block, NEW n \in 0 .. Number(c)
  PROVE  /\ BlockAt(c, n) \in Block
         /\ Number(BlockAt(c, n)) = n
         /\ OnChain(BlockAt(c, n), c)
         /\ \A a \in Block : OnChain(a, c) /\ Number(a) = n => a = BlockAt(c, n)
<1>1. BlockAt(c, n) \in Block /\ Number(BlockAt(c, n)) = n /\ Number(c) \in Nat
  BY BlockFacts, BlockAtNumber
<1>2. \A i \in 1 .. n : BlockAt(c, n)[i] = c[i]
  BY BlockFacts DEF BlockAt, Number
<1>3. OnChain(BlockAt(c, n), c)
  BY <1>1, <1>2, OnChainPointwise
<1>4. ASSUME NEW a \in Block, OnChain(a, c), Number(a) = n
      PROVE  a = BlockAt(c, n)
  <2>1. OnChain(a, BlockAt(c, n)) /\ OnChain(BlockAt(c, n), a)
    BY <1>1, <1>3, <1>4, AncestorsAreOrdered
  <2>2. QED  BY <1>1, <2>1, OnChainOrder
<1>5. QED  BY <1>1, <1>3, <1>4

\* A block's parent is its ancestor one height below, and every other ancestor
\* is an ancestor of the parent.
LEMMA ParentFacts ==
  ASSUME NEW b \in Block
  PROVE  /\ Parent(b) \in Block /\ OnChain(Parent(b), b)
         /\ Number(b) > 0 =>
              /\ Number(Parent(b)) = Number(b) - 1
              /\ Parent(b) = BlockAt(b, Number(b) - 1)
              /\ \A a \in Block : OnChain(a, b) => a = b \/ OnChain(a, Parent(b))
<1>1. Parent(b) \in Block /\ Number(b) \in Nat /\ b \in Seq(Nat)
  BY BlockFacts
<1>2. CASE Number(b) = 0
  <2>1. b = <<>>
    BY <1>1, <1>2, EmptySeq DEF Number
  <2>2. Parent(b) = b
    BY <2>1 DEF Parent
  <2>3. QED  BY <1>2, <2>2, OnChainOrder
<1>3. CASE Number(b) > 0
  <2>1. Parent(b) = BlockAt(b, Number(b) - 1) /\ Number(b) - 1 \in 0 .. Number(b)
    BY <1>1, <1>3 DEF Parent, BlockAt, Number
  <2>2. Number(Parent(b)) = Number(b) - 1 /\ OnChain(Parent(b), b)
    BY <2>1, BlockAtFacts
  <2>3. ASSUME NEW a \in Block, OnChain(a, b), a # b
        PROVE  OnChain(a, Parent(b))
    <3>1. Number(a) \in Nat /\ Number(a) <= Number(b) /\ OnChain(b, b)
      BY <2>3, BlockFacts, OnChainPointwise, OnChainOrder
    <3>2. Number(a) # Number(b)
      <4>1. Number(a) = Number(b) => OnChain(b, a)
        BY <1>1, <2>3, <3>1, AncestorsAreOrdered
      <4>2. QED  BY <2>3, <4>1, OnChainOrder
    <3>3. QED  BY <1>1, <2>2, <2>3, <3>1, <3>2, AncestorsAreOrdered
  <2>4. QED  BY <1>1, <2>1, <2>2, <2>3
<1>4. QED  BY <1>1, <1>2, <1>3

\* An ancestor is no higher, and two ancestors of the same height are one.
LEMMA AncestorHeights ==
  ASSUME NEW a \in Block, NEW b \in Block, OnChain(a, b)
  PROVE  /\ Number(a) <= Number(b)
         /\ Number(a) = Number(b) => a = b
         /\ \A c \in Block : OnChain(c, b) /\ Number(c) = Number(a) => c = a
<1>1. Number(a) \in Nat /\ Number(b) \in Nat /\ OnChain(b, b)
  BY BlockFacts, OnChainOrder
<1>2. Number(a) <= Number(b)
  BY OnChainPointwise
<1>3. ASSUME NEW c \in Block, OnChain(c, b), Number(c) = Number(a) PROVE c = a
  <2>1. OnChain(a, c) /\ OnChain(c, a)
    BY <1>1, <1>3, AncestorsAreOrdered
  <2>2. QED  BY <2>1, OnChainOrder
<1>4. QED  BY <1>1, <1>2, <1>3

-----------------------------------------------------------------------------
(* Branches                                                                *)

\* One branch of the tree without holes.
IsBranch(S) ==
  /\ S \subseteq Block
  /\ \A a, c \in S : OnChain(a, c) \/ OnChain(c, a)
  /\ \A a, c \in S : \A n \in Number(a) .. Number(c) : OnChain(a, c) => BlockAt(c, n) \in S

\* Adding a block that continues a branch leaves a branch.
LEMMA ExtensionIsBranch ==
  ASSUME NEW S, IsBranch(S), NEW b \in Block,
         \A c \in S : OnChain(c, b), S = {} \/ Parent(b) \in S
  PROVE  IsBranch(S \cup {b})
<1> DEFINE T == S \cup {b}
<1>1. \A c \in S : c \in Block /\ OnChain(c, b)
  BY DEF IsBranch
<1>2. OnChain(b, b)
  BY OnChainOrder
<1>3. \A a, c \in T : OnChain(a, c) \/ OnChain(c, a)
  BY <1>1, <1>2 DEF IsBranch
<1>4. \A a, c \in T : \A n \in Number(a) .. Number(c) :
        OnChain(a, c) => BlockAt(c, n) \in T
  <2> SUFFICES ASSUME NEW a \in T, NEW c \in T,
                      NEW n \in Number(a) .. Number(c), OnChain(a, c)
               PROVE  BlockAt(c, n) \in T
    OBVIOUS
  <2>1. /\ a \in Block /\ c \in Block /\ Number(a) \in Nat /\ Number(c) \in Nat
        /\ Number(b) \in Nat /\ n \in 0 .. Number(c)
    BY <1>1, BlockFacts
  <2>2. CASE a \in S /\ c \in S
    BY <2>2 DEF IsBranch
  <2>3. CASE a = b
    <3>1. c = b
      BY <1>1, <2>1, <2>3, OnChainOrder
    <3>2. BlockAt(b, n) = b
      BY <1>2, <2>1, <2>3, <3>1, BlockAtFacts
    <3>3. QED  BY <3>1, <3>2
  <2>4. CASE a \in S /\ c = b /\ n = Number(b)
    BY <1>2, <2>1, <2>4, BlockAtFacts
  <2>5. CASE a \in S /\ c = b /\ n < Number(b)
    <3> DEFINE p == Parent(b)
    <3>1. p \in S
      BY <2>5
    <3>2. p = BlockAt(b, Number(b) - 1) /\ Number(b) - 1 \in 0 .. Number(b)
      BY <2>1, <2>5 DEF Parent, BlockAt, Number
    <3>3. p \in Block /\ Number(p) = Number(b) - 1 /\ OnChain(p, b)
      BY <3>2, BlockAtFacts
    <3> HIDE DEF p
    <3>4. OnChain(a, p) /\ n \in Number(a) .. Number(p) /\ n \in 0 .. Number(p)
      BY <1>1, <2>1, <2>5, <3>3, AncestorsAreOrdered
    <3>5. BlockAt(p, n) \in S
      BY <2>5, <3>1, <3>4 DEF IsBranch
    <3>6. BlockAt(p, n) = BlockAt(b, n)
      <4>1. BlockAt(p, n) \in Block /\ Number(BlockAt(p, n)) = n /\ OnChain(BlockAt(p, n), p)
        BY <3>3, <3>4, BlockAtFacts
      <4>2. OnChain(BlockAt(p, n), b)
        BY <3>3, <4>1, OnChainTransitive
      <4>3. QED  BY <2>1, <2>5, <4>1, <4>2, BlockAtFacts
    <3>7. QED  BY <2>5, <3>5, <3>6
  <2>6. QED  BY <2>1, <2>2, <2>3, <2>4, <2>5
<1>5. QED  BY <1>1, <1>3, <1>4 DEF IsBranch

\* The part of a branch up to an ancestor is a branch.
LEMMA TruncationIsBranch ==
  ASSUME NEW S, IsBranch(S), NEW ancestor \in Block
  PROVE  IsBranch({c \in S : OnChain(c, ancestor)})
<1> DEFINE T == {c \in S : OnChain(c, ancestor)}
<1>1. \A a, c \in T : OnChain(a, c) \/ OnChain(c, a)
  BY DEF IsBranch
<1>2. \A a, c \in T : \A n \in Number(a) .. Number(c) :
        OnChain(a, c) => BlockAt(c, n) \in T
  <2> SUFFICES ASSUME NEW a \in T, NEW c \in T,
                      NEW n \in Number(a) .. Number(c), OnChain(a, c)
               PROVE  BlockAt(c, n) \in T
    OBVIOUS
  <2>1. a \in Block /\ c \in Block /\ OnChain(c, ancestor)
    BY DEF IsBranch
  <2>2. n \in 0 .. Number(c)
    BY <2>1, BlockFacts
  <2>3. BlockAt(c, n) \in S
    BY DEF IsBranch
  <2>4. OnChain(BlockAt(c, n), ancestor)
    BY <2>1, <2>2, BlockAtFacts, OnChainTransitive
  <2>5. QED  BY <2>3, <2>4
<1>3. QED  BY <1>1, <1>2 DEF IsBranch

=============================================================================
