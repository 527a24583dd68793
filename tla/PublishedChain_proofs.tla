----------------------- MODULE PublishedChain_proofs -----------------------
(***************************************************************************)
(* What the abstract specification gives the readers of the database: one  *)
(* branch, without holes, for every tree of blocks.                        *)
(***************************************************************************)
EXTENDS PublishedChain, ForkTree_proofs

\* The published blocks are one branch of the chain without holes, through
\* every switch: what the report reads is a chain, never a mixture of two.
THEOREM OneBranchWithoutHoles == Spec => [](OneBranch /\ NoHoles)
<1>1. Init => IsBranch(published)
  BY DEF Init, IsBranch
<1>2. IsBranch(published) /\ [Next]_chainVars => IsBranch(published)'
  <2> SUFFICES ASSUME IsBranch(published), [Next]_chainVars PROVE IsBranch(published)'
    OBVIOUS
  <2>1. ASSUME NEW b \in Block, Publish(b) \/ Restore(b) PROVE IsBranch(published)'
    BY <2>1, ExtensionIsBranch DEF Publish, Restore, Continues
  <2>2. ASSUME NEW a \in Block, NEW t \in Block, Announce(a, t) PROVE IsBranch(published)'
    BY <2>2, TruncationIsBranch DEF Announce
  <2>3. CASE Complete \/ UNCHANGED chainVars
    BY <2>3 DEF Complete, chainVars
  <2>4. QED  BY <2>1, <2>2, <2>3 DEF Next
<1>3. IsBranch(published) => OneBranch /\ NoHoles
  BY DEF IsBranch, OneBranch, NoHoles
<1>4. QED  BY <1>1, <1>2, <1>3, PTL DEF Spec

=============================================================================
