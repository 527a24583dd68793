-------------------------- MODULE MCRuntimeEngine --------------------------
(***************************************************************************)
(* Small instances of RuntimeEngine: a main branch, a branch that leaves   *)
(* it above the first block and one that leaves it above the second.       *)
(***************************************************************************)
EXTENDS RuntimeEngine

\* 0 - 00 - 000 - 0000          two branches of four blocks
\*   \ 01 - 010 - 0100
TwoBranches == Prefixes(<<0, 0, 0, 0>>) \cup Prefixes(<<0, 1, 0, 0>>)

\* the main branch a block longer, so that it can come back
LongBranches == Prefixes(<<0, 0, 0, 0, 0>>) \cup Prefixes(<<0, 1, 0, 0>>)

\* a third branch, which leaves the main one at the second block
ThreeBranches == LongBranches \cup Prefixes(<<0, 0, 1, 0>>)

NoBlock == {}
AllBlocks == Block
ThirdBlocks == {<<0, 0, 0>>, <<0, 1, 0>>, <<0, 0, 1>>}
SideBlock == {<<0, 0, 1>>}

\* a run that starts at the first block finds a pool in it, one that starts later does not
FirstOrThirdBlocks == {<<0>>} \cup ThirdBlocks

(***************************************************************************)
(* One pool, with the bitmap words read for it.  A swap of a block of      *)
(* crossings moves the price into the other of two words, which leaves the *)
(* pool Pending if that word was not read; a liquidity edit drops the words*)
(* and leaves it Pending; a bootstrap reads the word of the price.         *)
(***************************************************************************)
OnePool == [words : {{}, {0}, {1}}, pending : BOOLEAN]
PendingPool == {p \in OnePool : p.pending}

WordOf(b, crossings) == Cardinality({c \in crossings : OnChain(c, b)}) % 2

ApplyWith(crossings, edits) ==
  [p \in OnePool |-> [b \in Block |->
    IF b \in edits THEN [words |-> {}, pending |-> TRUE]
    ELSE [p EXCEPT !.pending = \/ p.pending
                               \/ b \in crossings /\ WordOf(b, crossings) \notin p.words]]]

FreshWith(crossings) ==
  [b \in Block |-> {[words |-> {WordOf(b, crossings)}, pending |-> FALSE]}]

\* the price leaves its word at the second block of the main branch and returns at
\* the third, so the third leaves the pool Pending with different words when it is
\* applied after a bootstrap at the second and when it is applied without;
\* on a side branch liquidity is edited
Crossings == {<<0, 0>>, <<0, 0, 0>>}
Edits == {<<0, 1, 0>>}
MovingApply == ApplyWith(Crossings, Edits)
MovingFresh == FreshWith(Crossings)

\* no event ever leaves a pool Pending
QuietApply == ApplyWith({}, {})
QuietFresh == FreshWith({})

=============================================================================
