----------------------------- MODULE ForkTree -----------------------------
(***************************************************************************)
(* The blocks an RPC node can report.  A block hash commits to the whole   *)
(* history below it, so a block is modelled by that history: the sequence  *)
(* of choices made at each height since genesis.  Two blocks with the same *)
(* value have the same number, parent and ancestors, which is what the     *)
(* code relies on when it compares `position` and `parent_hash`.           *)
(***************************************************************************)
EXTENDS Integers, Sequences, SequencesExt

CONSTANT Block          \* a finite, prefix-closed set of histories

Number(b) == Len(b)                     \* ChainPosition.block_number
Parent(b) == SubSeq(b, 1, Len(b) - 1)   \* BlockBatch.parent_hash
BlockAt(b, n) == SubSeq(b, 1, n)        \* the ancestor of b at height n
OnChain(a, b) == IsPrefix(a, b)         \* a is b or an ancestor of b

ASSUME BlockAssumption ==
  /\ <<>> \in Block
  /\ \A b \in Block : /\ b \in Seq(Nat)
                      /\ \A n \in 0 .. Number(b) : BlockAt(b, n) \in Block

=============================================================================
