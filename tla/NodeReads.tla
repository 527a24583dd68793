----------------------------- MODULE NodeReads -----------------------------
(***************************************************************************)
(* The RPC endpoint, external, as arb-adapters rpc.rs and bootstrap.rs     *)
(* read it: one request after the other, each answered from the branch     *)
(* that is the node's own at that moment.                                  *)
(***************************************************************************)
EXTENDS ForkTree, FiniteSets

CONSTANTS
  None,
  Transactions,  \* the transactions of a block; a branch may repeat those of another
  Logging        \* those of them that leave logs

VARIABLES
  head,     \* the last block of the node's branch
  returns,  \* the node may come back to blocks it left
  left      \* the blocks it left, when it does not come back to any

node == <<head, returns, left>>

Height == {Number(b) : b \in Block}

ASSUME NodeAssumption ==
  /\ None \notin Block /\ None \notin Height
  /\ \A b \in Block : Logging[b] \subseteq Transactions[b]

NodeTypeOK == head \in Block /\ returns \in BOOLEAN /\ left \subseteq Block

NodeInit == head = <<>> /\ returns \in BOOLEAN /\ left = {}

\* Another head, above the present one or on another branch; one that comes back may
\* also be behind for a while.
NodeMoves ==
  \E b \in Block \ {head} :
    /\ ~returns => ~OnChain(b, head) /\ ~\E a \in left : OnChain(a, b)
    /\ head' = b
    /\ left' = IF returns THEN {}
               ELSE left \cup {a \in Block : OnChain(a, head) /\ ~OnChain(a, b)}
    /\ UNCHANGED returns

\* Where the node has the height n.
Reaches(n) == n <= Number(head)
Canonical(n) == BlockAt(head, n)

Receipt(b, t) == [block |-> b, tx |-> t, logs |-> t \in Logging[b]]
ReceiptsOf(b) == {Receipt(b, t) : t \in Transactions[b]}

Log(b, t) == [block |-> b, tx |-> t]
LogsOf(b) == {Log(b, t) : t \in Logging[b]}

Bundle == [receipts : SUBSET UNION {ReceiptsOf(b) : b \in Block},
           logs : SUBSET UNION {LogsOf(b) : b \in Block}]

BundleOf(b) == [receipts |-> ReceiptsOf(b), logs |-> LogsOf(b)]

ASSUME BundleAssumption == None \notin Bundle

-----------------------------------------------------------------------------
(* validate_block                                                          *)

\* mutant: whose receipts they are is not looked at.
Valid_AnyBlock(b, receipts, logs) ==
  /\ {r.tx : r \in receipts} = Transactions[b]
  /\ {l.tx : l \in logs} = {r.tx : r \in {q \in receipts : q.logs}}

\* Every transaction has a receipt of this block, and the logs that were asked for by
\* hash are those of the receipts.
Valid(b, receipts, logs) ==
  /\ {r.tx : r \in receipts} = Transactions[b]
  /\ \A r \in receipts : r.block = b
  /\ logs = {Log(r.block, r.tx) : r \in {q \in receipts : q.logs}}

=============================================================================
