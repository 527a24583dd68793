---------------------------- MODULE PoolRegistry ----------------------------
(***************************************************************************)
(* The pools a database knows (pool_registry), as the live runtime fills   *)
(* it: discover() over the receipts of every block that is appended        *)
(* (arb-adapters discovery.rs), in the transaction that appends the block  *)
(* (store/catalog.rs, store/raw.rs).  Rows are written once and never      *)
(* taken back.                                                             *)
(***************************************************************************)
EXTENDS NodeReads

CONSTANTS
  Pool,
  Launches   \* the transactions of each block, as sets of events [kind, pool]

VARIABLES
  tip,       \* the block the RPC cursor stands on
  registry,  \* the block of initialized_at, by pool, or None
  gap        \* ingest_gaps has an open row of the runtime

Launch == {"Initialize", "PoolRegistered", "PoolGraduated"}

\* The root is below the first block that is collected.
ASSUME LaunchAssumption ==
  /\ Launches \in [Block -> SUBSET SUBSET [kind : Launch, pool : Pool]]
  /\ Launches[<<>>] = {}

RegistryTypeOK ==
  /\ tip \in Block
  /\ registry \in [Pool -> Block \cup {None}]
  /\ gap \in BOOLEAN

\* Collection begins at the root.
RegistryInit == tip = <<>> /\ registry = [p \in Pool |-> None] /\ gap = FALSE

Registered == {p \in Pool : registry[p] # None}

\* discover: a pool is initialised, registered with the hook and graduated by the factory
\* in one transaction.
Discovered(b) ==
  {p \in Pool : \E t \in Launches[b] : \A k \in Launch : [kind |-> k, pool |-> p] \in t}

\* What a contract knows of a pool at a block.
Happened(k, p, b) ==
  \E a \in Block : OnChain(a, b) /\ \E t \in Launches[a] : [kind |-> k, pool |-> p] \in t

\* The pools all three contracts know at a block.
Live(b) == {p \in Pool : \A k \in Launch : Happened(k, p, b)}

\* insert_pool, for the pools of the block: a key that is there keeps its row.
Register(known, b) ==
  [p \in Pool |-> IF p \in Discovered(b) /\ known[p] = None THEN b ELSE known[p]]

\* append_raw_with_pools: a block that continues the cursor, and its pools; the gap the
\* cursor passes is closed.
AppendBlock(b) ==
  /\ Parent(b) = tip
  /\ tip' = b
  /\ registry' = Register(registry, b)
  /\ gap' = FALSE

-----------------------------------------------------------------------------
\* The node's blocks above the common ancestor, up to the height the cursor waits for.
Replacement ==
  {BlockAt(head, n) : n \in {m \in 1 .. Number(tip) + 1 : ~OnChain(BlockAt(head, m), tip)}}

RegisterAll(known, blocks) ==
  [p \in Pool |->
     IF known[p] # None \/ \A b \in blocks : p \notin Discovered(b) THEN known[p]
     ELSE CHOOSE b \in blocks : /\ p \in Discovered(b)
                                /\ \A a \in blocks : p \in Discovered(a) => Number(b) <= Number(a)]

\* The node's branch has the height the cursor waits for, and does not continue it.
LeftBranch == Number(head) > Number(tip) /\ ~OnChain(tip, head)

\* mutant: the blocks of a new branch are appended without their pools.
AppendBranch_NoPools ==
  /\ LeftBranch
  /\ tip' = BlockAt(head, Number(tip) + 1)
  /\ registry' = registry
  /\ gap' = FALSE

\* recover: the new branch is appended block by block, with its pools, and at the end
\* the cursor goes over to it and the gap is closed.
AppendBranch ==
  /\ LeftBranch
  /\ tip' = BlockAt(head, Number(tip) + 1)
  /\ registry' = RegisterAll(registry, Replacement)
  /\ gap' = FALSE

\* A recovery that ends early: the blocks below some height are appended, each in a
\* transaction of its own under the old cursor, and the gap stays open.
AppendPart ==
  /\ LeftBranch
  /\ \E n \in 0 .. Number(tip) + 1 :
       registry' = RegisterAll(registry, {b \in Replacement : Number(b) <= n})
  /\ gap' = TRUE
  /\ UNCHANGED tip

-----------------------------------------------------------------------------
(* Properties                                                              *)

\* Whatever switches of the node the runs recovered from, every pool that was launched in
\* a block of the branch the database is on has its row: no new run misses it.
RegistryKnowsBranch ==
  \A b \in Block : OnChain(b, tip) => Discovered(b) \subseteq Registered

\* "After a recovery the state is that of a full replay of the right branch, what was
\* derived from the old one is void": when no recovery is unfinished, the registry's rows
\* are of the branch the database is on.
RegistryFollowsBranch ==
  ~gap => \A p \in Registered : OnChain(registry[p], tip) /\ p \in Discovered(registry[p])

=============================================================================
