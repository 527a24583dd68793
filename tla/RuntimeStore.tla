--------------------------- MODULE RuntimeStore ---------------------------
(***************************************************************************)
(* The SQLite tables the live runtime depends on, and one operator per     *)
(* transaction of arb-adapters/src/store*.  Each operator is one commit:   *)
(* a crash falls between two of them, never inside.  One research run uses *)
(* the database, so the run_id columns are left out.                       *)
(***************************************************************************)
EXTENDS ForkTree, FiniteSets

CONSTANTS
  None,         \* SQL NULL, Rust's Option::None
  Pools         \* values of StateView::pools: the words, fees, prices and
                \* verification of every pool

VARIABLES
  raw,          \* raw_records: blocks whose block/receipts/logs bundle is stored
  cursor,       \* source_cursors row of the "rpc" source
  gaps,         \* ingest_gaps: block numbers with resolved = 0
  derived,      \* derived_blocks, by block hash
  checkpoints,  \* checkpoints in id order; the last is runtime_checkpoints' row
  job           \* the recovery_jobs row with status 'pending', with its plan

storeVars == <<raw, cursor, gaps, derived, checkpoints, job>>

(***************************************************************************)
(* A pool state: the block it was brought to and what it says of the pools *)
(* there.  A derived row keeps the pools of the view it was derived with.  *)
(***************************************************************************)
State == [at : Block, pools : Pools]
Cursor == [next : Nat, hash : Block]
DerivedBlock == [canonical : BOOLEAN, pools : Pools]
RecoveryPlan == [checkpoint : Nat, ancestor : Block,
                 orphans : SUBSET Block, replay : Seq(Block)]

StoreTypeOK ==
  /\ raw \in SUBSET Block
  /\ cursor \in Cursor \cup {None}
  /\ gaps \in SUBSET Nat
  /\ derived \in [Block -> DerivedBlock \cup {None}]
  /\ checkpoints \in Seq(State)
  /\ job \in RecoveryPlan \cup {None}

StoreInit ==
  /\ raw = {}
  /\ cursor = None
  /\ gaps = {}
  /\ derived = [b \in Block |-> None]
  /\ checkpoints = <<>>
  /\ job = None

Derived(b) == derived[b] # None
IsCanonical(b) == Derived(b) /\ derived[b].canonical
Canonical == {b \in Block : IsCanonical(b)}

PlanTip(p) == Last(p.replay)

(***************************************************************************)
(* Transactions                                                            *)
(***************************************************************************)

\* append_raw_with_pools: the bundle of b, the new cursor, and the gap the
\* cursor has just passed, in one commit.
AppendRaw(b, next, hash) ==
  /\ cursor # None => cursor.next <= next
  /\ raw' = raw \cup {b}
  /\ cursor' = [next |-> next, hash |-> hash]
  /\ gaps' = gaps \ {next - 1}
  /\ UNCHANGED <<derived, checkpoints, job>>

RecordGap(n) ==
  /\ gaps' = gaps \cup {n}
  /\ UNCHANGED <<raw, cursor, derived, checkpoints, job>>

\* save_derived refuses a block whose raw provenance is missing, and the
\* table's UNIQUE(run_id, block_hash) refuses a second row.
SaveDerived(b, pools) ==
  /\ b \in raw
  /\ ~Derived(b)
  /\ derived' = [derived EXCEPT ![b] = [canonical |-> TRUE, pools |-> pools]]
  /\ UNCHANGED <<raw, cursor, gaps, checkpoints, job>>

\* mutant: the block that comes back keeps its orphan flag.
ReactivateDerived_Forgotten(b) == job # None /\ Derived(b) /\ UNCHANGED storeVars

ReactivateDerived(b) ==
  /\ job # None
  /\ Derived(b)
  /\ derived' = [derived EXCEPT ![b].canonical = TRUE]
  /\ UNCHANGED <<raw, cursor, gaps, checkpoints, job>>

\* mutant: the job is recorded, the orphans stay published.
BeginRecovery_KeepsOrphans(plan) ==
  /\ job \in {None, plan}
  /\ job' = plan
  /\ UNCHANGED <<raw, cursor, gaps, derived, checkpoints>>

\* mutant: the orphans are retracted in a commit before the job's.
BeginRecovery_JobLater(plan) ==
  /\ job \in {None, plan}
  /\ derived' = [b \in Block |-> IF b \in plan.orphans /\ Derived(b)
                                   THEN [derived[b] EXCEPT !.canonical = FALSE]
                                   ELSE derived[b]]
  /\ UNCHANGED <<raw, cursor, gaps, checkpoints, job>>

\* begin_recovery: the pending job row and the orphans' flags.  A plan that is
\* already the pending job is accepted again (a resumed recovery).
BeginRecovery(plan) ==
  /\ job \in {None, plan}
  /\ job' = plan
  /\ derived' = [b \in Block |-> IF b \in plan.orphans /\ Derived(b)
                                   THEN [derived[b] EXCEPT !.canonical = FALSE]
                                   ELSE derived[b]]
  /\ UNCHANGED <<raw, cursor, gaps, checkpoints>>

SaveRuntimeCheckpoint(state) ==
  /\ checkpoints' = Append(checkpoints, state)
  /\ UNCHANGED <<raw, cursor, gaps, derived, job>>

\* mutant: the gap that started the recovery is not resolved.
FinishRuntimeRecovery_GapStays(state) ==
  /\ checkpoints' = Append(checkpoints, state)
  /\ cursor' = [next |-> Number(state.at) + 1, hash |-> state.at]
  /\ job' = None
  /\ UNCHANGED <<raw, derived, gaps>>

\* mutant: the cursor is left where the abandoned branch had it.
FinishRuntimeRecovery_CursorStays(state) ==
  /\ checkpoints' = Append(checkpoints, state)
  /\ gaps' = gaps \ {Number(state.at)}
  /\ job' = None
  /\ UNCHANGED <<raw, derived, cursor>>

\* finish_runtime_recovery: checkpoint, cursor, gap and job, in one commit.
FinishRuntimeRecovery(state) ==
  /\ checkpoints' = Append(checkpoints, state)
  /\ cursor' = [next |-> Number(state.at) + 1, hash |-> state.at]
  /\ gaps' = gaps \ {Number(state.at)}
  /\ job' = None
  /\ UNCHANGED <<raw, derived>>

=============================================================================
