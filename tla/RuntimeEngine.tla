--------------------------- MODULE RuntimeEngine ---------------------------
(***************************************************************************)
(* arb-app's live runtime: RuntimeEngine (runtime.rs), Pipeline            *)
(* (pipeline.rs), RecoveryPlan (recovery.rs) and replay_chain (replay.rs)  *)
(* over the transactions of RuntimeStore, beside an RPC node whose head    *)
(* may grow or switch branch between any two requests.  One action per     *)
(* stretch of the code between two points where it can be stopped: an RPC  *)
(* answer or a commit.                                                     *)
(***************************************************************************)
EXTENDS RuntimeStore

CONSTANTS
  StartBlock,   \* config.start_block, or None
  Lookback,     \* fetches recover() allows itself (128)
  PoolBlock,    \* blocks in which discover() finds a pool
  Apply,        \* what apply_block makes of the pools with a block's events
  Fresh,        \* what a bootstrap at a block may read of the pools
  Pending,      \* pools of which one is Pending: its words are not proven
  Rejected,     \* blocks with an event apply_block refuses
  MaxReorgs,    \* bound: branch switches of the node
  MaxFaults     \* bound: crashes, stops, failed requests, refused writes

ASSUME EngineAssumption ==
  /\ StartBlock \in Nat \cup {None}
  /\ Lookback \in Nat /\ MaxReorgs \in Nat /\ MaxFaults \in Nat
  /\ PoolBlock \subseteq Block /\ Rejected \subseteq Block /\ Pending \subseteq Pools
  /\ Apply \in [Pools -> [Block -> Pools]]
  /\ Fresh \in [Block -> SUBSET (Pools \ Pending) \ {{}}]
  /\ None \notin Block
  /\ None \notin Cursor \cup State \cup DerivedBlock \cup RecoveryPlan

VARIABLES
  pc,           \* where the process is; "down" when there is none
  pipe,         \* the Pipeline's State, None before the first bootstrap
  incoming,     \* the block run() fetched and is committing, or None
  old,          \* recover(): the stored block compared next
  replacements, \* recover(): blocks of the new branch, lowest first
  plan,         \* the plan being executed, or None
  step,         \* the height being fetched, or the index of the next
                \* replacement or replayed block
  outcome,      \* how the last process ended
  head,         \* the node's highest block with enough confirmations
  reorgs,       \* how often the node switched branch
  faults        \* faults so far

volatile == <<pc, pipe, incoming, old, replacements, plan, step, outcome>>
node == <<head, reorgs>>
vars == <<storeVars, volatile, node, faults>>

PC == {"down", "loop", "fetch", "commit", "process", "checkpoint", "bootstrap",
       "recover", "plan", "append", "begin", "replay", "finish"}
Outcome == {"Running", "Stopped", "Failed", "DiskPaused", "DataGapPaused",
            "OpenFailed", "Crashed"}

EngineTypeOK ==
  /\ pc \in PC
  /\ pipe \in State \cup {None}
  /\ incoming \in Block \cup {None}
  /\ old \in Block \cup {None}
  /\ replacements \in Seq(Block)
  /\ plan \in RecoveryPlan \cup {None}
  /\ step \in Nat
  /\ outcome \in Outcome
  /\ head \in Block
  /\ reorgs \in 0 .. MaxReorgs
  /\ faults \in 0 .. MaxFaults

Init ==
  /\ StoreInit
  /\ pc = "down" /\ pipe = None /\ incoming = None /\ old = None
  /\ replacements = <<>> /\ plan = None /\ step = 0
  /\ outcome = "Stopped"
  /\ head \in {b \in Block : Number(b) = 1}
  /\ reorgs = 0 /\ faults = 0

-----------------------------------------------------------------------------
(* Helpers                                                                 *)

HasPools == raw \cap PoolBlock # {}

\* State::apply_block on a contiguous block.
ApplyBlock(state, b) == [at |-> b, pools |-> Apply[state.pools][b]]

\* process_timed: the block must continue the state; one derived earlier must
\* come out with the same pools, and an orphan returns only under a pending
\* recovery.
Accepts(b) ==
  /\ Parent(b) = pipe.at /\ b \notin Rejected
  /\ Derived(b) => /\ derived[b].pools = ApplyBlock(pipe, b).pools
                   /\ IsCanonical(b) \/ job # None

Derive(b) ==
  /\ Accepts(b)
  /\ pipe' = ApplyBlock(pipe, b)
  /\ IF ~Derived(b) THEN SaveDerived(b, ApplyBlock(pipe, b).pools)
     ELSE IF ~IsCanonical(b) THEN ReactivateDerived(b)
     ELSE UNCHANGED storeVars

\* The process ends; everything volatile goes with it.
Exit(how) ==
  /\ pc' = "down" /\ outcome' = how
  /\ pipe' = None /\ incoming' = None /\ old' = None
  /\ replacements' = <<>> /\ plan' = None /\ step' = 0

\* The recovery of a live run reports its errors as DataGapPaused, the one of
\* a start-up fails RuntimeEngine::open.
RecoveryFails == Exit(IF incoming = None THEN "OpenFailed" ELSE "DataGapPaused")

GoTo(label) ==
  /\ pc' = label
  /\ UNCHANGED <<incoming, old, replacements, plan, step, outcome>>

-----------------------------------------------------------------------------
(* Start-up and the collection loop                                        *)

\* mutant: a pending job is left for later.
Open_SkipsPendingJob ==
  /\ pc = "down"
  /\ outcome' = "Running"
  /\ pipe' = IF checkpoints = <<>> THEN None ELSE Last(checkpoints)
  /\ pc' = "loop"
  /\ UNCHANGED <<incoming, old, replacements, plan, step, storeVars, node, faults>>

\* RuntimeEngine::open: the pipeline restarts from the runtime checkpoint and
\* a pending recovery is executed before anything is collected.
Open ==
  /\ pc = "down"
  /\ outcome' = "Running"
  /\ pipe' = IF checkpoints = <<>> THEN None ELSE Last(checkpoints)
  /\ plan' = job
  /\ pc' = IF job = None THEN "loop" ELSE "begin"
  /\ UNCHANGED <<incoming, old, replacements, step, storeVars, node, faults>>

BehindCursor == pipe # None /\ cursor # None /\ Number(pipe.at) + 1 < cursor.next

\* replay_chain for one block: the stored blocks of that height that continue
\* the view.  Two of them are an ambiguous fork, none is a data gap.
Successors == {b \in raw : Number(b) = Number(pipe.at) + 1 /\ Parent(b) = pipe.at}

ReplayCommitted ==
  /\ pc = "loop" /\ BehindCursor
  /\ IF \E b \in Successors : Successors = {b} /\ Accepts(b)
       THEN /\ \E b \in Successors : Derive(b)
            /\ GoTo("checkpoint")
       ELSE Exit("Failed") /\ UNCHANGED storeVars
  /\ UNCHANGED <<node, faults>>

NextCollect ==
  IF cursor # None THEN cursor.next
  ELSE IF StartBlock # None THEN StartBlock ELSE Number(head)

\* latest_position, then a fetch of the next height, or a sleep.
Poll ==
  /\ pc = "loop" /\ ~BehindCursor
  /\ NextCollect <= Number(head)
  /\ pc' = "fetch" /\ step' = NextCollect
  /\ UNCHANGED <<pipe, incoming, old, replacements, plan, outcome>>
  /\ UNCHANGED <<storeVars, node, faults>>

Sleep ==
  /\ pc = "loop" /\ ~BehindCursor
  /\ NextCollect > Number(head)
  /\ UNCHANGED vars

\* fetch_block: a node that has meanwhile switched to a shorter branch has no
\* such block, which is an error.
Fetch ==
  /\ pc = "fetch"
  /\ IF step <= Number(head)
       THEN /\ incoming' = BlockAt(head, step)
            /\ pc' = "commit" /\ step' = 0
            /\ UNCHANGED <<pipe, old, replacements, plan, outcome>>
       ELSE Exit("Failed")
  /\ UNCHANGED <<storeVars, node, faults>>

\* RuntimeEngine::commit's comparison of the fetched block with the cursor.
BreaksChain ==
  cursor # None /\ (cursor.next # Number(incoming) \/ cursor.hash # Parent(incoming))

\* mutant: the cursor is saved without the block's hash.
Commit_NoHash ==
  /\ pc = "commit" /\ ~BreaksChain
  /\ AppendRaw(incoming, Number(incoming) + 1, None)
  /\ GoTo(IF pipe # None THEN "process" ELSE "bootstrap")
  /\ UNCHANGED <<pipe, node, faults>>

\* commit's raw append; the block is processed next if there is a pipeline.
Commit ==
  /\ pc = "commit" /\ ~BreaksChain
  /\ AppendRaw(incoming, Number(incoming) + 1, incoming)
  /\ GoTo(IF pipe # None THEN "process" ELSE "bootstrap")
  /\ UNCHANGED <<pipe, node, faults>>

\* The parent changed: the gap is recorded, and recover() starts if there is a
\* pipeline to recover.
CommitGap ==
  /\ pc = "commit" /\ BreaksChain
  /\ RecordGap(Number(incoming))
  /\ IF pipe = None THEN Exit("DataGapPaused")
     ELSE /\ pc' = "recover"
          /\ old' = pipe.at
          /\ replacements' = <<incoming>>
          /\ UNCHANGED <<pipe, incoming, plan, step, outcome>>
  /\ UNCHANGED <<node, faults>>

\* process_records refuses to publish while a recovery is pending.
Process ==
  /\ pc = "process"
  /\ IF job = None /\ Accepts(incoming)
       THEN Derive(incoming) /\ GoTo("checkpoint")
       ELSE Exit("Failed") /\ UNCHANGED storeVars
  /\ UNCHANGED <<node, faults>>

\* run() bootstraps after a block it collected itself, when it must.
AfterBlock == IF incoming # None /\ pipe.pools \in Pending THEN "bootstrap" ELSE "loop"

Checkpoint ==
  /\ pc = "checkpoint"
  /\ SaveRuntimeCheckpoint(pipe)
  /\ pc' = AfterBlock
  /\ incoming' = IF AfterBlock = "loop" THEN None ELSE incoming
  /\ UNCHANGED <<pipe, old, replacements, plan, step, outcome, node, faults>>

\* source.bootstrap at the collected block, then RuntimeEngine::initialize.
\* Its first and last header checks refuse a block the node no longer has.
Bootstrap ==
  /\ pc = "bootstrap"
  /\ \/ /\ pipe = None /\ ~HasPools
        /\ pc' = "loop" /\ incoming' = None
        /\ UNCHANGED <<pipe, old, replacements, plan, step, outcome>>
     \/ /\ pipe # None \/ HasPools
        /\ OnChain(incoming, head)
        /\ \E pools \in Fresh[incoming] : pipe' = [at |-> incoming, pools |-> pools]
        /\ GoTo("checkpoint")
     \/ /\ pipe # None \/ HasPools
        /\ ~OnChain(incoming, head)
        /\ Exit("Failed")
  /\ UNCHANGED <<storeVars, node, faults>>

-----------------------------------------------------------------------------
(* Reorganisation: recover(), RecoveryPlan::build and execute              *)

\* One fetch of recover()'s walk down the stored branch.
FindAncestor ==
  /\ pc = "recover"
  /\ LET found == BlockAt(head, Number(old)) IN
     IF Number(old) > Number(head) THEN RecoveryFails
     ELSE IF found = old
       THEN pc' = "plan" /\ UNCHANGED <<pipe, incoming, old, replacements, plan, step, outcome>>
     ELSE IF ~Derived(old) \/ Len(replacements) >= Lookback THEN RecoveryFails
     ELSE /\ replacements' = <<found>> \o replacements
          /\ old' = Parent(old)
          /\ UNCHANGED <<pc, pipe, incoming, plan, step, outcome>>
  /\ UNCHANGED <<storeVars, node, faults>>

\* The checkpoint build() selects: the highest block at or below the ancestor
\* whose derived row is not orphaned, and the latest id among equals.
Eligible(i, ancestor) ==
  /\ Number(checkpoints[i].at) <= Number(ancestor)
  /\ Derived(checkpoints[i].at) => IsCanonical(checkpoints[i].at)

SelectsCheckpoint(i, ancestor) ==
  /\ Eligible(i, ancestor)
  /\ \A j \in 1 .. Len(checkpoints) :
       Eligible(j, ancestor) =>
         \/ Number(checkpoints[j].at) < Number(checkpoints[i].at)
         \/ Number(checkpoints[j].at) = Number(checkpoints[i].at) /\ j <= i

Chained(base, blocks) ==
  \A i \in 1 .. Len(blocks) :
    Parent(blocks[i]) = IF i = 1 THEN base ELSE blocks[i - 1]

\* build()'s checks: the stored branch from the view down to the checkpoint is
\* complete, it contains the ancestor, and the replacements are a chain.
Buildable(i, ancestor) ==
  LET base == checkpoints[i].at IN
  /\ \A n \in Number(base) + 1 .. Number(pipe.at) : Derived(BlockAt(pipe.at, n))
  /\ OnChain(base, pipe.at) /\ OnChain(ancestor, pipe.at)
  /\ Chained(ancestor, replacements)

\* mutant: the common ancestor is retracted with the abandoned blocks.
PlanFrom_RetractsAncestor(i, ancestor) ==
  LET base == Number(checkpoints[i].at) IN
  [checkpoint |-> i,
   ancestor   |-> ancestor,
   orphans    |-> {BlockAt(pipe.at, n) : n \in Number(ancestor) .. Number(pipe.at)},
   replay     |-> [k \in 1 .. Number(ancestor) - base |-> BlockAt(pipe.at, base + k)]
                    \o replacements]

PlanFrom(i, ancestor) ==
  LET base == Number(checkpoints[i].at) IN
  [checkpoint |-> i,
   ancestor   |-> ancestor,
   orphans    |-> {BlockAt(pipe.at, n) : n \in Number(ancestor) + 1 .. Number(pipe.at)},
   replay     |-> [k \in 1 .. Number(ancestor) - base |-> BlockAt(pipe.at, base + k)]
                    \o replacements]

BuildPlan ==
  /\ pc = "plan"
  /\ LET ancestor == Parent(Head(replacements)) IN
     \/ \E i \in 1 .. Len(checkpoints) :
          /\ SelectsCheckpoint(i, ancestor) /\ Buildable(i, ancestor)
          /\ plan' = PlanFrom(i, ancestor)
          /\ pc' = "append" /\ step' = 1
          /\ UNCHANGED <<pipe, incoming, old, replacements, outcome>>
     \/ /\ \A i \in 1 .. Len(checkpoints) :
             ~(SelectsCheckpoint(i, ancestor) /\ Buildable(i, ancestor))
        /\ RecoveryFails
  /\ UNCHANGED <<storeVars, node, faults>>

\* The new branch's raw records, one commit per block, under the old cursor.
AppendReplacement ==
  /\ pc = "append"
  /\ AppendRaw(replacements[step], cursor.next, cursor.hash)
  /\ IF step = Len(replacements) THEN pc' = "begin" /\ step' = 0
     ELSE pc' = pc /\ step' = step + 1
  /\ UNCHANGED <<pipe, incoming, old, replacements, plan, outcome, node, faults>>

\* execute()'s probe: the plan's blocks can be applied to its checkpoint.
Applies(p) ==
  /\ Chained(checkpoints[p.checkpoint].at, p.replay)
  /\ \A i \in 1 .. Len(p.replay) : p.replay[i] \notin Rejected

\* mutant: the replay starts from the abandoned branch's state.
Begin_KeepsState ==
  /\ pc = "begin"
  /\ IF Applies(plan) /\ job \in {None, plan}
       THEN /\ BeginRecovery(plan)
            /\ pc' = "replay" /\ step' = 1
            /\ UNCHANGED <<pipe, incoming, old, replacements, plan, outcome>>
       ELSE RecoveryFails /\ UNCHANGED storeVars
  /\ UNCHANGED <<node, faults>>

\* execute(): the plan is probed from its checkpoint, the job and the orphans
\* are committed, and the pipeline goes back to the checkpoint.
Begin ==
  /\ pc = "begin"
  /\ IF Applies(plan) /\ job \in {None, plan}
       THEN /\ BeginRecovery(plan)
            /\ pipe' = checkpoints[plan.checkpoint]
            /\ pc' = "replay" /\ step' = 1
            /\ UNCHANGED <<incoming, old, replacements, plan, outcome>>
       ELSE RecoveryFails /\ UNCHANGED storeVars
  /\ UNCHANGED <<node, faults>>

ReplayStep ==
  /\ pc = "replay"
  /\ IF Accepts(plan.replay[step])
       THEN /\ Derive(plan.replay[step])
            /\ IF step = Len(plan.replay) THEN pc' = "finish" /\ step' = 0
               ELSE pc' = pc /\ step' = step + 1
            /\ UNCHANGED <<incoming, old, replacements, plan, outcome>>
       ELSE RecoveryFails /\ UNCHANGED storeVars
  /\ UNCHANGED <<node, faults>>

\* The recovery of a live run returns to the loop (or to a bootstrap); the one
\* of open() writes the checkpoint once more.
Finish ==
  /\ pc = "finish"
  /\ FinishRuntimeRecovery(pipe)
  /\ pc' = IF incoming = None THEN "checkpoint" ELSE AfterBlock
  /\ incoming' = IF AfterBlock = "loop" THEN None ELSE incoming
  /\ old' = None /\ replacements' = <<>> /\ plan' = None
  /\ UNCHANGED <<pipe, step, outcome, node, faults>>

-----------------------------------------------------------------------------
(* The node and the faults                                                 *)

Extend ==
  /\ head' \in {b \in Block : Number(b) = Number(head) + 1 /\ Parent(b) = head}
  /\ UNCHANGED <<storeVars, volatile, reorgs, faults>>

Reorganise ==
  /\ reorgs < MaxReorgs
  /\ head' \in {b \in Block : Number(b) > 0 /\ ~OnChain(b, head) /\ ~OnChain(head, b)}
  /\ reorgs' = reorgs + 1
  /\ UNCHANGED <<storeVars, volatile, faults>>

Fault ==
  /\ faults < MaxFaults
  /\ faults' = faults + 1
  /\ UNCHANGED <<storeVars, node>>

Crash == pc # "down" /\ Fault /\ Exit("Crashed")

\* A signal or the end of the window drops run()'s work at an await.
Stop == pc \in {"loop", "fetch", "recover", "bootstrap"} /\ Fault /\ Exit("Stopped")

RequestFails ==
  /\ Fault
  /\ \/ pc \in {"fetch", "bootstrap"} /\ Exit("Failed")
     \/ pc = "loop" /\ ~BehindCursor /\ Exit("Failed")
     \/ pc = "recover" /\ RecoveryFails

\* DiskBudget::allows refuses before a write.
DiskRefuses ==
  /\ Fault
  /\ \/ pc \in {"loop", "commit"} /\ Exit("DiskPaused")
     \/ pc = "bootstrap" /\ Exit("Failed")
     \/ pc = "loop" /\ BehindCursor /\ Exit("Failed")
     \/ pc = "plan" /\ RecoveryFails

Engine ==
  \/ ReplayCommitted \/ Poll \/ Fetch \/ Commit \/ CommitGap \/ Process
  \/ Checkpoint \/ Bootstrap \/ FindAncestor \/ BuildPlan \/ AppendReplacement
  \/ Begin \/ ReplayStep \/ Finish

Next ==
  \/ Open \/ Engine \/ Sleep
  \/ Extend \/ Reorganise
  \/ Crash \/ Stop \/ RequestFails \/ DiskRefuses

Spec == Init /\ [][Next]_vars

(***************************************************************************)
(* Fairness: the process keeps running, and a process that ended is started*)
(* again (systemd after a crash, the operator otherwise).  Nothing is asked*)
(* of the node.                                                            *)
(***************************************************************************)
FairSpec == Spec /\ WF_vars(Engine) /\ WF_vars(Open)

-----------------------------------------------------------------------------
(* Properties                                                              *)

\* Every variable has the type its table or Rust type gives it.
TypeOK == StoreTypeOK /\ EngineTypeOK

\* Once no recovery is pending, the canonical derived blocks are exactly the
\* derived blocks of the branch the RPC cursor stands on: no block of an
\* abandoned branch stays published, no block of the current one stays retracted,
\* whatever reorganisations and crashes came before.
PublishedFollowsCursor ==
  job = None /\ cursor # None =>
    Canonical = {b \in Block : Derived(b) /\ OnChain(b, cursor.hash)}

\* A restart that finds no pending job can bring its checkpoint up to the cursor
\* from the database alone: at each height in between the stored blocks of that
\* height name exactly one successor, so replay_chain meets neither a gap nor a fork.
RestartCanReplay ==
  job = None /\ checkpoints # <<>> =>
    /\ OnChain(Last(checkpoints).at, cursor.hash)
    /\ \A n \in Number(Last(checkpoints).at) + 1 .. cursor.next - 1 :
         {b \in raw : Number(b) = n /\ Parent(b) = BlockAt(cursor.hash, n - 1)}
           = {BlockAt(cursor.hash, n)}

\* A crash anywhere in a recovery leaves a job that can be executed from the
\* database alone: its checkpoint exists, its blocks can be applied to it and are
\* all stored, none of them is one it retracts, and it ends at the height the
\* cursor waits for.
PendingJobIsComplete ==
  job # None =>
    /\ job.checkpoint \in 1 .. Len(checkpoints)
    /\ Applies(job)
    /\ \A i \in 1 .. Len(job.replay) : job.replay[i] \in raw \ job.orphans
    /\ Number(PlanTip(job)) = cursor.next

\* An unresolved gap is always the very height the cursor waits for (a block
\* passed by the cursor has no open gap), and a run that ended DataGapPaused
\* left its gap in the table for the report to see.
GapsExplainPauses ==
  /\ gaps # {} => cursor # None /\ gaps = {cursor.next}
  /\ pc = "down" /\ outcome = "DataGapPaused" => gaps # {}

\* "Blocks already written on the new branch are reused idempotently": no block
\* a recovery replays is refused by the pipeline.
ReplayIsIdempotent == pc = "replay" => Accepts(plan.replay[step])

\* A published block is retracted only by a recovery's plan, and only if it is
\* not on the branch that plan moves to.
OnlyRecoveryRetracts ==
  [][\A b \in Canonical \ Canonical' :
       job' # None /\ b \in job'.orphans /\ ~OnChain(b, PlanTip(job'))]_vars

\* No commit, recovery or restart moves the RPC cursor back to a lower height.
CursorNeverRewinds ==
  [][cursor # None => cursor' # None /\ cursor'.next >= cursor.next]_vars

\* Refinement: the rows of derived_blocks and the pending job, as the readers of the
\* database see them.
Published == INSTANCE PublishedChain WITH
  published <- Canonical,
  stored <- {b \in Block : Derived(b)},
  switch <- IF job = None THEN None ELSE PlanTip(job)

\* The runtime implements the published branch.
ImplementsPublishedChain == Published!Spec

\* The situations the runtime does not recover from by itself: the node left the
\* stored branch before the first bootstrap, or below it.
Stranded ==
  IF checkpoints = <<>> THEN cursor # None /\ ~OnChain(cursor.hash, head)
  ELSE ~OnChain(checkpoints[1].at, head)

\* The switch is deeper than the fetches recover() allows itself.
TooDeep ==
  /\ cursor # None /\ Lookback \in 1 .. cursor.next
  /\ ~OnChain(BlockAt(cursor.hash, cursor.next - Lookback), head)

\* A block of the node's branch is refused by the state: the recovery that would go
\* over to it is refused before it retracts anything.
RefusedAhead == \E b \in Rejected : OnChain(b, head)

\* commit() stored a block before the state refused it: what is published ends below
\* it, and every restart meets it again.
StopsBelowRefused ==
  /\ job = None /\ checkpoints # <<>> /\ cursor # None
  /\ \E b \in Rejected : OnChain(b, cursor.hash) /\ Last(checkpoints).at = Parent(b)

\* No recovery is half done, and the pipeline has reached the cursor's block.
Settled ==
  /\ job = None
  /\ checkpoints = <<>> \/ Last(checkpoints).at = cursor.hash

\* All the node's blocks are collected: the loop sleeps.
Asleep == pc = "loop" /\ NextCollect > Number(head)

\* Every pause has its gap recorded and a reason a restart cannot remove.
Paused == gaps # {} /\ (Stranded \/ TooDeep \/ RefusedAhead)

\* When faults and branch switches are over, the runtime comes to rest in one of
\* three ways, and never with a recovery half done: it sleeps with everything it
\* collected published (a branch no longer than the stored one is waited for, not
\* followed); it is paused at a recorded gap with the old branch whole; or it stands
\* right below a stored block the state refuses.
EventuallyCaughtUp ==
  <>[](\/ Settled /\ (Asleep \/ Paused)
       \/ StopsBelowRefused)

=============================================================================
