----------------------- MODULE RuntimeEngine_proofs -----------------------
(***************************************************************************)
(* Proofs about RuntimeEngine for every set of blocks, every lookback and  *)
(* every number of reorganisations and faults.  The first half proves the  *)
(* types and the gaps, the second what is published: the branch the cursor *)
(* stands on, through every reorganisation and crash, as PublishedChain    *)
(* promises.                                                               *)
(***************************************************************************)
EXTENDS RuntimeEngine, ForkTree_proofs

(***************************************************************************)
(* The inductive invariant: the types; which volatile variable is set at   *)
(* which point of the code; the height every part of an operation agrees   *)
(* on, the cursor's; and the gaps.                                         *)
(***************************************************************************)
ControlInv ==
  /\ pc \in {"commit", "process", "recover", "plan", "append", "bootstrap"}
       => incoming # None
  /\ pc = "down" => incoming = None
  /\ pc \in {"process", "checkpoint", "recover", "plan", "append", "replay", "finish"}
       => pipe # None
  /\ pc \in {"recover", "plan"} => old # None
  /\ pc \in {"recover", "plan", "append"} => replacements # <<>> /\ cursor # None
  /\ pc \in {"append", "begin", "replay", "finish"} => plan # None
  /\ pc = "append" => step \in 1 .. Len(replacements)
  /\ pc = "replay" => step \in 1 .. Len(plan.replay)

PlanInv ==
  /\ plan # None => plan.checkpoint \in 1 .. Len(checkpoints) /\ plan.replay # <<>>
  /\ job # None => job.checkpoint \in 1 .. Len(checkpoints) /\ job.replay # <<>>
  /\ pc \in {"replay", "finish"} => job = plan
  /\ pc \notin {"down", "begin", "replay", "finish"} => job = None
  /\ pc = "down" => plan = None
  /\ pc = "begin" => job \in {None, plan}

HeightInv ==
  /\ pc = "fetch" /\ cursor # None => step = cursor.next
  /\ pc = "commit" /\ cursor # None => Number(incoming) = cursor.next
  /\ pc \in {"recover", "plan", "append"} => Number(Last(replacements)) = cursor.next
  /\ pc \in {"append", "begin", "replay", "finish"}
       => cursor # None /\ Number(PlanTip(plan)) = cursor.next
  /\ job # None => cursor # None /\ Number(PlanTip(job)) = cursor.next
  /\ pc = "finish" => pipe.at = PlanTip(plan)

GapInv ==
  /\ GapsExplainPauses
  /\ pc \in {"recover", "plan", "append", "begin", "replay", "finish"} /\ incoming # None
       => gaps # {}

Inv == TypeOK /\ ControlInv /\ PlanInv /\ HeightInv /\ GapInv

-----------------------------------------------------------------------------
(* The invariant holds initially and every action preserves it             *)

LEMMA InitialState == Init => Inv
<1> SUFFICES ASSUME Init PROVE Inv
  OBVIOUS
<1> USE DEF Init, StoreInit
<1>1. TypeOK
  <2>1. StoreTypeOK
    BY EmptySeq DEF StoreTypeOK
  <2>2. EngineTypeOK
    BY EmptySeq, EngineAssumption DEF EngineTypeOK, PC, Outcome
  <2>3. QED  BY <2>1, <2>2 DEF TypeOK
<1>2. ControlInv /\ PlanInv /\ HeightInv /\ GapInv
  BY DEF ControlInv, PlanInv, HeightInv, GapInv, GapsExplainPauses
<1>3. QED  BY <1>1, <1>2 DEF Inv

\* A process that ends without a commit: what remains is the database.
LEMMA ExitPreserves ==
  ASSUME Inv, NEW how \in Outcome, Exit(how), UNCHANGED storeVars,
         how = "DataGapPaused" => gaps # {},
         head' \in Block, reorgs' \in 0 .. MaxReorgs, faults' \in 0 .. MaxFaults
  PROVE  Inv'
<1> USE DEF Exit, storeVars
<1>1. TypeOK'
  <2>1. StoreTypeOK'
    BY DEF Inv, TypeOK, StoreTypeOK
  <2>2. EngineTypeOK'
    BY EmptySeq DEF EngineTypeOK, PC
  <2>3. QED  BY <2>1, <2>2 DEF TypeOK
<1>2. ControlInv'
  BY DEF ControlInv
<1>3. PlanInv'
  BY DEF Inv, PlanInv
<1>4. HeightInv'
  BY DEF Inv, HeightInv
<1>5. GapInv'
  BY DEF Inv, GapInv, GapsExplainPauses
<1>6. QED  BY <1>1, <1>2, <1>3, <1>4, <1>5 DEF Inv

\* A recovery that fails ends the process DataGapPaused only if it began with a
\* block that broke the chain, and then the gap of that block is recorded.
LEMMA RecoveryFailsPreserves ==
  ASSUME Inv, RecoveryFails, UNCHANGED storeVars,
         pc \in {"recover", "plan", "append", "begin", "replay"},
         head' \in Block, reorgs' \in 0 .. MaxReorgs, faults' \in 0 .. MaxFaults
  PROVE  Inv'
<1>1. PICK how \in {"OpenFailed", "DataGapPaused"} :
        Exit(how) /\ (how = "DataGapPaused" => incoming # None)
  BY Zenon DEF RecoveryFails
<1>2. how = "DataGapPaused" => gaps # {}
  BY <1>1 DEF Inv, GapInv
<1>3. how \in Outcome
  BY <1>1 DEF Outcome
<1>4. QED  BY <1>1, <1>2, <1>3, ExitPreserves

\* The environment and the idle loop leave the database and the process alone.
LEMMA NodePreserves ==
  ASSUME Inv, Extend \/ Reorganise \/ Sleep \/ UNCHANGED vars
  PROVE  Inv'
<1>1. UNCHANGED <<storeVars, volatile, faults>>
  BY DEF Extend, Reorganise, Sleep, vars, node
<1>2. head' \in Block /\ reorgs' \in 0 .. MaxReorgs
  BY EngineAssumption
  DEF Inv, TypeOK, EngineTypeOK, Extend, Reorganise, Sleep, vars, node
<1>3. TypeOK'
  BY <1>1, <1>2 DEF Inv, TypeOK, StoreTypeOK, EngineTypeOK, storeVars, volatile
<1>4. ControlInv'
  BY <1>1 DEF Inv, ControlInv, storeVars, volatile
<1>5. PlanInv'
  BY <1>1 DEF Inv, PlanInv, storeVars, volatile
<1>6. HeightInv'
  BY <1>1 DEF Inv, HeightInv, storeVars, volatile
<1>7. GapInv'
  BY <1>1 DEF Inv, GapInv, GapsExplainPauses, storeVars, volatile
<1>8. QED  BY <1>3, <1>4, <1>5, <1>6, <1>7 DEF Inv

LEMMA FaultPreserves ==
  ASSUME Inv, Crash \/ Stop \/ RequestFails \/ DiskRefuses
  PROVE  Inv'
<1>1. /\ UNCHANGED storeVars
      /\ head' \in Block /\ reorgs' \in 0 .. MaxReorgs /\ faults' \in 0 .. MaxFaults
  BY EngineAssumption
  DEF Inv, TypeOK, EngineTypeOK, Crash, Stop, RequestFails, DiskRefuses, Fault, node
<1>2. CASE \E how \in Outcome \ {"DataGapPaused"} : Exit(how)
  <2>1. PICK how \in Outcome \ {"DataGapPaused"} : Exit(how)
    BY <1>2
  <2>2. QED  BY <1>1, <2>1, ExitPreserves
<1>3. CASE pc \in {"recover", "plan"} /\ RecoveryFails
  BY <1>1, <1>3, RecoveryFailsPreserves
<1>4. (\E how \in {"Crashed", "Stopped", "Failed", "DiskPaused"} : Exit(how))
        \/ (pc \in {"recover", "plan"} /\ RecoveryFails)
  BY Zenon DEF Crash, Stop, RequestFails, DiskRefuses
<1>5. {"Crashed", "Stopped", "Failed", "DiskPaused"} \subseteq Outcome \ {"DataGapPaused"}
  BY DEF Outcome
<1>6. QED  BY <1>2, <1>3, <1>4, <1>5

LEMMA OpenPreserves == ASSUME Inv, Open PROVE Inv'
<1> USE DEF Open, storeVars, node
<1>1. TypeOK'
  <2>1. pipe' \in State \cup {None}
    <3>1. CASE checkpoints = <<>>
      BY <3>1
    <3>2. CASE checkpoints # <<>>
      BY <3>2, LastOfConcat, EmptySeq DEF Inv, TypeOK, StoreTypeOK
    <3>3. QED  BY <3>1, <3>2
  <2>2. QED  BY <2>1 DEF Inv, TypeOK, StoreTypeOK, EngineTypeOK, PC, Outcome
<1>2. ControlInv'
  BY DEF Inv, ControlInv
<1>3. PlanInv'
  BY DEF Inv, PlanInv
<1>4. HeightInv'
  BY DEF Inv, HeightInv
<1>5. GapInv'
  BY DEF Inv, GapInv, GapsExplainPauses, ControlInv
<1>6. QED  BY <1>1, <1>2, <1>3, <1>4, <1>5 DEF Inv

LEMMA PollPreserves == ASSUME Inv, Poll PROVE Inv'
<1> USE DEF Poll, storeVars, node
<1>1. NextCollect \in Nat
  BY EngineAssumption, BlockFacts
  DEF NextCollect, Inv, TypeOK, StoreTypeOK, EngineTypeOK, Cursor
<1>2. TypeOK'
  BY <1>1 DEF Inv, TypeOK, StoreTypeOK, EngineTypeOK, PC
<1>3. ControlInv'
  BY DEF Inv, ControlInv
<1>4. PlanInv'
  BY DEF Inv, PlanInv
<1>5. HeightInv'
  BY DEF Inv, HeightInv, NextCollect
<1>6. GapInv'
  BY DEF Inv, GapInv, GapsExplainPauses
<1>7. QED  BY <1>2, <1>3, <1>4, <1>5, <1>6 DEF Inv

LEMMA FetchPreserves == ASSUME Inv, Fetch PROVE Inv'
<1> USE DEF Fetch, storeVars, node
<1>1. CASE step > Number(head)
  BY <1>1, BlockFacts, ExitPreserves DEF Inv, TypeOK, EngineTypeOK, Outcome
<1>2. CASE step <= Number(head)
  <2>1. /\ incoming' = BlockAt(head, step) /\ pc' = "commit" /\ step' = 0
        /\ UNCHANGED <<pipe, old, replacements, plan, outcome>>
    BY <1>2
  <2>2. incoming' \in Block /\ Number(incoming') = step
    BY <1>2, <2>1, BlockFacts, BlockAtNumber DEF Inv, TypeOK, EngineTypeOK
  <2>3. TypeOK'
    BY <2>1, <2>2 DEF Inv, TypeOK, StoreTypeOK, EngineTypeOK, PC
  <2>4. ControlInv'
    BY <2>1, <2>2, EngineAssumption DEF Inv, ControlInv
  <2>5. PlanInv'
    BY <2>1 DEF Inv, PlanInv
  <2>6. HeightInv'
    BY <2>1, <2>2 DEF Inv, HeightInv
  <2>7. GapInv'
    BY <2>1 DEF Inv, GapInv, GapsExplainPauses
  <2>8. QED  BY <2>3, <2>4, <2>5, <2>6, <2>7 DEF Inv
<1>3. QED  BY <1>1, <1>2, BlockFacts DEF Inv, TypeOK, EngineTypeOK

\* What process_timed does to the database and the pipeline, wherever it runs.
LEMMA DeriveEffect ==
  ASSUME Inv, pipe # None, NEW b \in Block, Derive(b)
  PROVE  /\ pipe' \in State /\ pipe'.at = b
         /\ derived' \in [Block -> DerivedBlock \cup {None}]
         /\ UNCHANGED <<raw, cursor, gaps, checkpoints, job>>
<1> USE DEF Derive, Derived, IsCanonical
<1>1. pipe' = ApplyBlock(pipe, b)
  OBVIOUS
<1>2. Apply[pipe.pools][b] \in Pools
  <2>1. pipe.pools \in Pools
    BY DEF Inv, TypeOK, EngineTypeOK, State
  <2>2. QED  BY <2>1, EngineAssumption
<1>3. pipe' \in State /\ pipe'.at = b
  BY <1>1, <1>2 DEF ApplyBlock, State
<1>4. derived \in [Block -> DerivedBlock \cup {None}]
  BY DEF Inv, TypeOK, StoreTypeOK
<1>5. CASE ~Derived(b)
  <2>1. derived' = [derived EXCEPT ![b] =
                      [canonical |-> TRUE, pools |-> ApplyBlock(pipe, b).pools]]
        /\ UNCHANGED <<raw, cursor, gaps, checkpoints, job>>
    BY <1>5 DEF SaveDerived
  <2>2. [canonical |-> TRUE, pools |-> ApplyBlock(pipe, b).pools] \in DerivedBlock
    BY <1>1, <1>3 DEF State, DerivedBlock
  <2>3. QED  BY <1>3, <1>4, <2>1, <2>2
<1>6. CASE Derived(b) /\ ~IsCanonical(b)
  <2>1. derived' = [derived EXCEPT ![b].canonical = TRUE]
        /\ UNCHANGED <<raw, cursor, gaps, checkpoints, job>>
    BY <1>6 DEF ReactivateDerived
  <2>2. derived[b] \in DerivedBlock
    BY <1>4, <1>6
  <2>3. [derived[b] EXCEPT !.canonical = TRUE] \in DerivedBlock
    BY <2>2 DEF DerivedBlock
  <2>4. QED  BY <1>3, <1>4, <2>1, <2>3
<1>7. CASE Derived(b) /\ IsCanonical(b)
  BY <1>3, <1>4, <1>7 DEF storeVars
<1>8. QED  BY <1>5, <1>6, <1>7

LEMMA ReplayCommittedPreserves == ASSUME Inv, ReplayCommitted PROVE Inv'
<1>1. pc = "loop" /\ pipe # None /\ UNCHANGED <<node, faults>>
  BY DEF ReplayCommitted, BehindCursor
<1>2. CASE Exit("Failed") /\ UNCHANGED storeVars
  BY <1>1, <1>2, ExitPreserves DEF Inv, TypeOK, EngineTypeOK, Outcome, node
<1>3. CASE (\E b \in Successors : Derive(b)) /\ GoTo("checkpoint")
  <2>1. PICK b \in Successors : Derive(b)
    BY <1>3
  <2>2. b \in Block
    BY DEF Successors, Inv, TypeOK, StoreTypeOK
  <2>3. /\ pipe' \in State /\ pipe'.at = b
        /\ derived' \in [Block -> DerivedBlock \cup {None}]
        /\ UNCHANGED <<raw, cursor, gaps, checkpoints, job>>
    BY <1>1, <2>1, <2>2, DeriveEffect
  <2>4. /\ pc' = "checkpoint"
        /\ UNCHANGED <<incoming, old, replacements, plan, step, outcome>>
    BY <1>3 DEF GoTo
  <2>5. TypeOK'
    BY <1>1, <2>3, <2>4 DEF Inv, TypeOK, StoreTypeOK, EngineTypeOK, PC, node
  <2>6. ControlInv'
    BY <2>3, <2>4, EngineAssumption DEF Inv, ControlInv
  <2>7. PlanInv'
    BY <1>1, <2>3, <2>4 DEF Inv, PlanInv
  <2>8. HeightInv'
    BY <2>3, <2>4 DEF Inv, HeightInv
  <2>9. GapInv'
    BY <2>3, <2>4 DEF Inv, GapInv, GapsExplainPauses
  <2>10. QED  BY <2>5, <2>6, <2>7, <2>8, <2>9 DEF Inv
<1>4. QED  BY <1>2, <1>3, Zenon DEF ReplayCommitted

LEMMA CommitPreserves == ASSUME Inv, Commit PROVE Inv'
<1>1. /\ pc = "commit" /\ ~BreaksChain
      /\ AppendRaw(incoming, Number(incoming) + 1, incoming)
      /\ pc' = IF pipe # None THEN "process" ELSE "bootstrap"
      /\ UNCHANGED <<pipe, incoming, old, replacements, plan, step, outcome,
                     derived, checkpoints, job, head, reorgs, faults>>
  BY DEF Commit, GoTo, AppendRaw, node
<1>2. incoming \in Block /\ Number(incoming) \in Nat
  BY <1>1, BlockFacts DEF Inv, ControlInv, TypeOK, EngineTypeOK
<1>3. /\ raw' = raw \cup {incoming}
      /\ cursor' = [next |-> Number(incoming) + 1, hash |-> incoming]
      /\ gaps' = gaps \ {Number(incoming)}
  BY <1>1, <1>2 DEF AppendRaw
<1>4. cursor' \in Cursor /\ cursor' # None
  BY <1>2, <1>3, EngineAssumption DEF Cursor
<1>5. TypeOK'
  BY <1>1, <1>2, <1>3, <1>4 DEF Inv, TypeOK, StoreTypeOK, EngineTypeOK, PC
<1>6. job = None
  BY <1>1 DEF Inv, PlanInv
<1>7. ControlInv'
  BY <1>1 DEF Inv, ControlInv
<1>8. PlanInv'
  BY <1>1 DEF Inv, PlanInv
<1>9. HeightInv'
  BY <1>1, <1>6 DEF Inv, HeightInv
<1>10. GapInv'
  <2>1. gaps \subseteq {Number(incoming)}
    BY <1>1 DEF Inv, GapInv, GapsExplainPauses, BreaksChain
  <2>2. QED  BY <1>1, <1>3, <2>1 DEF Inv, GapInv, GapsExplainPauses
<1>11. QED  BY <1>5, <1>7, <1>8, <1>9, <1>10 DEF Inv

LEMMA CommitGapPreserves == ASSUME Inv, CommitGap PROVE Inv'
<1>1. /\ pc = "commit" /\ cursor # None /\ incoming # None
      /\ UNCHANGED <<raw, cursor, derived, checkpoints, job, head, reorgs, faults>>
      /\ gaps' = gaps \cup {Number(incoming)}
  BY DEF CommitGap, BreaksChain, RecordGap, node, Inv, ControlInv
<1>2. /\ incoming \in Block /\ Number(incoming) \in Nat
      /\ Number(incoming) = cursor.next /\ job = None
  BY <1>1, BlockFacts DEF Inv, TypeOK, EngineTypeOK, HeightInv, PlanInv
<1>3. gaps' = {cursor.next}
  BY <1>1, <1>2 DEF Inv, GapInv, GapsExplainPauses
<1>4. StoreTypeOK'
  BY <1>1, <1>2 DEF Inv, TypeOK, StoreTypeOK
<1>5. CASE pipe = None
  <2>1. /\ pc' = "down" /\ pipe' = None /\ incoming' = None /\ old' = None
        /\ replacements' = <<>> /\ plan' = None /\ step' = 0
        /\ outcome' = "DataGapPaused"
    BY <1>5 DEF CommitGap, Exit
  <2>2. TypeOK'
    BY <1>1, <1>4, <2>1, EmptySeq DEF Inv, TypeOK, EngineTypeOK, PC, Outcome
  <2>3. ControlInv' /\ PlanInv' /\ HeightInv'
    BY <1>1, <1>2, <2>1 DEF ControlInv, PlanInv, HeightInv
  <2>4. GapInv'
    BY <1>1, <1>3, <2>1 DEF GapInv, GapsExplainPauses
  <2>5. QED  BY <2>2, <2>3, <2>4 DEF Inv
<1>6. CASE pipe # None
  <2>1. /\ pc' = "recover" /\ old' = pipe.at /\ replacements' = <<incoming>>
        /\ UNCHANGED <<pipe, incoming, plan, step, outcome>>
    BY <1>6 DEF CommitGap
  <2>2. old' \in Block /\ replacements' \in Seq(Block) /\ replacements' # <<>>
        /\ Last(replacements') = incoming
    BY <1>2, <1>6, <2>1 DEF Inv, TypeOK, EngineTypeOK, State, Last
  <2>3. TypeOK'
    BY <1>1, <1>4, <2>1, <2>2 DEF Inv, TypeOK, EngineTypeOK, PC
  <2>4. ControlInv'
    BY <1>1, <1>6, <2>1, <2>2, EngineAssumption DEF ControlInv
  <2>5. PlanInv'
    BY <1>1, <2>1 DEF Inv, PlanInv
  <2>6. HeightInv'
    BY <1>1, <1>2, <2>1, <2>2 DEF HeightInv
  <2>7. GapInv'
    BY <1>1, <1>3, <2>1 DEF GapInv, GapsExplainPauses
  <2>8. QED  BY <2>3, <2>4, <2>5, <2>6, <2>7 DEF Inv
<1>7. QED  BY <1>5, <1>6

LEMMA ProcessPreserves == ASSUME Inv, Process PROVE Inv'
<1>1. /\ pc = "process" /\ pipe # None /\ incoming \in Block /\ incoming # None
      /\ UNCHANGED <<node, faults>>
  BY DEF Process, Inv, ControlInv, TypeOK, EngineTypeOK
<1>2. CASE Exit("Failed") /\ UNCHANGED storeVars
  BY <1>1, <1>2, ExitPreserves DEF Inv, TypeOK, EngineTypeOK, Outcome, node
<1>3. CASE Derive(incoming) /\ GoTo("checkpoint")
  <2>1. /\ pipe' \in State /\ pipe'.at = incoming
        /\ derived' \in [Block -> DerivedBlock \cup {None}]
        /\ UNCHANGED <<raw, cursor, gaps, checkpoints, job>>
    BY <1>1, <1>3, DeriveEffect
  <2>2. /\ pc' = "checkpoint"
        /\ UNCHANGED <<incoming, old, replacements, plan, step, outcome>>
    BY <1>3 DEF GoTo
  <2>3. TypeOK'
    BY <1>1, <2>1, <2>2 DEF Inv, TypeOK, StoreTypeOK, EngineTypeOK, PC, node
  <2>4. ControlInv'
    BY <2>1, <2>2, EngineAssumption DEF Inv, ControlInv
  <2>5. PlanInv'
    BY <1>1, <2>1, <2>2 DEF Inv, PlanInv
  <2>6. HeightInv'
    BY <2>1, <2>2 DEF Inv, HeightInv
  <2>7. GapInv'
    BY <2>1, <2>2 DEF Inv, GapInv, GapsExplainPauses
  <2>8. QED  BY <2>3, <2>4, <2>5, <2>6, <2>7 DEF Inv
<1>4. QED  BY <1>2, <1>3, Zenon DEF Process

LEMMA CheckpointPreserves == ASSUME Inv, Checkpoint PROVE Inv'
<1>1. /\ pc = "checkpoint" /\ pipe \in State
      /\ checkpoints' = Append(checkpoints, pipe)
      /\ UNCHANGED <<raw, cursor, gaps, derived, job, pipe, old, replacements, plan,
                     step, outcome, head, reorgs, faults>>
      /\ pc' = AfterBlock
      /\ incoming' = IF AfterBlock = "loop" THEN None ELSE incoming
  BY DEF Checkpoint, SaveRuntimeCheckpoint, node, Inv, ControlInv, TypeOK, EngineTypeOK
<1>2. pc' \in {"bootstrap", "loop"} /\ (pc' = "bootstrap" => incoming # None)
  BY <1>1 DEF AfterBlock
<1>3. /\ checkpoints' \in Seq(State)
      /\ Len(checkpoints') = Len(checkpoints) + 1 /\ Len(checkpoints) \in Nat
  BY <1>1 DEF Inv, TypeOK, StoreTypeOK
<1>4. job = None
  BY <1>1 DEF Inv, PlanInv
<1>5. TypeOK'
  BY <1>1, <1>2, <1>3 DEF Inv, TypeOK, StoreTypeOK, EngineTypeOK, PC
<1>6. ControlInv'
  BY <1>1, <1>2 DEF Inv, ControlInv
<1>7. PlanInv'
  BY <1>1, <1>2, <1>3, <1>4 DEF Inv, PlanInv
<1>8. HeightInv'
  BY <1>1, <1>2 DEF Inv, HeightInv
<1>9. GapInv'
  BY <1>1, <1>2 DEF Inv, GapInv, GapsExplainPauses
<1>10. QED  BY <1>5, <1>6, <1>7, <1>8, <1>9 DEF Inv

LEMMA BootstrapPreserves == ASSUME Inv, Bootstrap PROVE Inv'
<1>1. /\ pc = "bootstrap" /\ incoming \in Block /\ job = None
      /\ UNCHANGED <<storeVars, node, faults>>
  BY DEF Bootstrap, Inv, ControlInv, PlanInv, TypeOK, EngineTypeOK
<1>2. CASE Exit("Failed")
  BY <1>1, <1>2, ExitPreserves DEF Inv, TypeOK, EngineTypeOK, Outcome, node
<1>3. CASE /\ pc' = "loop" /\ incoming' = None
           /\ UNCHANGED <<pipe, old, replacements, plan, step, outcome>>
  <2>1. TypeOK'
    BY <1>1, <1>3 DEF Inv, TypeOK, StoreTypeOK, EngineTypeOK, PC, node, storeVars
  <2>2. ControlInv'
    BY <1>1, <1>3 DEF Inv, ControlInv, storeVars
  <2>3. PlanInv'
    BY <1>1, <1>3 DEF Inv, PlanInv, storeVars
  <2>4. HeightInv'
    BY <1>1, <1>3 DEF Inv, HeightInv, storeVars
  <2>5. GapInv'
    BY <1>1, <1>3 DEF Inv, GapInv, GapsExplainPauses, storeVars
  <2>6. QED  BY <2>1, <2>2, <2>3, <2>4, <2>5 DEF Inv
<1>4. CASE /\ \E pools \in Fresh[incoming] : pipe' = [at |-> incoming, pools |-> pools]
           /\ GoTo("checkpoint")
  <2>1. pipe' \in State
    <3>1. PICK pools \in Fresh[incoming] : pipe' = [at |-> incoming, pools |-> pools]
      BY <1>4
    <3>2. pools \in Pools
      BY <1>1, <3>1, EngineAssumption
    <3>3. QED  BY <1>1, <3>1, <3>2 DEF State
  <2>2. TypeOK'
    BY <1>1, <1>4, <2>1
    DEF Inv, TypeOK, StoreTypeOK, EngineTypeOK, PC, GoTo, node, storeVars
  <2>3. ControlInv'
    BY <1>1, <1>4, <2>1, EngineAssumption DEF Inv, ControlInv, GoTo, storeVars
  <2>4. PlanInv'
    BY <1>1, <1>4 DEF Inv, PlanInv, GoTo, storeVars
  <2>5. HeightInv'
    BY <1>1, <1>4 DEF Inv, HeightInv, GoTo, storeVars
  <2>6. GapInv'
    BY <1>1, <1>4 DEF Inv, GapInv, GapsExplainPauses, GoTo, storeVars
  <2>7. QED  BY <2>2, <2>3, <2>4, <2>5, <2>6 DEF Inv
<1>5. QED  BY <1>2, <1>3, <1>4, Zenon DEF Bootstrap

LEMMA FindAncestorPreserves == ASSUME Inv, FindAncestor PROVE Inv'
<1> DEFINE found == BlockAt(head, Number(old))
<1>1. /\ pc = "recover" /\ old \in Block /\ head \in Block
      /\ UNCHANGED <<storeVars, node, faults>>
  BY DEF FindAncestor, Inv, ControlInv, TypeOK, EngineTypeOK
<1>2. CASE RecoveryFails
  BY <1>1, <1>2, RecoveryFailsPreserves DEF Inv, TypeOK, EngineTypeOK, node
<1>3. CASE /\ pc' = "plan"
           /\ UNCHANGED <<pipe, incoming, old, replacements, plan, step, outcome>>
  <2>1. TypeOK'
    BY <1>1, <1>3 DEF Inv, TypeOK, StoreTypeOK, EngineTypeOK, PC, node, storeVars
  <2>2. ControlInv'
    BY <1>1, <1>3 DEF Inv, ControlInv, storeVars
  <2>3. PlanInv'
    BY <1>1, <1>3 DEF Inv, PlanInv, storeVars
  <2>4. HeightInv'
    BY <1>1, <1>3 DEF Inv, HeightInv, storeVars
  <2>5. GapInv'
    BY <1>1, <1>3 DEF Inv, GapInv, GapsExplainPauses, storeVars
  <2>6. QED  BY <2>1, <2>2, <2>3, <2>4, <2>5 DEF Inv
<1>4. CASE /\ Number(old) <= Number(head)
           /\ replacements' = <<found>> \o replacements /\ old' = Parent(old)
           /\ UNCHANGED <<pc, pipe, incoming, plan, step, outcome>>
  <2>1. found \in Block /\ old' \in Block
    BY <1>1, <1>4, BlockFacts
  <2>2. <<found>> \in Seq(Block)
    BY <2>1
  <2>3. replacements \in Seq(Block) /\ replacements # <<>>
    BY <1>1 DEF Inv, ControlInv, TypeOK, EngineTypeOK
  <2>4. /\ replacements' \in Seq(Block) \ {<<>>}
        /\ Last(replacements') = Last(replacements)
    <3> HIDE DEF found
    <3>1. /\ <<found>> \o replacements \in Seq(Block) \ {<<>>}
          /\ Last(<<found>> \o replacements) = Last(replacements)
      BY <2>2, <2>3, LastOfConcat
    <3>2. QED  BY <1>4, <3>1
  <2>5. TypeOK'
    BY <1>1, <1>4, <2>1, <2>4
    DEF Inv, TypeOK, StoreTypeOK, EngineTypeOK, node, storeVars
  <2>6. ControlInv'
    BY <1>1, <1>4, <2>1, <2>4, EngineAssumption DEF Inv, ControlInv, storeVars
  <2>7. PlanInv'
    BY <1>1, <1>4 DEF Inv, PlanInv, storeVars
  <2>8. HeightInv'
    BY <1>1, <1>4, <2>4 DEF Inv, HeightInv, storeVars
  <2>9. GapInv'
    BY <1>1, <1>4 DEF Inv, GapInv, GapsExplainPauses, storeVars
  <2>10. QED  BY <2>5, <2>6, <2>7, <2>8, <2>9 DEF Inv
<1>5. QED
  <2>1. Number(old) \in Nat /\ Number(head) \in Nat
    BY <1>1, BlockFacts
  <2>2. QED  BY <1>2, <1>3, <1>4, <2>1 DEF FindAncestor

\* A plan built from a checkpoint at or below the ancestor has the type of a
\* plan, and its replay ends in the last replacement.
LEMMA PlanFacts ==
  ASSUME Inv, pc = "plan",
         NEW ancestor \in Block, NEW i \in 1 .. Len(checkpoints),
         Eligible(i, ancestor), Buildable(i, ancestor)
  PROVE  /\ PlanFrom(i, ancestor) \in RecoveryPlan
         /\ PlanFrom(i, ancestor).checkpoint = i
         /\ PlanFrom(i, ancestor).replay # <<>>
         /\ PlanTip(PlanFrom(i, ancestor)) = Last(replacements)
<1> DEFINE base == Number(checkpoints[i].at)
           kept == [k \in 1 .. Number(ancestor) - base |-> BlockAt(pipe.at, base + k)]
           orphans == {BlockAt(pipe.at, n) : n \in Number(ancestor) + 1 .. Number(pipe.at)}
<1>1. /\ pipe.at \in Block /\ replacements \in Seq(Block) /\ replacements # <<>>
      /\ i \in Nat
  BY DEF Inv, ControlInv, TypeOK, StoreTypeOK, EngineTypeOK, State
<1>2. base \in Nat /\ Number(ancestor) \in Nat /\ Number(pipe.at) \in Nat
      /\ base <= Number(ancestor)
  <2>1. checkpoints[i] \in State
    BY ElementOfSeq DEF Inv, TypeOK, StoreTypeOK
  <2>2. checkpoints[i].at \in Block
    BY <2>1 DEF State
  <2>3. QED  BY <1>1, <2>2, BlockFacts DEF Eligible
<1>3. Number(ancestor) <= Number(pipe.at)
  BY DEF Buildable, OnChain, IsPrefix, Number
<1>4. kept \in Seq(Block)
  <2> HIDE DEF base
  <2>1. \A k \in 1 .. Number(ancestor) - base : BlockAt(pipe.at, base + k) \in Block
    BY <1>1, <1>2, <1>3, BlockFacts
  <2>2. Number(ancestor) - base \in Nat
    BY <1>2
  <2>3. kept \in [1 .. Number(ancestor) - base -> Block]
    BY <2>1
  <2>4. QED  BY <2>2, <2>3, SeqDef
<1>5. orphans \in SUBSET Block
  BY <1>1, <1>2, <1>3, BlockFacts
<1>6. /\ kept \o replacements \in Seq(Block) \ {<<>>}
      /\ Last(kept \o replacements) = Last(replacements)
  <2> HIDE DEF kept
  <2>1. QED  BY <1>1, <1>4, LastOfConcat
<1>7. PlanFrom(i, ancestor) = [checkpoint |-> i, ancestor |-> ancestor,
                               orphans |-> orphans, replay |-> kept \o replacements]
  BY DEF PlanFrom
<1>8. QED
  <2> HIDE DEF base, kept, orphans
  <2>1. QED  BY <1>1, <1>5, <1>6, <1>7 DEF RecoveryPlan, PlanTip

LEMMA BuildPlanPreserves == ASSUME Inv, BuildPlan PROVE Inv'
<1>1. /\ pc = "plan" /\ replacements \in Seq(Block) /\ replacements # <<>>
      /\ cursor # None /\ job = None
      /\ UNCHANGED <<storeVars, node, faults>>
  BY DEF BuildPlan, Inv, ControlInv, PlanInv, TypeOK, EngineTypeOK
<1>2. Len(replacements) \in Nat \ {0}
  BY <1>1, EmptySeq
<1> DEFINE ancestor == Parent(Head(replacements))
<1>3. ancestor \in Block
  <2>1. replacements[1] \in Block
    BY <1>1, <1>2, ElementOfSeq
  <2>2. QED  BY <1>1, <2>1, BlockFacts
<1>4. CASE RecoveryFails
  BY <1>1, <1>4, RecoveryFailsPreserves DEF Inv, TypeOK, EngineTypeOK, node
<1>5. CASE \E i \in 1 .. Len(checkpoints) :
             /\ SelectsCheckpoint(i, ancestor) /\ Buildable(i, ancestor)
             /\ plan' = PlanFrom(i, ancestor)
             /\ pc' = "append" /\ step' = 1
             /\ UNCHANGED <<pipe, incoming, old, replacements, outcome>>
  <2> HIDE DEF ancestor
  <2>1. PICK i \in 1 .. Len(checkpoints) :
          /\ Eligible(i, ancestor) /\ Buildable(i, ancestor)
          /\ plan' = PlanFrom(i, ancestor)
          /\ pc' = "append" /\ step' = 1
          /\ UNCHANGED <<pipe, incoming, old, replacements, outcome>>
    BY <1>5, Zenon DEF SelectsCheckpoint
  <2>2. /\ plan' \in RecoveryPlan /\ plan'.checkpoint = i /\ plan'.replay # <<>>
        /\ PlanTip(plan') = Last(replacements)
    BY <1>1, <1>3, <2>1, PlanFacts
  <2>3. TypeOK'
    BY <1>1, <2>1, <2>2 DEF Inv, TypeOK, StoreTypeOK, EngineTypeOK, PC, storeVars, node
  <2>4. ControlInv'
    <3>1. plan' # None
      BY <2>2, EngineAssumption
    <3>2. QED  BY <1>1, <1>2, <2>1, <3>1 DEF Inv, ControlInv, storeVars
  <2>5. PlanInv'
    BY <1>1, <2>1, <2>2 DEF PlanInv, storeVars
  <2>6. HeightInv'
    BY <1>1, <2>1, <2>2 DEF Inv, HeightInv, storeVars, PlanTip
  <2>7. GapInv'
    BY <1>1, <2>1 DEF Inv, GapInv, GapsExplainPauses, storeVars
  <2>8. QED  BY <2>3, <2>4, <2>5, <2>6, <2>7 DEF Inv
<1>6. QED  BY <1>4, <1>5, Zenon DEF BuildPlan

LEMMA AppendReplacementPreserves == ASSUME Inv, AppendReplacement PROVE Inv'
<1>1. /\ pc = "append" /\ replacements \in Seq(Block)
      /\ step \in 1 .. Len(replacements) /\ cursor \in Cursor /\ cursor # None
      /\ plan # None /\ job = None
  BY DEF AppendReplacement, Inv, ControlInv, PlanInv, TypeOK, StoreTypeOK, EngineTypeOK
<1>2. /\ raw' = raw \cup {replacements[step]}
      /\ cursor' = [next |-> cursor.next, hash |-> cursor.hash]
      /\ gaps' = gaps \ {cursor.next - 1}
      /\ UNCHANGED <<derived, checkpoints, job, pipe, incoming, old, replacements,
                     plan, outcome, head, reorgs, faults>>
  BY DEF AppendReplacement, AppendRaw, node
<1>3. cursor' = cursor
  BY <1>1, <1>2 DEF Cursor
<1>4. gaps' = gaps
  BY <1>1, <1>2 DEF Cursor, Inv, GapInv, GapsExplainPauses
<1>5. /\ pc' \in {"append", "begin"}
      /\ pc' = "append" => step' \in 1 .. Len(replacements)
      /\ step' \in Nat
  <2>1. Len(replacements) \in Nat
    BY <1>1, LenProperties
  <2>2. QED  BY <1>1, <2>1 DEF AppendReplacement
<1>6. replacements[step] \in Block
  BY <1>1, ElementOfSeq
<1>7. TypeOK'
  BY <1>2, <1>3, <1>4, <1>5, <1>6 DEF Inv, TypeOK, StoreTypeOK, EngineTypeOK, PC
<1>8. ControlInv'
  BY <1>1, <1>2, <1>3, <1>5 DEF Inv, ControlInv
<1>9. PlanInv'
  BY <1>1, <1>2, <1>5 DEF Inv, PlanInv
<1>10. HeightInv'
  BY <1>1, <1>2, <1>3, <1>5 DEF Inv, HeightInv
<1>11. GapInv'
  BY <1>1, <1>2, <1>3, <1>4, <1>5 DEF Inv, GapInv, GapsExplainPauses
<1>12. QED  BY <1>7, <1>8, <1>9, <1>10, <1>11 DEF Inv

LEMMA BeginPreserves == ASSUME Inv, Begin PROVE Inv'
<1>1. /\ pc = "begin" /\ plan \in RecoveryPlan /\ plan # None
      /\ plan.checkpoint \in 1 .. Len(checkpoints) /\ plan.replay # <<>>
      /\ cursor # None /\ Number(PlanTip(plan)) = cursor.next
      /\ UNCHANGED <<node, faults>>
  BY DEF Begin, Inv, ControlInv, PlanInv, HeightInv, TypeOK, EngineTypeOK
<1>2. CASE RecoveryFails /\ UNCHANGED storeVars
  BY <1>1, <1>2, RecoveryFailsPreserves DEF Inv, TypeOK, EngineTypeOK, node
<1>3. CASE /\ BeginRecovery(plan)
           /\ pipe' = checkpoints[plan.checkpoint]
           /\ pc' = "replay" /\ step' = 1
           /\ UNCHANGED <<incoming, old, replacements, plan, outcome>>
  <2>1. job' = plan /\ UNCHANGED <<raw, cursor, gaps, checkpoints>>
    BY <1>3 DEF BeginRecovery
  <2>2. derived' \in [Block -> DerivedBlock \cup {None}]
    <3> DEFINE row(b) == IF b \in plan.orphans /\ Derived(b)
                           THEN [derived[b] EXCEPT !.canonical = FALSE]
                           ELSE derived[b]
    <3>1. derived' = [b \in Block |-> row(b)]
      BY <1>3 DEF BeginRecovery
    <3>2. ASSUME NEW b \in Block PROVE row(b) \in DerivedBlock \cup {None}
      <4>1. derived[b] \in DerivedBlock \cup {None}
        BY DEF Inv, TypeOK, StoreTypeOK
      <4>2. CASE Derived(b)
        BY <4>1, <4>2 DEF Derived, DerivedBlock
      <4>3. CASE ~Derived(b)
        BY <4>1, <4>3
      <4>4. QED  BY <4>2, <4>3
    <3> HIDE DEF row
    <3>3. QED  BY <3>1, <3>2
  <2>3. pipe' \in State /\ pipe' # None
    BY <1>1, <1>3, ElementOfSeq, EngineAssumption DEF Inv, TypeOK, StoreTypeOK
  <2>4. 1 \in 1 .. Len(plan.replay)
    <3>1. plan.replay \in Seq(Block)
      BY <1>1 DEF RecoveryPlan
    <3>2. Len(plan.replay) \in Nat \ {0}
      BY <1>1, <3>1, EmptySeq
    <3>3. QED  BY <3>2
  <2>5. TypeOK'
    BY <1>1, <1>3, <2>1, <2>2, <2>3
    DEF Inv, TypeOK, StoreTypeOK, EngineTypeOK, PC, node
  <2>6. ControlInv'
    BY <1>1, <1>3, <2>1, <2>3, <2>4 DEF ControlInv
  <2>7. PlanInv'
    BY <1>1, <1>3, <2>1 DEF PlanInv
  <2>8. HeightInv'
    BY <1>1, <1>3, <2>1 DEF HeightInv, PlanTip
  <2>9. GapInv'
    BY <1>1, <1>3, <2>1 DEF Inv, GapInv, GapsExplainPauses
  <2>10. QED  BY <2>5, <2>6, <2>7, <2>8, <2>9 DEF Inv
<1>4. QED  BY <1>2, <1>3, Zenon DEF Begin

LEMMA ReplayStepPreserves == ASSUME Inv, ReplayStep PROVE Inv'
<1>1. /\ pc = "replay" /\ plan \in RecoveryPlan /\ plan # None /\ job = plan
      /\ step \in 1 .. Len(plan.replay) /\ pipe # None
      /\ UNCHANGED <<node, faults>>
  BY DEF ReplayStep, Inv, ControlInv, PlanInv, TypeOK, EngineTypeOK
<1>2. plan.replay \in Seq(Block)
  BY <1>1 DEF RecoveryPlan
<1>3. plan.replay[step] \in Block /\ Len(plan.replay) \in Nat
  BY <1>1, <1>2, ElementOfSeq, LenProperties
<1>4. CASE RecoveryFails /\ UNCHANGED storeVars
  BY <1>1, <1>4, RecoveryFailsPreserves DEF Inv, TypeOK, EngineTypeOK, node
<1>5. CASE /\ Derive(plan.replay[step])
           /\ IF step = Len(plan.replay) THEN pc' = "finish" /\ step' = 0
              ELSE pc' = pc /\ step' = step + 1
           /\ UNCHANGED <<incoming, old, replacements, plan, outcome>>
  <2>1. /\ pipe' \in State /\ pipe'.at = plan.replay[step]
        /\ derived' \in [Block -> DerivedBlock \cup {None}]
        /\ UNCHANGED <<raw, cursor, gaps, checkpoints, job>>
    BY <1>1, <1>3, <1>5, DeriveEffect
  <2>2. \/ pc' = "finish" /\ step' = 0 /\ pipe'.at = Last(plan.replay)
        \/ pc' = "replay" /\ step' \in 1 .. Len(plan.replay)
    BY <1>1, <1>3, <1>5, <2>1 DEF Last
  <2>3. step' \in Nat /\ pc' \in PC /\ pipe' # None
    BY <1>3, <2>1, <2>2, EngineAssumption DEF PC
  <2>4. TypeOK'
    BY <1>1, <1>5, <2>1, <2>3 DEF Inv, TypeOK, StoreTypeOK, EngineTypeOK, node
  <2>5. ControlInv'
    BY <1>1, <1>5, <2>1, <2>2, <2>3 DEF Inv, ControlInv
  <2>6. PlanInv'
    BY <1>1, <1>5, <2>1, <2>2 DEF Inv, PlanInv
  <2>7. HeightInv'
    BY <1>1, <1>5, <2>1, <2>2 DEF Inv, HeightInv, PlanTip
  <2>8. GapInv'
    BY <1>1, <1>5, <2>1, <2>2 DEF Inv, GapInv, GapsExplainPauses
  <2>9. QED  BY <2>4, <2>5, <2>6, <2>7, <2>8 DEF Inv
<1>6. QED  BY <1>4, <1>5, Zenon DEF ReplayStep

\* The cursor a recovery leaves is the height after the block that broke the
\* chain, and that block's gap, the only one, is resolved with it.
LEMMA FinishPreserves == ASSUME Inv, Finish PROVE Inv'
<1>1. /\ pc = "finish" /\ pipe \in State /\ pipe # None
      /\ job = plan /\ plan # None /\ cursor # None
      /\ pipe.at = PlanTip(plan) /\ Number(PlanTip(plan)) = cursor.next
  BY DEF Finish, Inv, ControlInv, PlanInv, HeightInv, TypeOK, EngineTypeOK
<1>2. pipe.at \in Block /\ Number(pipe.at) \in Nat /\ Number(pipe.at) = cursor.next
  BY <1>1, BlockFacts DEF State
<1>3. /\ checkpoints' = Append(checkpoints, pipe)
      /\ cursor' = [next |-> Number(pipe.at) + 1, hash |-> pipe.at]
      /\ gaps' = gaps \ {Number(pipe.at)}
      /\ job' = None /\ plan' = None /\ old' = None /\ replacements' = <<>>
      /\ UNCHANGED <<raw, derived, pipe, step, outcome, head, reorgs, faults>>
      /\ pc' = IF incoming = None THEN "checkpoint" ELSE AfterBlock
      /\ incoming' = IF AfterBlock = "loop" THEN None ELSE incoming
  BY DEF Finish, FinishRuntimeRecovery, node
<1>4. /\ pc' \in {"checkpoint", "bootstrap", "loop"}
      /\ pc' = "bootstrap" => incoming' # None
  BY <1>3 DEF AfterBlock
<1>5. cursor' \in Cursor /\ cursor' # None
  BY <1>2, <1>3, EngineAssumption DEF Cursor
<1>6. gaps' = {}
  BY <1>2, <1>3 DEF Inv, GapInv, GapsExplainPauses
<1>7. checkpoints' \in Seq(State)
  BY <1>1, <1>3 DEF Inv, TypeOK, StoreTypeOK
<1>8. TypeOK'
  BY <1>3, <1>4, <1>5, <1>6, <1>7, EmptySeq
  DEF Inv, TypeOK, StoreTypeOK, EngineTypeOK, PC
<1>9. ControlInv'
  BY <1>1, <1>3, <1>4 DEF ControlInv
<1>10. PlanInv' /\ HeightInv'
  BY <1>3, <1>4 DEF PlanInv, HeightInv
<1>11. GapInv'
  BY <1>4, <1>6 DEF GapInv, GapsExplainPauses
<1>12. QED  BY <1>8, <1>9, <1>10, <1>11 DEF Inv

-----------------------------------------------------------------------------
(* Theorems                                                                *)

LEMMA NextPreserves == Inv /\ [Next]_vars => Inv'
<1> SUFFICES ASSUME Inv, [Next]_vars PROVE Inv'
  OBVIOUS
<1>1. CASE Open  BY <1>1, OpenPreserves
<1>2. CASE Engine
  BY <1>2, ReplayCommittedPreserves, PollPreserves, FetchPreserves, CommitPreserves,
     CommitGapPreserves, ProcessPreserves, CheckpointPreserves, BootstrapPreserves,
     FindAncestorPreserves, BuildPlanPreserves, AppendReplacementPreserves,
     BeginPreserves, ReplayStepPreserves, FinishPreserves, Zenon DEF Engine
<1>3. CASE Sleep \/ Extend \/ Reorganise \/ UNCHANGED vars
  BY <1>3, NodePreserves
<1>4. CASE Crash \/ Stop \/ RequestFails \/ DiskRefuses
  BY <1>4, FaultPreserves
<1>5. QED  BY <1>1, <1>2, <1>3, <1>4, Zenon DEF Next

LEMMA Invariance == Spec => []Inv
BY InitialState, NextPreserves, PTL DEF Spec

\* Every reachable state of the runtime and its database is typed: no operation
\* reads a view, a plan or a replacement that is not there.
THEOREM TypeCorrect == Spec => []TypeOK
<1>1. Inv => TypeOK
  BY DEF Inv
<1>2. QED  BY Invariance, <1>1, PTL

\* An open gap is always the height the cursor waits for, and every
\* DataGapPaused run left one, whatever the chain and the crashes.
THEOREM GapsAreExplained == Spec => []GapsExplainPauses
<1>1. Inv => GapsExplainPauses
  BY DEF Inv, GapInv
<1>2. QED  BY Invariance, <1>1, PTL

\* The RPC cursor moves only in Commit, which goes forward, and in Finish, which
\* leaves it one above the height it waited for.
LEMMA CursorStep ==
  Inv /\ [Next]_vars =>
    (cursor # None => cursor' # None /\ cursor'.next >= cursor.next)
<1> SUFFICES ASSUME Inv, [Next]_vars, cursor # None
             PROVE  cursor' # None /\ cursor'.next >= cursor.next
  OBVIOUS
<1>1. cursor \in Cursor /\ cursor.next \in Nat
  BY DEF Inv, TypeOK, StoreTypeOK, Cursor
<1>2. CASE UNCHANGED cursor
  BY <1>1, <1>2
<1>3. CASE Commit
  <2>1. /\ cursor' = [next |-> Number(incoming) + 1, hash |-> incoming]
        /\ cursor.next <= Number(incoming) + 1
        /\ incoming \in Block
    BY <1>3 DEF Commit, AppendRaw, Inv, ControlInv, TypeOK, EngineTypeOK
  <2>2. cursor' \in Cursor
    BY <2>1, BlockFacts DEF Cursor
  <2>3. QED  BY <2>1, <2>2, EngineAssumption
<1>4. CASE AppendReplacement
  <2>1. cursor' = [next |-> cursor.next, hash |-> cursor.hash]
    BY <1>4 DEF AppendReplacement, AppendRaw
  <2>2. cursor' = cursor
    BY <1>1, <2>1 DEF Cursor
  <2>3. QED  BY <1>1, <2>2
<1>5. CASE Finish
  <2>1. /\ cursor' = [next |-> Number(pipe.at) + 1, hash |-> pipe.at]
        /\ pipe.at \in Block /\ Number(pipe.at) = cursor.next
    BY <1>5 DEF Finish, FinishRuntimeRecovery, Inv, ControlInv, HeightInv, TypeOK,
                EngineTypeOK, State
  <2>2. cursor' \in Cursor
    BY <2>1, BlockFacts DEF Cursor
  <2>3. QED  BY <1>1, <2>1, <2>2, EngineAssumption
<1>6. CASE Open \/ Sleep \/ Extend \/ Reorganise \/ UNCHANGED vars
  BY <1>2, <1>6 DEF Open, Sleep, Extend, Reorganise, vars, storeVars
<1>7. CASE Crash \/ Stop \/ RequestFails \/ DiskRefuses
  BY <1>2, <1>7 DEF Crash, Stop, RequestFails, DiskRefuses, Fault, storeVars
<1>8. CASE Poll \/ Fetch \/ Bootstrap \/ FindAncestor \/ BuildPlan
  BY <1>2, <1>8, Zenon DEF Poll, Fetch, Bootstrap, FindAncestor, BuildPlan, storeVars
<1>9. CASE CommitGap \/ Checkpoint
  BY <1>2, <1>9 DEF CommitGap, RecordGap, Checkpoint, SaveRuntimeCheckpoint
<1>10. CASE Begin
  BY <1>2, <1>10, Zenon DEF Begin, BeginRecovery, storeVars
<1>11. CASE ReplayCommitted \/ Process \/ ReplayStep
  <2>1. (\E b \in Block : Derive(b) /\ pipe # None) \/ UNCHANGED storeVars
    <3>1. CASE ReplayCommitted
      <4>1. Successors \subseteq Block /\ pipe # None
        BY <3>1 DEF ReplayCommitted, BehindCursor, Successors, Inv, TypeOK, StoreTypeOK
      <4>2. (\E b \in Successors : Derive(b)) \/ UNCHANGED storeVars
        BY <3>1, Zenon DEF ReplayCommitted
      <4>3. QED  BY <4>1, <4>2, Zenon
    <3>2. CASE Process
      <4>1. incoming \in Block /\ pipe # None
        BY <3>2 DEF Process, Inv, ControlInv, TypeOK, EngineTypeOK
      <4>2. Derive(incoming) \/ UNCHANGED storeVars
        BY <3>2, Zenon DEF Process
      <4>3. QED  BY <4>1, <4>2, Zenon
    <3>3. CASE ReplayStep
      <4>1. /\ plan \in RecoveryPlan /\ pipe # None
            /\ step \in 1 .. Len(plan.replay)
        BY <3>3 DEF ReplayStep, Inv, ControlInv, TypeOK, EngineTypeOK
      <4>2. plan.replay \in Seq(Block)
        BY <4>1 DEF RecoveryPlan
      <4>3. plan.replay[step] \in Block
        BY <4>1, <4>2, ElementOfSeq
      <4>4. Derive(plan.replay[step]) \/ UNCHANGED storeVars
        BY <3>3, Zenon DEF ReplayStep
      <4>5. QED  BY <4>1, <4>3, <4>4, Zenon
    <3>4. QED  BY <1>11, <3>1, <3>2, <3>3
  <2>2. ASSUME NEW b \in Block, Derive(b), pipe # None PROVE UNCHANGED cursor
    BY <2>2, DeriveEffect
  <2>3. QED  BY <1>2, <2>1, <2>2 DEF storeVars
<1>12. QED
  BY <1>3, <1>4, <1>5, <1>6, <1>7, <1>8, <1>9, <1>10, <1>11, Zenon DEF Next, Engine

\* No commit, recovery or restart moves the RPC cursor back.
THEOREM CursorIsMonotonic == Spec => CursorNeverRewinds
<1>1. Inv /\ [Next]_vars =>
        [cursor # None => cursor' # None /\ cursor'.next >= cursor.next]_vars
  BY CursorStep
<1>2. QED  BY Invariance, <1>1, PTL DEF Spec, CursorNeverRewinds


(***************************************************************************)
(* The branch invariant: what ties the rows of the database to the branch  *)
(* the cursor stands on, to the pipeline and to the plan of a recovery.    *)
(* It is what PublishedFollowsCursor, RestartCanReplay and                 *)
(* PendingJobIsComplete need to be inductive, and it refers to the process *)
(* as well as to the database: what a process in the middle of an operation*)
(* holds is what makes its next commit safe.                               *)
(***************************************************************************)

\* The cursor stands on a stored block, and no stored block is its successor:
\* the block of the new branch at the height the cursor waits for is stored
\* under the old cursor, but its parent is another block.
CursorInv ==
  /\ cursor = None => raw = {} /\ checkpoints = <<>>
  /\ cursor # None =>
       /\ cursor.next = Number(cursor.hash) + 1
       /\ cursor.hash \in raw
       /\ \A b \in raw : /\ Number(b) <= cursor.next
                         /\ Number(b) = cursor.next => Parent(b) # cursor.hash

\* Derived blocks are stored and lie above the first checkpoint; every later
\* checkpoint is of a derived block.
RowInv ==
  /\ \A b \in Block : Derived(b) =>
       /\ b \in raw /\ checkpoints # <<>>
       /\ OnChain(checkpoints[1].at, b) /\ b # checkpoints[1].at
  /\ \A i \in 1 .. Len(checkpoints) :
       Derived(checkpoints[i].at) \/ checkpoints[i].at = checkpoints[1].at

\* The last checkpoint is of the cursor's block, or of its parent, and then the
\* cursor's block is the only one stored that continues it.
CheckpointInv ==
  job = None /\ checkpoints # <<>> =>
    \/ Last(checkpoints).at = cursor.hash
    \/ /\ Number(cursor.hash) = Number(Last(checkpoints).at) + 1
       /\ Parent(cursor.hash) = Last(checkpoints).at
       /\ \A b \in raw :
            Number(b) = Number(cursor.hash) /\ Parent(b) = Parent(cursor.hash) =>
              b = cursor.hash

\* Replayed blocks have consecutive heights from the checkpoint's, the plan leads from
\* the ancestor to its tip, and retracts nothing on the way.
PlanShape(p) ==
  LET base == checkpoints[p.checkpoint].at IN
  /\ OnChain(base, p.ancestor) /\ OnChain(p.ancestor, PlanTip(p))
  /\ \A i \in 1 .. Len(p.replay) :
       /\ Number(p.replay[i]) = Number(base) + i
       /\ Number(p.replay[i]) <= Number(p.ancestor) => Derived(p.replay[i])
  /\ \A b \in p.orphans : ~OnChain(b, PlanTip(p))

\* A pending job can be executed from the database, and what is published is
\* the branch up to the ancestor and a first part of the blocks it replays.
JobInv ==
  job # None =>
    /\ PlanShape(job) /\ Applies(job)
    /\ \A i \in 1 .. Len(job.replay) : job.replay[i] \in raw
    /\ \A b \in Block : Derived(b) /\ OnChain(b, job.ancestor) => IsCanonical(b)
    /\ \A b \in Canonical : OnChain(b, PlanTip(job))
    /\ \A j \in 1 .. Len(job.replay) : IsCanonical(job.replay[j]) =>
         \A i \in 1 .. j : IsCanonical(job.replay[i])

\* Where the pipeline is at each point of the code.
PipeInv ==
  /\ pc \in {"loop", "fetch", "commit", "process", "bootstrap", "recover", "plan", "append"}
       => pipe = IF checkpoints = <<>> THEN None ELSE Last(checkpoints)
  /\ pc \in {"fetch", "commit", "bootstrap", "recover", "plan", "append"} /\ pipe # None
       => pipe.at = cursor.hash
  /\ pc = "loop" => incoming = None
  /\ pc = "begin" /\ job = None => pipe # None /\ pipe.at = cursor.hash
  /\ pc \in {"process", "bootstrap"} => cursor # None /\ incoming = cursor.hash
  /\ pc = "process" => /\ Parent(cursor.hash) = pipe.at
                       /\ Number(cursor.hash) = Number(pipe.at) + 1
  /\ pc = "checkpoint" =>
       /\ cursor # None /\ pipe.at = cursor.hash
       /\ incoming \in {None, cursor.hash}
       /\ \/ checkpoints = <<>> \/ Derived(pipe.at)
          \/ pipe.at = checkpoints[1].at

\* recover(): the replacements have consecutive heights and none is on the
\* stored branch; the last is the block that broke the chain.
WalkInv ==
  /\ pc \in {"recover", "plan"} =>
       OnChain(old, pipe.at) /\ Number(old) + Len(replacements) = cursor.next
  /\ pc \in {"recover", "plan", "append"} =>
       /\ Last(replacements) = incoming /\ Parent(incoming) # cursor.hash
       /\ \A k \in 1 .. Len(replacements) :
            /\ Number(replacements[k]) = cursor.next - Len(replacements) + k
            /\ ~OnChain(replacements[k], pipe.at)

\* A plan that is not committed yet retracts what the stored branch has above
\* the ancestor; before its job is committed its blocks are.
DraftInv ==
  /\ pc \in {"append", "begin", "replay", "finish"} =>
       PlanShape(plan) /\ incoming \in {None, PlanTip(plan)}
  /\ pc \in {"append", "begin"} /\ job = None =>
       /\ OnChain(plan.ancestor, cursor.hash)
       /\ plan.orphans = {b \in Block : OnChain(b, cursor.hash)
                                          /\ Number(b) > Number(plan.ancestor)}
  /\ pc = "append" => \A i \in 1 .. Len(plan.replay) :
       \/ plan.replay[i] \in raw
       \/ \E k \in step .. Len(replacements) : plan.replay[i] = replacements[k]
  /\ pc = "begin" => \A i \in 1 .. Len(plan.replay) : plan.replay[i] \in raw

\* execute(): the blocks before the next one are published, and the pipeline stands
\* on the last of them.
ReplayInv ==
  /\ pc = "replay" =>
       /\ pipe.at = IF step = 1 THEN checkpoints[plan.checkpoint].at
                    ELSE plan.replay[step - 1]
       /\ \A i \in 1 .. step - 1 : IsCanonical(plan.replay[i])
  /\ pc = "finish" => \A i \in 1 .. Len(plan.replay) : IsCanonical(plan.replay[i])

StoreInv == CursorInv /\ RowInv /\ PublishedFollowsCursor /\ CheckpointInv /\ JobInv
ProcessInv == PipeInv /\ WalkInv /\ DraftInv /\ ReplayInv
BranchInv == StoreInv /\ ProcessInv

-----------------------------------------------------------------------------
(* Facts the steps use                                                     *)

\* The parts of the types the steps below refer to.
LEMMA Typed ==
  ASSUME TypeOK
  PROVE  /\ raw \subseteq Block
         /\ cursor # None => cursor.hash \in Block /\ cursor.next \in Nat
         /\ Len(checkpoints) \in Nat
         /\ \A i \in 1 .. Len(checkpoints) : checkpoints[i] \in State /\ checkpoints[i].at \in Block
         /\ checkpoints # <<>> =>
              /\ 1 \in 1 .. Len(checkpoints) /\ Len(checkpoints) \in 1 .. Len(checkpoints)
              /\ Last(checkpoints) = checkpoints[Len(checkpoints)]
              /\ Last(checkpoints) \in State /\ Last(checkpoints) # None
              /\ Last(checkpoints).at \in Block
         /\ pipe # None => pipe \in State /\ pipe.at \in Block
<1> USE DEF TypeOK, StoreTypeOK, EngineTypeOK
<1>1. checkpoints \in Seq(State) /\ Len(checkpoints) \in Nat
  BY LenProperties
<1>2. \A i \in 1 .. Len(checkpoints) : checkpoints[i] \in State /\ checkpoints[i].at \in Block
  <2>1. \A i \in 1 .. Len(checkpoints) : checkpoints[i] \in State
    BY <1>1, ElementOfSeq
  <2>2. \A s \in State : s.at \in Block
    BY DEF State
  <2>3. QED  BY <2>1, <2>2
<1>3. ASSUME checkpoints # <<>>
      PROVE  /\ 1 \in 1 .. Len(checkpoints) /\ Len(checkpoints) \in 1 .. Len(checkpoints)
             /\ Last(checkpoints) = checkpoints[Len(checkpoints)]
  BY <1>1, <1>3, EmptySeq DEF Last
<1>4. State \cap {None} = {}
  BY EngineAssumption
<1>5. QED
  <2> USE <1>1, <1>2 DEF Cursor, State
  <2>1. raw \subseteq Block /\ (cursor # None => cursor.hash \in Block /\ cursor.next \in Nat)
    OBVIOUS
  <2>2. pipe # None => pipe \in State /\ pipe.at \in Block
    OBVIOUS
  <2>3. checkpoints # <<>> => /\ Last(checkpoints) \in State /\ Last(checkpoints) # None
                              /\ Last(checkpoints).at \in Block
    BY <1>3, <1>4
  <2>4. QED  BY <1>3, <2>1, <2>2, <2>3

LEMMA PlanTyped ==
  ASSUME NEW p \in RecoveryPlan, p.replay # <<>>
  PROVE  /\ p.ancestor \in Block /\ p.orphans \subseteq Block
         /\ p.replay \in Seq(Block) /\ Len(p.replay) \in Nat \ {0}
         /\ \A i \in 1 .. Len(p.replay) : p.replay[i] \in Block
         /\ PlanTip(p) \in Block /\ PlanTip(p) = p.replay[Len(p.replay)]
<1>1. p.ancestor \in Block /\ p.orphans \subseteq Block /\ p.replay \in Seq(Block)
  BY DEF RecoveryPlan
<1>2. Len(p.replay) \in Nat \ {0}
  BY <1>1, EmptySeq, LenProperties
<1>3. \A i \in 1 .. Len(p.replay) : p.replay[i] \in Block
  BY <1>1, ElementOfSeq
<1>4. QED  BY <1>1, <1>2, <1>3 DEF PlanTip, Last

\* The blocks of a chain are ancestors of each other, in order.
LEMMA ChainedFacts ==
  ASSUME NEW base \in Block, NEW s \in Seq(Block), Chained(base, s)
  PROVE  \A j \in 1 .. Len(s) : /\ OnChain(base, s[j])
                                /\ \A i \in 1 .. j : OnChain(s[i], s[j])
<1>1. Len(s) \in Nat /\ \A j \in 1 .. Len(s) : s[j] \in Block
  BY ElementOfSeq, LenProperties
<1> DEFINE Holds(j) == OnChain(base, s[j]) /\ \A i \in 1 .. j : OnChain(s[i], s[j])
           Wrong == {j \in 1 .. Len(s) : ~Holds(j)}
<1>2. SUFFICES ASSUME Wrong # {} PROVE FALSE
  OBVIOUS
<1>3. PICK j \in Wrong : \A k \in Wrong : j <= k
  <2>1. Wrong \subseteq Nat
    OBVIOUS
  <2> HIDE DEF Wrong
  <2>2. QED  BY <1>2, <2>1, Least
<1>4. j \in 1 .. Len(s) /\ s[j] \in Block /\ ~Holds(j)
  BY <1>1
<1>5. OnChain(s[j], s[j]) /\ OnChain(Parent(s[j]), s[j])
  BY <1>4, OnChainOrder, ParentFacts
<1>6. CASE j = 1
  <2>1. Parent(s[1]) = base
    BY <1>4, <1>6 DEF Chained
  <2>2. Holds(1)
    BY <1>5, <1>6, <2>1
  <2>3. QED  BY <1>4, <1>6, <2>2
<1>7. CASE j # 1
  <2>1. Parent(s[j]) = s[j - 1] /\ j - 1 \in 1 .. Len(s)
    BY <1>1, <1>4, <1>7 DEF Chained
  <2>2. j - 1 \notin Wrong
    BY <1>3, <1>4
  <2>3. Holds(j - 1)
    BY <2>1, <2>2
  <2>4. OnChain(base, s[j])
    BY <1>1, <1>4, <1>5, <2>1, <2>3, OnChainTransitive
  <2>5. ASSUME NEW i \in 1 .. j PROVE OnChain(s[i], s[j])
    <3>1. CASE i = j  BY <1>5, <3>1
    <3>2. CASE i # j
      <4>1. i \in 1 .. j - 1 /\ s[i] \in Block
        BY <1>1, <1>4, <3>2
      <4>2. OnChain(s[i], s[j - 1])
        BY <2>3, <4>1
      <4>3. QED  BY <1>1, <1>4, <1>5, <2>1, <4>1, <4>2, OnChainTransitive
    <3>3. QED  BY <3>1, <3>2
  <2>6. QED  BY <1>4, <2>4, <2>5
<1>8. QED  BY <1>6, <1>7

-----------------------------------------------------------------------------
(* Every action preserves the branch invariant                             *)

LEMMA StoreUnchanged ==
  ASSUME StoreInv, UNCHANGED <<raw, cursor, derived, checkpoints, job>>
  PROVE  StoreInv'
<1>1. CursorInv'
  BY DEF StoreInv, CursorInv
<1>2. RowInv'
  BY DEF StoreInv, RowInv, Derived
<1>3. PublishedFollowsCursor'
  BY DEF StoreInv, PublishedFollowsCursor, Canonical, Derived, IsCanonical
<1>4. CheckpointInv'
  BY DEF StoreInv, CheckpointInv
<1>5. JobInv'
  <2>1. PlanShape(job)' <=> PlanShape(job)
    BY DEF PlanShape, Derived
  <2>2. Applies(job)' <=> Applies(job)
    BY DEF Applies
  <2>3. QED  BY <2>1, <2>2 DEF StoreInv, JobInv, Canonical, Derived, IsCanonical
<1>6. QED  BY <1>1, <1>2, <1>3, <1>4, <1>5 DEF StoreInv

\* A process that ended holds nothing.
LEMMA DownHoldsNothing == ASSUME pc = "down" PROVE ProcessInv
BY DEF ProcessInv, PipeInv, WalkInv, DraftInv, ReplayInv

LEMMA ExitBranch ==
  ASSUME BranchInv, UNCHANGED storeVars, (\E how \in Outcome : Exit(how)) \/ RecoveryFails
  PROVE  BranchInv'
<1>1. pc' = "down"
  BY Zenon DEF Exit, RecoveryFails
<1>2. ProcessInv'
  BY <1>1 DEF ProcessInv, PipeInv, WalkInv, DraftInv, ReplayInv
<1>3. StoreInv'
  BY StoreUnchanged DEF BranchInv, storeVars
<1>4. QED  BY <1>2, <1>3 DEF BranchInv

LEMMA NodeBranch ==
  ASSUME BranchInv, Extend \/ Reorganise \/ Sleep \/ UNCHANGED vars
  PROVE  BranchInv'
<1>1. UNCHANGED <<storeVars, volatile>>
  BY DEF Extend, Reorganise, Sleep, vars, node
<1>2. StoreInv'
  BY <1>1, StoreUnchanged DEF BranchInv, storeVars
<1>3. PipeInv'
  BY <1>1 DEF BranchInv, ProcessInv, PipeInv, storeVars, volatile, Derived
<1>4. WalkInv'
  BY <1>1 DEF BranchInv, ProcessInv, WalkInv, storeVars, volatile
<1>5. DraftInv'
  <2>1. PlanShape(plan)' <=> PlanShape(plan)
    BY <1>1 DEF PlanShape, Derived, storeVars, volatile
  <2>2. QED  BY <1>1, <2>1 DEF BranchInv, ProcessInv, DraftInv, storeVars, volatile
<1>6. ReplayInv'
  BY <1>1 DEF BranchInv, ProcessInv, ReplayInv, storeVars, volatile, Derived, IsCanonical
<1>7. QED  BY <1>2, <1>3, <1>4, <1>5, <1>6 DEF BranchInv, ProcessInv

LEMMA FaultBranch ==
  ASSUME BranchInv, Crash \/ Stop \/ RequestFails \/ DiskRefuses
  PROVE  BranchInv'
<1>1. UNCHANGED storeVars
  BY DEF Crash, Stop, RequestFails, DiskRefuses, Fault
<1>2. (\E how \in {"Crashed", "Stopped", "Failed", "DiskPaused"} : Exit(how)) \/ RecoveryFails
  BY Zenon DEF Crash, Stop, RequestFails, DiskRefuses
<1>3. {"Crashed", "Stopped", "Failed", "DiskPaused"} \subseteq Outcome
  BY DEF Outcome
<1>4. QED  BY <1>1, <1>2, <1>3, ExitBranch

\* A start reads the checkpoint and the pending job, and both are as JobInv and
\* CheckpointInv say.
LEMMA OpenBranch == ASSUME Inv, BranchInv, Open PROVE BranchInv'
<1>1. /\ pc = "down" /\ incoming = None
      /\ UNCHANGED <<incoming, old, replacements, step, storeVars>>
      /\ pipe' = IF checkpoints = <<>> THEN None ELSE Last(checkpoints)
      /\ plan' = job
      /\ pc' = IF job = None THEN "loop" ELSE "begin"
  BY DEF Open, Inv, ControlInv
<1>2. StoreInv'
  BY <1>1, StoreUnchanged DEF BranchInv, storeVars
<1>3. PipeInv'
  BY <1>1 DEF PipeInv, storeVars
<1>4. WalkInv' /\ ReplayInv'
  BY <1>1 DEF WalkInv, ReplayInv
<1>5. DraftInv'
  <2>1. CASE job = None
    BY <1>1, <2>1 DEF DraftInv
  <2>2. CASE job # None
    <3>1. JobInv'
      BY <1>2 DEF StoreInv
    <3>2. pc' = "begin" /\ plan' = job' /\ job' # None /\ incoming' = None
      BY <1>1, <2>2 DEF storeVars
    <3>3. PlanShape(plan)'
      BY <3>1, <3>2 DEF JobInv
    <3>4. QED  BY <3>1, <3>2, <3>3 DEF JobInv, DraftInv
  <2>3. QED  BY <2>1, <2>2
<1>6. QED  BY <1>2, <1>3, <1>4, <1>5 DEF BranchInv, ProcessInv

\* The loop polls only once the pipeline has reached the cursor's block.
LEMMA PollBranch == ASSUME Inv, BranchInv, Poll PROVE BranchInv'
<1>1. /\ pc = "loop" /\ pc' = "fetch" /\ ~BehindCursor /\ job = None
      /\ UNCHANGED <<pipe, incoming, plan, storeVars>>
  BY DEF Poll, Inv, PlanInv
<1>2. StoreInv'
  BY <1>1, StoreUnchanged DEF BranchInv, storeVars
<1>3. ASSUME pipe # None PROVE pipe.at = cursor.hash
  <2>1. checkpoints # <<>> /\ pipe = Last(checkpoints) /\ cursor # None
    BY <1>1, <1>3 DEF BranchInv, StoreInv, ProcessInv, PipeInv, CursorInv
  <2>2. /\ cursor.next = Number(cursor.hash) + 1 /\ ~(Number(pipe.at) + 1 < cursor.next)
        /\ \/ pipe.at = cursor.hash
           \/ Number(cursor.hash) = Number(pipe.at) + 1
    BY <1>1, <1>3, <2>1
    DEF BranchInv, StoreInv, CursorInv, CheckpointInv, BehindCursor
  <2>3. Number(pipe.at) \in Nat /\ Number(cursor.hash) \in Nat
    BY <1>3, <2>1, Typed, BlockFacts DEF Inv
  <2>4. QED  BY <2>2, <2>3
<1>4. PipeInv'
  BY <1>1, <1>3 DEF BranchInv, ProcessInv, PipeInv, storeVars
<1>5. WalkInv' /\ DraftInv' /\ ReplayInv'
  BY <1>1 DEF WalkInv, DraftInv, ReplayInv
<1>6. QED  BY <1>2, <1>4, <1>5 DEF BranchInv, ProcessInv

LEMMA FetchBranch == ASSUME Inv, BranchInv, Fetch PROVE BranchInv'
<1>1. pc = "fetch" /\ UNCHANGED storeVars
  BY DEF Fetch
<1>2. CASE Exit("Failed")
  BY <1>1, <1>2, ExitBranch DEF Outcome
<1>3. CASE pc' = "commit" /\ UNCHANGED <<pipe, old, replacements, plan, outcome>>
  <2>1. StoreInv'
    BY <1>1, StoreUnchanged DEF BranchInv, storeVars
  <2>2. PipeInv'
    BY <1>1, <1>3 DEF BranchInv, ProcessInv, PipeInv, storeVars
  <2>3. WalkInv' /\ DraftInv' /\ ReplayInv'
    BY <1>3 DEF WalkInv, DraftInv, ReplayInv
  <2>4. QED  BY <2>1, <2>2, <2>3 DEF BranchInv, ProcessInv
<1>4. QED  BY <1>2, <1>3, Zenon DEF Fetch

\* The collected block was never stored before: it continues the cursor's block,
\* and no stored block does.
LEMMA CommitBranch == ASSUME Inv, BranchInv, Commit PROVE BranchInv'
<1>1. /\ pc = "commit" /\ ~BreaksChain /\ job = None
      /\ incoming \in Block /\ Number(incoming) \in Nat
      /\ AppendRaw(incoming, Number(incoming) + 1, incoming)
      /\ pc' = IF pipe # None THEN "process" ELSE "bootstrap"
      /\ UNCHANGED <<pipe, incoming, plan>>
  BY BlockFacts DEF Commit, GoTo, Inv, ControlInv, PlanInv, TypeOK, EngineTypeOK
<1>2. /\ raw' = raw \cup {incoming}
      /\ cursor' = [next |-> Number(incoming) + 1, hash |-> incoming]
      /\ UNCHANGED <<derived, checkpoints, job>>
  BY <1>1 DEF AppendRaw
<1>3. cursor' # None /\ cursor'.next = Number(incoming) + 1 /\ cursor'.hash = incoming
  <2>1. [next |-> Number(incoming) + 1, hash |-> incoming] \in Cursor
    BY <1>1 DEF Cursor
  <2>2. QED  BY <1>2, <2>1, EngineAssumption
<1>4. raw \subseteq Block /\ \A b \in Block : Derived(b) => b \in raw
  BY Typed DEF Inv, BranchInv, StoreInv, RowInv
<1>5. ASSUME cursor # None
      PROVE  /\ cursor.next = Number(incoming) /\ cursor.hash = Parent(incoming)
             /\ cursor.hash \in Block
             /\ Number(incoming) = Number(cursor.hash) + 1 /\ Number(cursor.hash) \in Nat
             /\ \A b \in raw : /\ Number(b) <= Number(incoming)
                               /\ Number(b) = Number(incoming) => Parent(b) # Parent(incoming)
             /\ incoming \notin raw
  <2>1. cursor.next = Number(incoming) /\ cursor.hash = Parent(incoming)
    BY <1>1, <1>5 DEF BreaksChain
  <2>2. cursor.hash \in Block /\ cursor.next = Number(cursor.hash) + 1
    BY <1>5, Typed DEF Inv, BranchInv, StoreInv, CursorInv
  <2>3. \A b \in raw : /\ Number(b) <= cursor.next
                       /\ Number(b) = cursor.next => Parent(b) # cursor.hash
    BY <1>5 DEF BranchInv, StoreInv, CursorInv
  <2>4. QED  BY <2>1, <2>2, <2>3, BlockFacts
<1>6. ASSUME cursor = None PROVE raw = {} /\ checkpoints = <<>>
  BY <1>6 DEF BranchInv, StoreInv, CursorInv
<1>7. CursorInv'
  <2> SUFFICES ASSUME NEW b \in raw'
               PROVE  Number(b) <= Number(incoming) + 1 /\ Number(b) # Number(incoming) + 1
    BY <1>2, <1>3 DEF CursorInv
  <2>1. b \in Block /\ Number(b) \in Nat
    BY <1>1, <1>2, <1>4, BlockFacts
  <2>2. CASE b = incoming
    BY <1>1, <2>2
  <2>3. CASE b \in raw
    BY <1>1, <1>5, <1>6, <2>1, <2>3
  <2>4. QED  BY <1>2, <2>2, <2>3
<1>8. RowInv'
  BY <1>2 DEF BranchInv, StoreInv, RowInv, Derived
<1>9. PublishedFollowsCursor'
  <2>1. CASE cursor = None
    <3>1. \A b \in Block : ~Derived(b)
      BY <1>4, <1>6, <2>1
    <3>2. QED  BY <1>2, <3>1 DEF PublishedFollowsCursor, Canonical, IsCanonical, Derived
  <2>2. CASE cursor # None
    <3>1. Canonical = {b \in Block : Derived(b) /\ OnChain(b, Parent(incoming))}
      BY <1>1, <1>5, <2>2 DEF BranchInv, StoreInv, PublishedFollowsCursor
    <3>2. ASSUME NEW b \in Block, Derived(b)
          PROVE  OnChain(b, incoming) <=> OnChain(b, Parent(incoming))
      <4>1. b # incoming
        BY <1>4, <1>5, <2>2, <3>2
      <4>2. /\ Parent(incoming) \in Block /\ OnChain(Parent(incoming), incoming)
            /\ OnChain(b, incoming) => OnChain(b, Parent(incoming))
        BY <1>1, <1>5, <2>2, <4>1, ParentFacts
      <4>3. QED  BY <1>1, <4>2, OnChainTransitive
    <3>3. Canonical = {b \in Block : Derived(b) /\ OnChain(b, incoming)}
      BY <3>1, <3>2
    <3>4. QED
      BY <1>2, <1>3, <3>3 DEF PublishedFollowsCursor, Canonical, IsCanonical, Derived
  <2>3. QED  BY <2>1, <2>2
<1>10. CheckpointInv'
  <2> SUFFICES ASSUME checkpoints # <<>>
               PROVE  /\ Number(incoming) = Number(Last(checkpoints).at) + 1
                      /\ Parent(incoming) = Last(checkpoints).at
                      /\ \A b \in raw \cup {incoming} :
                           Number(b) = Number(incoming) /\ Parent(b) = Parent(incoming)
                             => b = incoming
    BY <1>2, <1>3 DEF CheckpointInv
  <2>1. pipe = Last(checkpoints) /\ pipe # None
    BY <1>1, Typed DEF Inv, BranchInv, ProcessInv, PipeInv
  <2>2. Last(checkpoints).at = cursor.hash /\ cursor # None
    BY <1>1, <1>6, <2>1 DEF BranchInv, ProcessInv, PipeInv
  <2>3. QED  BY <1>5, <2>2
<1>11. JobInv'
  BY <1>1, <1>2 DEF JobInv
<1>12. PipeInv'
  <2>1. pipe = IF checkpoints = <<>> THEN None ELSE Last(checkpoints)
    BY <1>1 DEF BranchInv, ProcessInv, PipeInv
  <2>2. CASE pipe # None
    <3>1. pc' = "process" /\ cursor # None /\ pipe.at = cursor.hash
      BY <1>1, <1>6, <2>1, <2>2 DEF BranchInv, ProcessInv, PipeInv
    <3>2. QED  BY <1>1, <1>2, <1>3, <1>5, <2>1, <3>1 DEF PipeInv
  <2>3. CASE pipe = None
    BY <1>1, <1>2, <1>3, <2>1, <2>3 DEF PipeInv
  <2>4. QED  BY <2>2, <2>3
<1>13. WalkInv' /\ DraftInv' /\ ReplayInv'
  BY <1>1 DEF WalkInv, DraftInv, ReplayInv
<1>14. QED
  BY <1>7, <1>8, <1>9, <1>10, <1>11, <1>12, <1>13 DEF BranchInv, StoreInv, ProcessInv

\* The walk begins with the block that broke the chain, one height above the
\* pipeline's.
LEMMA CommitGapBranch == ASSUME Inv, BranchInv, CommitGap PROVE BranchInv'
<1>1. /\ pc = "commit" /\ BreaksChain /\ cursor # None /\ job = None
      /\ incoming \in Block /\ incoming # None /\ Number(incoming) = cursor.next
      /\ UNCHANGED <<raw, cursor, derived, checkpoints, job>>
  BY DEF CommitGap, BreaksChain, RecordGap, Inv, ControlInv, PlanInv, HeightInv, TypeOK,
         EngineTypeOK
<1>2. StoreInv'
  BY <1>1, StoreUnchanged DEF BranchInv
<1>3. CASE Exit("DataGapPaused")
  BY <1>2, <1>3 DEF Exit, BranchInv, ProcessInv, PipeInv, WalkInv, DraftInv, ReplayInv
<1>4. CASE /\ pipe # None /\ pc' = "recover" /\ old' = pipe.at
           /\ replacements' = <<incoming>>
           /\ UNCHANGED <<pipe, incoming, plan, step, outcome>>
  <2>1. pipe.at = cursor.hash /\ pipe.at \in Block
    BY <1>1, <1>4, Typed DEF Inv, BranchInv, ProcessInv, PipeInv
  <2>2. /\ Number(pipe.at) \in Nat /\ Number(incoming) \in Nat
        /\ cursor.next = Number(pipe.at) + 1
    BY <1>1, <2>1, BlockFacts DEF BranchInv, StoreInv, CursorInv
  <2>3. PipeInv'
    BY <1>1, <1>4, <2>1 DEF BranchInv, ProcessInv, PipeInv
  <2>4. WalkInv'
    <3>1. OnChain(pipe.at, pipe.at) /\ ~OnChain(incoming, pipe.at)
      BY <1>1, <2>1, <2>2, OnChainOrder, AncestorHeights
    <3>2. Parent(incoming) # cursor.hash
      BY <1>1 DEF BreaksChain
    <3>3. /\ Len(replacements') = 1 /\ Last(replacements') = incoming
          /\ replacements'[1] = incoming
      BY <1>4 DEF Last
    <3>4. QED  BY <1>1, <1>4, <2>2, <3>1, <3>2, <3>3 DEF WalkInv
  <2>5. DraftInv' /\ ReplayInv'
    BY <1>4 DEF DraftInv, ReplayInv
  <2>6. QED  BY <1>2, <2>3, <2>4, <2>5 DEF BranchInv, ProcessInv
<1>5. QED  BY <1>3, <1>4, Zenon DEF CommitGap

\* What process_timed does to the rows of derived_blocks.
LEMMA DeriveRows ==
  ASSUME Inv, pipe # None, NEW b \in Block, Derive(b)
  PROVE  /\ \A c \in Block : derived'[c] # None <=> Derived(c) \/ c = b
         /\ \A c \in Block : (derived'[c] # None /\ derived'[c].canonical)
                                <=> IsCanonical(c) \/ c = b
         /\ ~Derived(b) => b \in raw
         /\ Derived(b) /\ ~IsCanonical(b) => job # None
         /\ Parent(b) = pipe.at /\ pipe'.at = b
         /\ UNCHANGED <<raw, cursor, gaps, checkpoints, job>>
<1> USE DEF Derive, Derived, IsCanonical
<1>1. /\ Parent(b) = pipe.at /\ pipe'.at = b
      /\ UNCHANGED <<raw, cursor, gaps, checkpoints, job>>
  BY DeriveEffect DEF Accepts
<1>2. /\ derived \in [Block -> DerivedBlock \cup {None}]
      /\ derived' \in [Block -> DerivedBlock \cup {None}]
  BY DeriveEffect DEF Inv, TypeOK, StoreTypeOK
<1>3. None \notin DerivedBlock
  BY EngineAssumption
<1>4. CASE ~Derived(b)
  <2>1. /\ b \in raw
        /\ derived' = [derived EXCEPT ![b] =
                         [canonical |-> TRUE, pools |-> ApplyBlock(pipe, b).pools]]
    BY <1>4 DEF SaveDerived
  <2>2. derived'[b].canonical /\ derived'[b] # None
    <3>1. derived'[b] = [canonical |-> TRUE, pools |-> ApplyBlock(pipe, b).pools]
      BY <1>2, <2>1
    <3>2. derived'[b] \in DerivedBlock
      BY <3>1, DeriveEffect DEF ApplyBlock, State, DerivedBlock
    <3>3. derived'[b].canonical = TRUE
      BY <3>1
    <3>4. derived'[b] # None
      BY <1>3, <3>2
    <3>5. QED  BY <3>3, <3>4, Zenon
  <2>3. \A c \in Block \ {b} : derived'[c] = derived[c]
    BY <1>2, <2>1
  <2>4. QED  BY <1>1, <1>4, <2>1, <2>2, <2>3
<1>5. CASE Derived(b) /\ ~IsCanonical(b)
  <2>1. job # None /\ derived' = [derived EXCEPT ![b].canonical = TRUE]
    BY <1>5 DEF ReactivateDerived
  <2>2. derived'[b].canonical /\ derived'[b] # None
    <3>1. derived[b] \in DerivedBlock
      BY <1>2, <1>5
    <3>2. derived'[b] = [derived[b] EXCEPT !.canonical = TRUE]
      BY <1>2, <2>1
    <3>3. derived'[b] \in DerivedBlock /\ derived'[b].canonical
      BY <3>1, <3>2 DEF DerivedBlock
    <3>4. QED  BY <1>3, <3>3
  <2>3. \A c \in Block \ {b} : derived'[c] = derived[c]
    BY <1>2, <2>1
  <2>4. QED  BY <1>1, <1>5, <2>1, <2>2, <2>3
<1>6. CASE IsCanonical(b)
  BY <1>1, <1>6 DEF storeVars
<1>7. QED  BY <1>4, <1>5, <1>6

\* Every checkpoint is of the first one's block or above it.
LEMMA CheckpointsAboveFirst ==
  ASSUME Inv, BranchInv, NEW i \in 1 .. Len(checkpoints)
  PROVE  /\ checkpoints[1].at \in Block /\ checkpoints[i].at \in Block
         /\ OnChain(checkpoints[1].at, checkpoints[i].at)
         /\ Derived(checkpoints[i].at) \/ checkpoints[i].at = checkpoints[1].at
<1>1. 1 \in 1 .. Len(checkpoints)
  BY Typed DEF Inv
<1>2. checkpoints[1].at \in Block /\ checkpoints[i].at \in Block
  BY <1>1, Typed DEF Inv
<1>3. Derived(checkpoints[i].at) \/ checkpoints[i].at = checkpoints[1].at
  BY DEF BranchInv, StoreInv, RowInv
<1>4. OnChain(checkpoints[1].at, checkpoints[i].at)
  BY <1>2, <1>3, OnChainOrder DEF BranchInv, StoreInv, RowInv
<1>5. QED  BY <1>2, <1>3, <1>4

\* Publishing the cursor's block from the checkpoint of its parent.
LEMMA DeriveCursorBlock ==
  ASSUME Inv, BranchInv, job = None, cursor # None, checkpoints # <<>>,
         pipe = Last(checkpoints), Derive(cursor.hash),
         Number(cursor.hash) = Number(pipe.at) + 1
  PROVE  /\ StoreInv' /\ pipe'.at = cursor.hash /\ Derived(pipe.at)'
         /\ UNCHANGED <<raw, cursor, gaps, checkpoints, job>>
<1> DEFINE tip == cursor.hash
           row(c) == derived'[c]
<1>1. tip \in Block /\ tip \in raw /\ pipe # None /\ pipe.at \in Block
      /\ 1 \in 1 .. Len(checkpoints)
  BY Typed DEF Inv, BranchInv, StoreInv, CursorInv
<1>2. /\ \A c \in Block : row(c) # None <=> Derived(c) \/ c = tip
      /\ \A c \in Block : (row(c) # None /\ row(c).canonical)
                                <=> IsCanonical(c) \/ c = tip
      /\ Parent(tip) = pipe.at /\ pipe'.at = tip
      /\ UNCHANGED <<raw, cursor, gaps, checkpoints, job>>
  BY <1>1, DeriveRows
<1>3. CursorInv'
  BY <1>2 DEF BranchInv, StoreInv, CursorInv
<1>4. RowInv'
  <2>1. OnChain(checkpoints[1].at, tip) /\ tip # checkpoints[1].at
    <3>1. /\ checkpoints[1].at \in Block /\ OnChain(checkpoints[1].at, pipe.at)
      BY CheckpointsAboveFirst, Typed DEF Inv
    <3>2. OnChain(pipe.at, tip)
      BY <1>1, <1>2, ParentFacts
    <3>3. /\ Number(checkpoints[1].at) <= Number(pipe.at)
          /\ Number(checkpoints[1].at) \in Nat /\ Number(pipe.at) \in Nat
      BY <1>1, <3>1, AncestorHeights, BlockFacts
    <3>4. QED  BY <1>1, <3>1, <3>2, <3>3, OnChainTransitive
  <2>2. ASSUME NEW c \in Block, row(c) # None
        PROVE  /\ c \in raw /\ OnChain(checkpoints[1].at, c) /\ c # checkpoints[1].at
    <3>1. CASE c = tip  BY <1>1, <2>1, <3>1
    <3>2. CASE Derived(c)  BY <3>2 DEF BranchInv, StoreInv, RowInv
    <3>3. QED  BY <1>2, <2>2, <3>1, <3>2
  <2>3. ASSUME NEW i \in 1 .. Len(checkpoints)
        PROVE  row(checkpoints[i].at) # None \/ checkpoints[i].at = checkpoints[1].at
    BY <1>2, CheckpointsAboveFirst
  <2> HIDE DEF tip
  <2>4. QED  BY <1>2, <2>2, <2>3 DEF RowInv, Derived
<1>5. PublishedFollowsCursor'
  <2>1. \A c \in Block : IsCanonical(c) <=> Derived(c) /\ OnChain(c, tip)
    BY DEF BranchInv, StoreInv, PublishedFollowsCursor, Canonical
  <2>2. OnChain(tip, tip)
    BY <1>1, OnChainOrder
  <2>3. \A c \in Block : (row(c) # None /\ row(c).canonical)
                            <=> row(c) # None /\ OnChain(c, tip)
    BY <1>2, <2>1, <2>2
  <2>4. cursor'.hash = tip
    BY <1>2
  <2> HIDE DEF tip
  <2>5. QED
    BY <2>3, <2>4 DEF PublishedFollowsCursor, Canonical, IsCanonical, Derived
<1>6. CheckpointInv'
  BY <1>2 DEF BranchInv, StoreInv, CheckpointInv
<1>7. JobInv'
  BY <1>2 DEF JobInv
<1>8. Derived(pipe.at)'
  BY <1>1, <1>2 DEF Derived
<1>9. QED  BY <1>2, <1>3, <1>4, <1>5, <1>6, <1>7, <1>8 DEF StoreInv

LEMMA ProcessBranch == ASSUME Inv, BranchInv, Process PROVE BranchInv'
<1>1. /\ pc = "process" /\ pipe # None /\ cursor # None /\ incoming = cursor.hash
      /\ pipe = (IF checkpoints = <<>> THEN None ELSE Last(checkpoints))
      /\ Number(cursor.hash) = Number(pipe.at) + 1
  BY DEF Process, Inv, ControlInv, BranchInv, ProcessInv, PipeInv
<1>2. CASE Exit("Failed") /\ UNCHANGED storeVars
  BY <1>2, ExitBranch DEF Outcome
<1>3. CASE Derive(incoming) /\ GoTo("checkpoint")
  <2>1. job = None
    BY <1>1 DEF Inv, PlanInv
  <2>2. /\ StoreInv' /\ pipe'.at = cursor.hash /\ Derived(pipe.at)'
        /\ UNCHANGED <<raw, cursor, gaps, checkpoints, job>>
    BY <1>1, <1>3, <2>1, DeriveCursorBlock
  <2>3. pc' = "checkpoint" /\ incoming' = incoming
    BY <1>3 DEF GoTo
  <2>4. PipeInv'
    BY <1>1, <2>1, <2>2, <2>3 DEF PipeInv
  <2>5. WalkInv' /\ DraftInv' /\ ReplayInv'
    BY <2>3 DEF WalkInv, DraftInv, ReplayInv
  <2>6. QED  BY <2>2, <2>4, <2>5 DEF BranchInv, ProcessInv
<1>4. QED  BY <1>2, <1>3, Zenon DEF Process

\* The only successor replay_chain can find is the cursor's block.
LEMMA SuccessorIsCursorsBlock ==
  ASSUME Inv, BranchInv, pc = "loop", BehindCursor, NEW b \in Successors
  PROVE  /\ job = None /\ cursor # None /\ incoming = None
         /\ checkpoints # <<>> /\ pipe = Last(checkpoints)
         /\ b = cursor.hash /\ Number(cursor.hash) = Number(pipe.at) + 1
<1>1. /\ pipe # None /\ cursor # None /\ incoming = None /\ job = None
      /\ Number(pipe.at) + 1 < cursor.next
      /\ pipe = (IF checkpoints = <<>> THEN None ELSE Last(checkpoints))
  BY DEF BehindCursor, BranchInv, ProcessInv, PipeInv, Inv, PlanInv
<1>2. cursor.next = Number(cursor.hash) + 1
  BY <1>1 DEF BranchInv, StoreInv, CursorInv
<1>3. Number(pipe.at) \in Nat /\ Number(cursor.hash) \in Nat
  BY <1>1, Typed, BlockFacts DEF Inv
<1>4. pipe.at # cursor.hash
  BY <1>1, <1>2, <1>3
<1>5. /\ Number(cursor.hash) = Number(pipe.at) + 1 /\ Parent(cursor.hash) = pipe.at
      /\ \A c \in raw : Number(c) = Number(cursor.hash) /\ Parent(c) = Parent(cursor.hash)
                          => c = cursor.hash
  BY <1>1, <1>4 DEF BranchInv, StoreInv, CheckpointInv
<1>6. b = cursor.hash
  BY <1>5 DEF Successors
<1>7. QED  BY <1>1, <1>5, <1>6

LEMMA ReplayCommittedBranch == ASSUME Inv, BranchInv, ReplayCommitted PROVE BranchInv'
<1>1. pc = "loop" /\ BehindCursor
  BY DEF ReplayCommitted
<1>2. CASE Exit("Failed") /\ UNCHANGED storeVars
  BY <1>2, ExitBranch DEF Outcome
<1>3. CASE (\E b \in Successors : Derive(b)) /\ GoTo("checkpoint")
  <2>1. PICK b \in Successors : Derive(b)
    BY <1>3
  <2>2. /\ job = None /\ cursor # None /\ incoming = None
        /\ checkpoints # <<>> /\ pipe = Last(checkpoints)
        /\ b = cursor.hash /\ Number(cursor.hash) = Number(pipe.at) + 1
    BY <1>1, SuccessorIsCursorsBlock
  <2>3. /\ StoreInv' /\ pipe'.at = cursor.hash /\ Derived(pipe.at)'
        /\ UNCHANGED <<raw, cursor, gaps, checkpoints, job>>
    BY <2>1, <2>2, DeriveCursorBlock
  <2>4. pc' = "checkpoint" /\ incoming' = incoming
    BY <1>3 DEF GoTo
  <2>5. PipeInv'
    BY <2>2, <2>3, <2>4 DEF PipeInv
  <2>6. WalkInv' /\ DraftInv' /\ ReplayInv'
    BY <2>4 DEF WalkInv, DraftInv, ReplayInv
  <2>7. QED  BY <2>3, <2>5, <2>6 DEF BranchInv, ProcessInv
<1>4. QED  BY <1>2, <1>3, Zenon DEF ReplayCommitted

LEMMA CheckpointBranch == ASSUME Inv, BranchInv, Checkpoint PROVE BranchInv'
<1>1. /\ pc = "checkpoint" /\ pipe \in State /\ pipe # None /\ job = None
      /\ checkpoints' = Append(checkpoints, pipe)
      /\ UNCHANGED <<raw, cursor, derived, job, pipe, plan>>
      /\ pc' = AfterBlock /\ incoming' = IF AfterBlock = "loop" THEN None ELSE incoming
  BY DEF Checkpoint, SaveRuntimeCheckpoint, Inv, ControlInv, PlanInv, TypeOK, EngineTypeOK
<1>2. /\ cursor # None /\ pipe.at = cursor.hash /\ incoming \in {None, cursor.hash}
      /\ \/ checkpoints = <<>> \/ Derived(pipe.at)
         \/ pipe.at = checkpoints[1].at
  BY <1>1 DEF BranchInv, ProcessInv, PipeInv
<1>3. /\ Len(checkpoints) \in Nat /\ Len(checkpoints') = Len(checkpoints) + 1
      /\ checkpoints' # <<>> /\ Last(checkpoints') = pipe
      /\ checkpoints'[Len(checkpoints) + 1] = pipe
      /\ \A i \in 1 .. Len(checkpoints) : checkpoints'[i] = checkpoints[i]
  <2>1. checkpoints \in Seq(State) /\ Len(checkpoints) \in Nat
    BY LenProperties DEF Inv, TypeOK, StoreTypeOK
  <2>2. QED  BY <1>1, <2>1, AppendProperties DEF Last
<1>4. CursorInv'
  BY <1>1, <1>2 DEF BranchInv, StoreInv, CursorInv
<1>5. RowInv'
  <2>1. CASE checkpoints = <<>>
    <3>1. \A b \in Block : ~Derived(b)
      BY <2>1 DEF BranchInv, StoreInv, RowInv
    <3>2. Len(checkpoints') = 1
      BY <1>3, <2>1
    <3>3. QED  BY <1>1, <3>1, <3>2 DEF RowInv, Derived
  <2>2. CASE checkpoints # <<>>
    <3>1. checkpoints'[1] = checkpoints[1]
      BY <1>3, <2>2, Typed DEF Inv
    <3>2. \A b \in Block : Derived(b) =>
            /\ b \in raw /\ checkpoints' # <<>>
            /\ OnChain(checkpoints'[1].at, b) /\ b # checkpoints'[1].at
      BY <1>3, <3>1 DEF BranchInv, StoreInv, RowInv
    <3>3. ASSUME NEW i \in 1 .. Len(checkpoints')
          PROVE  Derived(checkpoints'[i].at) \/ checkpoints'[i].at = checkpoints'[1].at
      <4>1. CASE i = Len(checkpoints) + 1
        BY <1>2, <1>3, <2>2, <3>1, <4>1
      <4>2. CASE i \in 1 .. Len(checkpoints)
        BY <1>3, <3>1, <4>2, CheckpointsAboveFirst
      <4>3. QED  BY <1>3, <4>1, <4>2
    <3>4. QED  BY <1>1, <3>2, <3>3 DEF RowInv, Derived
  <2>3. QED  BY <2>1, <2>2
<1>6. PublishedFollowsCursor'
  BY <1>1 DEF BranchInv, StoreInv, PublishedFollowsCursor, Canonical, Derived, IsCanonical
<1>7. CheckpointInv' /\ JobInv'
  BY <1>1, <1>2, <1>3 DEF CheckpointInv, JobInv
<1>8. /\ pc' \in {"bootstrap", "loop"} /\ (pc' = "loop" => incoming' = None)
      /\ (pc' = "bootstrap" => incoming' = cursor.hash)
  BY <1>1, <1>2 DEF AfterBlock
<1>9. PipeInv'
  BY <1>1, <1>2, <1>3, <1>8 DEF PipeInv
<1>10. WalkInv' /\ DraftInv' /\ ReplayInv'
  BY <1>8 DEF WalkInv, DraftInv, ReplayInv
<1>11. QED
  BY <1>4, <1>5, <1>6, <1>7, <1>9, <1>10 DEF BranchInv, StoreInv, ProcessInv

LEMMA BootstrapBranch == ASSUME Inv, BranchInv, Bootstrap PROVE BranchInv'
<1>1. /\ pc = "bootstrap" /\ cursor # None /\ incoming = cursor.hash
      /\ incoming \in Block /\ UNCHANGED storeVars
      /\ pipe = (IF checkpoints = <<>> THEN None ELSE Last(checkpoints))
      /\ pipe # None => pipe.at = cursor.hash
  BY DEF Bootstrap, Inv, ControlInv, TypeOK, EngineTypeOK, BranchInv, ProcessInv, PipeInv
<1>2. StoreInv'
  BY <1>1, StoreUnchanged DEF BranchInv, storeVars
<1>3. CASE Exit("Failed")
  BY <1>1, <1>3, ExitBranch DEF Outcome
<1>4. CASE pc' = "loop" /\ incoming' = None /\ UNCHANGED pipe
  <2>1. PipeInv'
    BY <1>1, <1>4 DEF PipeInv, storeVars
  <2>2. WalkInv' /\ DraftInv' /\ ReplayInv'
    BY <1>4 DEF WalkInv, DraftInv, ReplayInv
  <2>3. QED  BY <1>2, <2>1, <2>2 DEF BranchInv, ProcessInv
<1>5. CASE /\ \E pools \in Fresh[incoming] : pipe' = [at |-> incoming, pools |-> pools]
           /\ GoTo("checkpoint")
  <2>1. pipe'.at = cursor.hash /\ pc' = "checkpoint" /\ incoming' = incoming
    BY <1>1, <1>5 DEF GoTo
  <2>2. checkpoints = <<>> \/ Derived(cursor.hash) \/ cursor.hash = checkpoints[1].at
    <3>1. CASE checkpoints # <<>>
      <4>1. Last(checkpoints) = checkpoints[Len(checkpoints)] /\ Last(checkpoints) # None
            /\ Len(checkpoints) \in 1 .. Len(checkpoints)
        BY <3>1, Typed DEF Inv
      <4>2. Last(checkpoints).at = cursor.hash
        BY <1>1, <3>1, <4>1
      <4>3. QED  BY <4>1, <4>2, CheckpointsAboveFirst
    <3>2. QED  BY <3>1
  <2>3. PipeInv'
    BY <1>1, <2>1, <2>2 DEF PipeInv, storeVars, Derived
  <2>4. WalkInv' /\ DraftInv' /\ ReplayInv'
    BY <2>1 DEF WalkInv, DraftInv, ReplayInv
  <2>5. QED  BY <1>2, <2>3, <2>4 DEF BranchInv, ProcessInv
<1>6. QED  BY <1>3, <1>4, <1>5, Zenon DEF Bootstrap

\* A block of the node that differs from the stored one of its height is not on
\* the stored branch.
LEMMA FindAncestorBranch == ASSUME Inv, BranchInv, FindAncestor PROVE BranchInv'
<1> DEFINE found == BlockAt(head, Number(old))
<1>1. /\ pc = "recover" /\ old \in Block /\ head \in Block /\ cursor # None
      /\ replacements \in Seq(Block) /\ replacements # <<>> /\ pipe # None
      /\ UNCHANGED storeVars
  BY DEF FindAncestor, Inv, ControlInv, TypeOK, EngineTypeOK
<1>2. /\ Number(old) \in Nat /\ Number(head) \in Nat /\ pipe.at \in Block
      /\ Len(replacements) \in Nat \ {0} /\ cursor.next \in Nat
  BY <1>1, Typed, BlockFacts, EmptySeq, LenProperties DEF Inv
<1>3. StoreInv'
  BY <1>1, StoreUnchanged DEF BranchInv, storeVars
<1>4. CASE RecoveryFails
  BY <1>1, <1>4, ExitBranch
<1>5. CASE /\ pc' = "plan"
           /\ UNCHANGED <<pipe, incoming, old, replacements, plan, step, outcome>>
  <2>1. PipeInv'
    BY <1>1, <1>5 DEF BranchInv, ProcessInv, PipeInv, storeVars
  <2>2. WalkInv'
    BY <1>1, <1>5 DEF BranchInv, ProcessInv, WalkInv, storeVars
  <2>3. DraftInv' /\ ReplayInv'
    BY <1>5 DEF DraftInv, ReplayInv
  <2>4. QED  BY <1>3, <2>1, <2>2, <2>3 DEF BranchInv, ProcessInv
<1>6. CASE /\ Number(old) <= Number(head) /\ found # old
           /\ replacements' = <<found>> \o replacements /\ old' = Parent(old)
           /\ UNCHANGED <<pc, pipe, incoming, plan, step, outcome>>
  <2>1. /\ found \in Block /\ Number(found) = Number(old)
        /\ OnChain(found, head)
    BY <1>1, <1>2, <1>6, BlockAtFacts
  <2>2. /\ OnChain(old, pipe.at) /\ Number(old) + Len(replacements) = cursor.next
        /\ Last(replacements) = incoming /\ Parent(incoming) # cursor.hash
        /\ \A k \in 1 .. Len(replacements) :
             /\ Number(replacements[k]) = cursor.next - Len(replacements) + k
             /\ ~OnChain(replacements[k], pipe.at)
    BY <1>1 DEF BranchInv, ProcessInv, WalkInv
  <2>3. ~OnChain(found, pipe.at)
    BY <1>1, <1>2, <1>6, <2>1, <2>2, AncestorHeights
  <2>4. /\ Parent(old) \in Block /\ OnChain(Parent(old), pipe.at)
        /\ Number(Parent(old)) = Number(old) - 1
    <3>1. Number(old) > 0
      <4>1. CASE Number(old) = 0
        <5>1. old = <<>> /\ found = <<>>
          BY <1>1, <2>1, <4>1, BlockFacts, EmptySeq DEF Number
        <5>2. QED  BY <1>6, <5>1
      <4>2. QED  BY <1>2, <4>1
    <3>2. QED  BY <1>1, <1>2, <2>2, <3>1, ParentFacts, OnChainTransitive
  <2> DEFINE longer == <<found>> \o replacements
  <2>5. /\ Len(longer) = Len(replacements) + 1 /\ Last(longer) = Last(replacements)
        /\ longer[1] = found
        /\ \A k \in 2 .. Len(replacements) + 1 : longer[k] = replacements[k - 1]
    <3> HIDE DEF found
    <3>1. <<found>> \in Seq(Block) /\ Len(<<found>>) = 1
      BY <2>1
    <3>2. Last(longer) = Last(replacements)
      BY <1>1, <3>1, LastOfConcat
    <3>3. QED  BY <1>1, <1>2, <3>1, <3>2, ConcatProperties
  <2>6. ASSUME NEW k \in 1 .. Len(replacements) + 1
        PROVE  /\ Number(longer[k]) = cursor.next - (Len(replacements) + 1) + k
               /\ ~OnChain(longer[k], pipe.at)
    <3> HIDE DEF longer, found
    <3>1. CASE k = 1
      <4>1. longer[k] = found
        BY <2>5, <3>1
      <4>2. Number(found) = cursor.next - (Len(replacements) + 1) + k
        <5>1. Number(found) + Len(replacements) = cursor.next
          BY <2>1, <2>2
        <5>2. Number(found) \in Nat
          BY <1>2, <2>1
        <5>3. QED  BY <1>2, <3>1, <5>1, <5>2
      <4>3. QED  BY <2>3, <4>1, <4>2
    <3>2. CASE k # 1
      <4>1. k \in 2 .. Len(replacements) + 1 /\ k - 1 \in 1 .. Len(replacements)
        BY <1>2, <2>5, <3>2
      <4>2. longer[k] = replacements[k - 1]
        BY <2>5, <4>1
      <4>3. /\ Number(replacements[k - 1]) = cursor.next - Len(replacements) + (k - 1)
            /\ ~OnChain(replacements[k - 1], pipe.at)
        BY <2>2, <4>1
      <4>4. Number(replacements[k - 1]) = cursor.next - (Len(replacements) + 1) + k
        <5>1. cursor.next - Len(replacements) + (k - 1) = cursor.next - (Len(replacements) + 1) + k
          BY <1>2
        <5>2. QED  BY <4>3, <5>1
      <4>5. QED  BY <4>2, <4>3, <4>4
    <3>3. QED  BY <3>1, <3>2
  <2>7. replacements' = longer
    BY <1>6
  <2> HIDE DEF longer, found
  <2>8. PipeInv'
    BY <1>1, <1>6 DEF BranchInv, ProcessInv, PipeInv, storeVars
  <2>9. WalkInv'
    <3>1. OnChain(old', pipe.at) /\ Number(old') + Len(longer) = cursor.next
      BY <1>2, <1>6, <2>2, <2>4, <2>5
    <3>2. UNCHANGED <<pipe, incoming, cursor>>
      BY <1>1, <1>6 DEF storeVars
    <3>3. QED  BY <2>2, <2>5, <2>6, <2>7, <3>1, <3>2 DEF WalkInv
  <2>10. DraftInv' /\ ReplayInv'
    BY <1>1, <1>6 DEF DraftInv, ReplayInv
  <2>11. QED  BY <1>3, <2>8, <2>9, <2>10 DEF BranchInv, ProcessInv
<1>7. QED  BY <1>2, <1>4, <1>5, <1>6 DEF FindAncestor

\* The blocks a plan built at "plan" replays: the kept part of the stored branch
\* up to the ancestor, then the replacements.
LEMMA PlanReplays ==
  ASSUME Inv, BranchInv, pc = "plan",
         NEW ancestor \in Block, ancestor = Parent(Head(replacements)),
         NEW i \in 1 .. Len(checkpoints), Eligible(i, ancestor), Buildable(i, ancestor),
         NEW base, base = Number(checkpoints[i].at),
         NEW kept, kept = Number(ancestor) - base,
         NEW replay, replay = PlanFrom(i, ancestor).replay
  PROVE  /\ base \in Nat /\ kept \in Nat /\ Number(ancestor) <= Number(pipe.at)
         /\ Number(replacements[1]) = Number(ancestor) + 1
         /\ Len(replay) = kept + Len(replacements)
         /\ \A k \in 1 .. kept : replay[k] = BlockAt(pipe.at, base + k)
         /\ \A k \in 1 .. Len(replacements) : replay[kept + k] = replacements[k]
         /\ \A k \in 1 .. Len(replacements) :
              Number(replacements[k]) = Number(ancestor) + k
<1>1. /\ pipe.at \in Block /\ replacements \in Seq(Block) /\ replacements # <<>>
      /\ old \in Block /\ checkpoints[i].at \in Block
      /\ cursor # None /\ cursor.next \in Nat
  BY Typed DEF Inv, ControlInv, TypeOK, EngineTypeOK
<1>2. /\ Len(replacements) \in Nat \ {0} /\ Number(old) \in Nat /\ base \in Nat
      /\ Number(ancestor) \in Nat /\ Number(pipe.at) \in Nat
      /\ \A k \in 1 .. Len(replacements) : replacements[k] \in Block
  BY <1>1, BlockFacts, EmptySeq, LenProperties, ElementOfSeq
<1>3. base <= Number(ancestor) /\ OnChain(ancestor, pipe.at)
  BY DEF Eligible, Buildable
<1>4. kept \in Nat /\ Number(ancestor) <= Number(pipe.at)
  BY <1>1, <1>2, <1>3, AncestorHeights
<1>5. /\ Number(old) + Len(replacements) = cursor.next
      /\ \A k \in 1 .. Len(replacements) :
           Number(replacements[k]) = cursor.next - Len(replacements) + k
  BY DEF BranchInv, ProcessInv, WalkInv
<1>6. \A k \in 1 .. Len(replacements) : Number(replacements[k]) = Number(old) + k
  <2> SUFFICES ASSUME NEW k \in 1 .. Len(replacements)
               PROVE  Number(replacements[k]) = Number(old) + k
    OBVIOUS
  <2>1. cursor.next - Len(replacements) + k = Number(old) + k
    BY <1>1, <1>2, <1>5
  <2>2. QED  BY <1>5, <2>1
<1>7. Number(ancestor) = Number(old)
  <2>1. ancestor = Parent(replacements[1])
    OBVIOUS
  <2>2. 1 \in 1 .. Len(replacements) /\ replacements[1] \in Block
    BY <1>2
  <2>3. Number(replacements[1]) = Number(old) + 1
    BY <1>6, <2>2
  <2>4. Number(replacements[1]) > 0
    BY <1>2, <2>3
  <2>5. Number(ancestor) = Number(replacements[1]) - 1
    BY <2>1, <2>2, <2>4, ParentFacts
  <2>6. QED  BY <1>2, <2>3, <2>5
<1> DEFINE front == [k \in 1 .. kept |-> BlockAt(pipe.at, base + k)]
<1>8. replay = front \o replacements
  BY DEF PlanFrom
<1>9. front \in Seq(Block) /\ Len(front) = kept
  <2>1. \A k \in 1 .. kept : BlockAt(pipe.at, base + k) \in Block
    <3> SUFFICES ASSUME NEW k \in 1 .. kept PROVE BlockAt(pipe.at, base + k) \in Block
      OBVIOUS
    <3>1. base + k \in 0 .. Number(pipe.at)
      BY <1>2, <1>4
    <3>2. QED  BY <1>1, <3>1, BlockFacts
  <2>2. front \in [1 .. kept -> Block]
    BY <2>1
  <2>3. QED  BY <1>4, <2>2, SeqDef
<1>10. \A k \in 1 .. kept : front[k] = BlockAt(pipe.at, base + k)
  OBVIOUS
<1>11. /\ Len(front \o replacements) = kept + Len(replacements)
       /\ \A k \in 1 .. kept : (front \o replacements)[k] = front[k]
       /\ \A k \in 1 .. Len(replacements) :
            (front \o replacements)[kept + k] = replacements[k]
  <2> HIDE DEF front
  <2>1. /\ Len(front \o replacements) = Len(front) + Len(replacements)
        /\ \A k \in 1 .. Len(front) + Len(replacements) :
             (front \o replacements)[k] = IF k <= Len(front) THEN front[k]
                                          ELSE replacements[k - Len(front)]
    BY <1>1, <1>9, ConcatProperties
  <2>2. ASSUME NEW k \in 1 .. kept PROVE (front \o replacements)[k] = front[k]
    <3>1. k \in 1 .. Len(front) + Len(replacements) /\ k <= Len(front)
      BY <1>2, <1>4, <1>9
    <3>2. QED  BY <2>1, <3>1
  <2>3. ASSUME NEW k \in 1 .. Len(replacements)
        PROVE  (front \o replacements)[kept + k] = replacements[k]
    <3>1. Len(front) = kept /\ kept \in Nat /\ Len(replacements) \in Nat
      BY <1>2, <1>4, <1>9
    <3>2. kept + k \in 1 .. kept + Len(replacements)
      BY <3>1
    <3>3. ~(kept + k <= kept) /\ kept + k - kept = k
      BY <3>1
    <3>4. PICK j : j = kept + k
      OBVIOUS
    <3>5. /\ j \in 1 .. Len(front) + Len(replacements)
          /\ ~(j <= Len(front)) /\ j - Len(front) = k
      BY <3>1, <3>2, <3>3, <3>4
    <3>6. (front \o replacements)[j] = replacements[k]
      BY <2>1, <3>5
    <3>7. QED  BY <3>4, <3>6
  <2>4. QED  BY <1>9, <2>1, <2>2, <2>3
<1>12. QED
  <2> HIDE DEF front
  <2>1. 1 \in 1 .. Len(replacements)
    BY <1>2
  <2>2. Number(replacements[1]) = Number(ancestor) + 1
    BY <1>6, <1>7, <2>1
  <2>3. QED  BY <1>2, <1>4, <1>6, <1>7, <1>8, <1>10, <1>11, <2>2

\* What the plan retracts is the stored branch above the ancestor.
LEMMA PlanOrphans ==
  ASSUME Inv, pc = "plan", NEW ancestor \in Block, NEW i \in 1 .. Len(checkpoints),
         Buildable(i, ancestor)
  PROVE  PlanFrom(i, ancestor).orphans =
           {b \in Block : OnChain(b, pipe.at) /\ Number(b) > Number(ancestor)}
<1>1. pipe.at \in Block /\ Number(pipe.at) \in Nat /\ Number(ancestor) \in Nat
  BY Typed, BlockFacts DEF Inv, ControlInv
<1>2. ASSUME NEW n \in Number(ancestor) + 1 .. Number(pipe.at)
      PROVE  /\ BlockAt(pipe.at, n) \in Block /\ OnChain(BlockAt(pipe.at, n), pipe.at)
             /\ Number(BlockAt(pipe.at, n)) > Number(ancestor)
  <2>1. n \in 0 .. Number(pipe.at)
    BY <1>1
  <2>2. /\ BlockAt(pipe.at, n) \in Block /\ OnChain(BlockAt(pipe.at, n), pipe.at)
        /\ Number(BlockAt(pipe.at, n)) = n
    BY <1>1, <2>1, BlockAtFacts
  <2>3. n > Number(ancestor)
    BY <1>1
  <2>4. QED  BY <2>2, <2>3
<1>3. ASSUME NEW b \in Block, OnChain(b, pipe.at), Number(b) > Number(ancestor)
      PROVE  Number(b) \in Number(ancestor) + 1 .. Number(pipe.at)
             /\ b = BlockAt(pipe.at, Number(b))
  <2>1. Number(b) \in Nat /\ Number(b) <= Number(pipe.at)
    BY <1>1, <1>3, BlockFacts, AncestorHeights
  <2>2. QED  BY <1>1, <1>3, <2>1, BlockAtFacts
<1>4. PlanFrom(i, ancestor).orphans =
        {BlockAt(pipe.at, n) : n \in Number(ancestor) + 1 .. Number(pipe.at)}
  BY DEF PlanFrom
<1>5. QED  BY <1>2, <1>3, <1>4

\* A plan that passes build()'s checks is as PlanShape says, whatever the node
\* answered while the walk went on.
LEMMA BuiltPlanShape ==
  ASSUME Inv, BranchInv, pc = "plan",
         NEW ancestor \in Block, ancestor = Parent(Head(replacements)),
         NEW i \in 1 .. Len(checkpoints), Eligible(i, ancestor), Buildable(i, ancestor),
         NEW p, p = PlanFrom(i, ancestor)
  PROVE  /\ PlanShape(p) /\ OnChain(ancestor, pipe.at) /\ p.ancestor = ancestor
         /\ PlanTip(p) = Last(replacements)
         /\ \A k \in 1 .. Len(p.replay) :
              \/ p.replay[k] \in raw
              \/ \E m \in 1 .. Len(replacements) : p.replay[k] = replacements[m]
<1> DEFINE base == Number(checkpoints[i].at)
           kept == Number(ancestor) - base
<1>1. /\ pipe.at \in Block /\ replacements \in Seq(Block) /\ replacements # <<>>
      /\ checkpoints[i].at \in Block
  BY Typed DEF Inv, ControlInv, TypeOK, EngineTypeOK
<1>2. /\ Len(replacements) \in Nat \ {0} /\ Number(ancestor) \in Nat
      /\ Number(pipe.at) \in Nat
      /\ \A k \in 1 .. Len(replacements) : replacements[k] \in Block
  BY <1>1, BlockFacts, EmptySeq, LenProperties, ElementOfSeq
<1>3. /\ PlanTip(p) = Last(replacements) /\ p.checkpoint = i /\ p.ancestor = ancestor
      /\ p \in RecoveryPlan /\ p.replay # <<>>
  BY PlanFacts DEF PlanFrom
<1>4. /\ base \in Nat /\ kept \in Nat /\ Number(ancestor) <= Number(pipe.at)
      /\ Number(replacements[1]) = Number(ancestor) + 1
      /\ Len(p.replay) = kept + Len(replacements)
      /\ \A k \in 1 .. kept : p.replay[k] = BlockAt(pipe.at, base + k)
      /\ \A k \in 1 .. Len(replacements) : p.replay[kept + k] = replacements[k]
      /\ \A k \in 1 .. Len(replacements) :
           Number(replacements[k]) = Number(ancestor) + k
  <2> HIDE DEF base, kept
  <2>1. base = Number(checkpoints[i].at) /\ kept = Number(ancestor) - base
    BY DEF base, kept
  <2>2. QED  BY <2>1, PlanReplays
<1>5. /\ OnChain(checkpoints[i].at, pipe.at) /\ OnChain(ancestor, pipe.at)
      /\ Number(checkpoints[i].at) <= Number(ancestor)
      /\ \A n \in base + 1 .. Number(pipe.at) : Derived(BlockAt(pipe.at, n))
      /\ Chained(ancestor, replacements)
  BY DEF Eligible, Buildable
<1>6. OnChain(checkpoints[i].at, ancestor)
  BY <1>1, <1>5, AncestorsAreOrdered
<1>7. /\ Last(replacements) = replacements[Len(replacements)]
      /\ OnChain(ancestor, Last(replacements))
      /\ OnChain(replacements[1], Last(replacements))
  <2>1. Last(replacements) = replacements[Len(replacements)]
    BY DEF Last
  <2>2. Len(replacements) \in 1 .. Len(replacements) /\ 1 \in 1 .. Len(replacements)
    BY <1>2
  <2>3. QED  BY <1>1, <1>5, <2>1, <2>2, ChainedFacts
<1>8. ASSUME NEW k \in 1 .. Len(p.replay)
      PROVE  /\ Number(p.replay[k]) = base + k
             /\ Number(p.replay[k]) <= Number(ancestor) => Derived(p.replay[k])
             /\ \/ p.replay[k] \in raw
                \/ \E m \in 1 .. Len(replacements) : p.replay[k] = replacements[m]
  <2> HIDE DEF base, kept
  <2>1. /\ base \in Nat /\ kept \in Nat /\ Number(ancestor) = base + kept
        /\ Number(ancestor) <= Number(pipe.at) /\ Number(pipe.at) \in Nat
        /\ Len(replacements) \in Nat /\ k \in 1 .. kept + Len(replacements)
    BY <1>2, <1>4 DEF base, kept
  <2>2. CASE k <= kept
    <3>1. /\ k \in 1 .. kept /\ base + k \in base + 1 .. Number(pipe.at)
          /\ base + k \in 0 .. Number(pipe.at)
      BY <2>1, <2>2
    <3>2. p.replay[k] = BlockAt(pipe.at, base + k)
      BY <1>4, <3>1
    <3>3. Number(p.replay[k]) = base + k /\ p.replay[k] \in Block
      BY <1>1, <3>1, <3>2, BlockAtFacts
    <3>4. Derived(p.replay[k])
      BY <1>5, <3>1, <3>2
    <3>5. p.replay[k] \in raw
      BY <3>3, <3>4 DEF BranchInv, StoreInv, RowInv
    <3>6. QED  BY <3>3, <3>4, <3>5
  <2>3. CASE k > kept
    <3>1. k - kept \in 1 .. Len(replacements) /\ k = kept + (k - kept)
      BY <2>1, <2>3
    <3>2. p.replay[k] = replacements[k - kept]
      BY <1>4, <3>1
    <3>3. Number(p.replay[k]) = Number(ancestor) + (k - kept)
      BY <1>4, <3>1, <3>2
    <3>4. Number(ancestor) + (k - kept) = base + k /\ ~(base + k <= Number(ancestor))
      BY <2>1, <2>3
    <3>5. QED  BY <3>1, <3>2, <3>3, <3>4
  <2>4. QED  BY <1>4, <2>2, <2>3
<1>9. ASSUME NEW b \in p.orphans PROVE ~OnChain(b, Last(replacements))
  <2>1. b \in Block /\ OnChain(b, pipe.at) /\ Number(b) > Number(ancestor)
    BY <1>9, PlanOrphans
  <2>2. replacements[1] \in Block /\ ~OnChain(replacements[1], pipe.at)
    <3>1. 1 \in 1 .. Len(replacements)
      BY <1>2
    <3>2. QED  BY <1>2, <3>1 DEF BranchInv, ProcessInv, WalkInv
  <2>3. Number(replacements[1]) <= Number(b)
    BY <1>2, <1>4, <2>1, BlockFacts
  <2>4. Last(replacements) \in Block
    BY <1>2, <1>7
  <2>5. ASSUME OnChain(b, Last(replacements)) PROVE FALSE
    <3>1. OnChain(replacements[1], b)
      BY <1>7, <2>1, <2>2, <2>3, <2>4, <2>5, AncestorsAreOrdered
    <3>2. OnChain(replacements[1], pipe.at)
      BY <1>1, <2>1, <2>2, <3>1, OnChainTransitive
    <3>3. QED  BY <2>2, <3>2
  <2>6. QED  BY <2>5
<1>10. PlanShape(p)
  BY <1>3, <1>6, <1>7, <1>8, <1>9 DEF PlanShape
<1>11. QED  BY <1>3, <1>5, <1>8, <1>10

LEMMA BuildPlanBranch == ASSUME Inv, BranchInv, BuildPlan PROVE BranchInv'
<1>1. /\ pc = "plan" /\ replacements \in Seq(Block) /\ replacements # <<>>
      /\ cursor # None /\ pipe # None /\ UNCHANGED storeVars
  BY DEF BuildPlan, Inv, ControlInv, TypeOK, EngineTypeOK
<1>2. StoreInv'
  BY <1>1, StoreUnchanged DEF BranchInv, storeVars
<1> DEFINE ancestor == Parent(Head(replacements))
<1>3. ancestor \in Block
  <2>1. 1 \in 1 .. Len(replacements)
    BY <1>1, EmptySeq, LenProperties
  <2>2. replacements[1] \in Block
    BY <1>1, <2>1, ElementOfSeq
  <2>3. QED  BY <2>2, ParentFacts
<1>4. CASE RecoveryFails
  BY <1>1, <1>4, ExitBranch
<1>5. CASE \E i \in 1 .. Len(checkpoints) :
             /\ SelectsCheckpoint(i, ancestor) /\ Buildable(i, ancestor)
             /\ plan' = PlanFrom(i, ancestor)
             /\ pc' = "append" /\ step' = 1
             /\ UNCHANGED <<pipe, incoming, old, replacements, outcome>>
  <2>1. ancestor = Parent(Head(replacements))
    OBVIOUS
  <2> HIDE DEF ancestor
  <2>2. PICK i \in 1 .. Len(checkpoints) :
          /\ Eligible(i, ancestor) /\ Buildable(i, ancestor)
          /\ plan' = PlanFrom(i, ancestor)
          /\ pc' = "append" /\ step' = 1
          /\ UNCHANGED <<pipe, incoming, old, replacements, outcome>>
    BY <1>5, Zenon DEF SelectsCheckpoint
  <2>3. PICK p : p = PlanFrom(i, ancestor)
    OBVIOUS
  <2>4. /\ PlanShape(p) /\ OnChain(ancestor, pipe.at) /\ p.ancestor = ancestor
        /\ PlanTip(p) = Last(replacements)
        /\ \A k \in 1 .. Len(p.replay) :
             \/ p.replay[k] \in raw
             \/ \E m \in 1 .. Len(replacements) : p.replay[k] = replacements[m]
    BY <1>1, <1>3, <2>1, <2>2, <2>3, BuiltPlanShape
  <2>5. p.orphans = {b \in Block : OnChain(b, pipe.at) /\ Number(b) > Number(ancestor)}
    BY <1>1, <1>3, <2>2, <2>3, PlanOrphans
  <2>6. /\ pipe.at = cursor.hash /\ Last(replacements) = incoming
        /\ UNCHANGED <<raw, cursor, derived, checkpoints, job>> /\ plan' = p
    BY <1>1, <2>2, <2>3 DEF BranchInv, ProcessInv, PipeInv, WalkInv, storeVars
  <2>7. PipeInv'
    BY <1>1, <2>2, <2>6 DEF BranchInv, ProcessInv, PipeInv
  <2>8. WalkInv'
    BY <1>1, <2>2, <2>6 DEF BranchInv, ProcessInv, WalkInv
  <2>9. DraftInv'
    <3>1. PlanShape(p)' <=> PlanShape(p)
      BY <2>6 DEF PlanShape, Derived
    <3>2. PlanShape(plan)'
      BY <2>4, <2>6, <3>1
    <3>3. incoming' = PlanTip(plan')
      BY <2>2, <2>4, <2>6
    <3>4. /\ OnChain(plan'.ancestor, cursor'.hash)
          /\ plan'.orphans = {b \in Block : OnChain(b, cursor'.hash)
                                             /\ Number(b) > Number(plan'.ancestor)}
      BY <2>4, <2>5, <2>6
    <3>5. \A k \in 1 .. Len(plan'.replay) :
             \/ plan'.replay[k] \in raw'
             \/ \E m \in step' .. Len(replacements') : plan'.replay[k] = replacements'[m]
      BY <2>2, <2>4, <2>6
    <3>6. QED  BY <2>2, <3>2, <3>3, <3>4, <3>5 DEF DraftInv, PlanTip
  <2>10. ReplayInv'
    BY <2>2 DEF ReplayInv
  <2>11. QED  BY <1>2, <2>7, <2>8, <2>9, <2>10 DEF BranchInv, ProcessInv
<1>6. QED  BY <1>4, <1>5, Zenon DEF BuildPlan

\* A block of the new branch is stored under the old cursor: it is at most at the
\* height the cursor waits for, and there it is the block that broke the chain.
LEMMA AppendReplacementBranch == ASSUME Inv, BranchInv, AppendReplacement PROVE BranchInv'
<1>1. /\ pc = "append" /\ replacements \in Seq(Block) /\ pipe # None
      /\ step \in 1 .. Len(replacements) /\ cursor \in Cursor /\ cursor # None
      /\ plan # None /\ job = None
  BY DEF AppendReplacement, Inv, ControlInv, PlanInv, TypeOK, StoreTypeOK, EngineTypeOK
<1>2. /\ raw' = raw \cup {replacements[step]}
      /\ cursor' = cursor
      /\ UNCHANGED <<derived, checkpoints, job, pipe, incoming, old, replacements, plan>>
  <2>1. cursor' = [next |-> cursor.next, hash |-> cursor.hash]
    BY DEF AppendReplacement, AppendRaw
  <2>2. cursor' = cursor
    BY <1>1, <2>1 DEF Cursor
  <2>3. QED  BY <2>2 DEF AppendReplacement, AppendRaw
<1>3. /\ Len(replacements) \in Nat /\ replacements[step] \in Block /\ cursor.next \in Nat
      /\ Last(replacements) = replacements[Len(replacements)]
  BY <1>1, ElementOfSeq, LenProperties DEF Cursor, Last
<1>4. \/ step = Len(replacements) /\ pc' = "begin"
      \/ step # Len(replacements) /\ pc' = "append" /\ step' = step + 1
  BY <1>1 DEF AppendReplacement
<1>5. /\ pipe.at = cursor.hash /\ checkpoints # <<>> /\ pipe = Last(checkpoints)
      /\ Last(replacements) = incoming /\ Parent(incoming) # cursor.hash
      /\ Number(replacements[step]) = cursor.next - Len(replacements) + step
  BY <1>1 DEF BranchInv, ProcessInv, PipeInv, WalkInv
<1>6. StoreInv'
  <2>1. CursorInv'
    <3>1. /\ Number(replacements[step]) <= cursor.next
          /\ Number(replacements[step]) = cursor.next => step = Len(replacements)
      BY <1>1, <1>3, <1>5
    <3>2. Number(replacements[step]) = cursor.next => Parent(replacements[step]) # cursor.hash
      BY <1>3, <1>5, <3>1
    <3>3. QED  BY <1>1, <1>2, <3>1, <3>2 DEF BranchInv, StoreInv, CursorInv
  <2>2. RowInv'
    BY <1>2 DEF BranchInv, StoreInv, RowInv, Derived
  <2>3. PublishedFollowsCursor'
    BY <1>2 DEF BranchInv, StoreInv, PublishedFollowsCursor, Canonical, Derived, IsCanonical
  <2>4. CheckpointInv'
    BY <1>2, <1>5 DEF CheckpointInv
  <2>5. JobInv'
    BY <1>1, <1>2 DEF JobInv
  <2>6. QED  BY <2>1, <2>2, <2>3, <2>4, <2>5 DEF StoreInv
<1>7. PipeInv'
  BY <1>1, <1>2, <1>4 DEF BranchInv, ProcessInv, PipeInv
<1>8. WalkInv'
  BY <1>1, <1>2, <1>4 DEF BranchInv, ProcessInv, WalkInv
<1>9. DraftInv'
  <2>1. PlanShape(plan)' <=> PlanShape(plan)
    BY <1>2 DEF PlanShape, Derived
  <2>2. PlanShape(plan)' /\ incoming' \in {None, PlanTip(plan')}
    BY <1>1, <1>2, <2>1 DEF BranchInv, ProcessInv, DraftInv
  <2>3. /\ OnChain(plan'.ancestor, cursor'.hash)
        /\ plan'.orphans = {b \in Block : OnChain(b, cursor'.hash)
                                             /\ Number(b) > Number(plan'.ancestor)}
    BY <1>1, <1>2 DEF BranchInv, ProcessInv, DraftInv
  <2>4. ASSUME NEW i \in 1 .. Len(plan.replay)
        PROVE  \/ plan.replay[i] \in raw'
               \/ step # Len(replacements) /\ \E k \in step + 1 .. Len(replacements) :
                    plan.replay[i] = replacements[k]
    <3>1. \/ plan.replay[i] \in raw
          \/ \E k \in step .. Len(replacements) : plan.replay[i] = replacements[k]
      BY <1>1 DEF BranchInv, ProcessInv, DraftInv
    <3>2. \A k \in step .. Len(replacements) :
            k = step \/ (step # Len(replacements) /\ k \in step + 1 .. Len(replacements))
      BY <1>1, <1>3
    <3>3. QED  BY <1>2, <3>1, <3>2
  <2>5. QED  BY <1>2, <1>4, <2>2, <2>3, <2>4 DEF DraftInv, PlanTip
<1>10. ReplayInv'
  BY <1>4 DEF ReplayInv
<1>11. QED  BY <1>6, <1>7, <1>8, <1>9, <1>10 DEF BranchInv, ProcessInv

\* What begin_recovery does to the rows of derived_blocks.
LEMMA BeginRows ==
  ASSUME TypeOK, NEW p, BeginRecovery(p)
  PROVE  /\ \A c \in Block : derived'[c] # None <=> Derived(c)
         /\ \A c \in Block : (derived'[c] # None /\ derived'[c].canonical)
                               <=> IsCanonical(c) /\ c \notin p.orphans
<1> SUFFICES ASSUME NEW c \in Block
             PROVE  /\ derived'[c] # None <=> Derived(c)
                    /\ (derived'[c] # None /\ derived'[c].canonical)
                               <=> IsCanonical(c) /\ c \notin p.orphans
  OBVIOUS
<1>1. derived[c] \in DerivedBlock \cup {None} /\ None \notin DerivedBlock
  BY EngineAssumption DEF TypeOK, StoreTypeOK
<1>2. derived'[c] = IF c \in p.orphans /\ Derived(c)
                      THEN [derived[c] EXCEPT !.canonical = FALSE] ELSE derived[c]
  BY DEF BeginRecovery
<1>3. CASE c \in p.orphans /\ Derived(c)
  <2>1. derived[c] \in DerivedBlock
    BY <1>1, <1>3 DEF Derived
  <2>2. derived'[c] = [derived[c] EXCEPT !.canonical = FALSE]
    BY <1>2, <1>3
  <2>3. derived'[c] \in DerivedBlock /\ derived'[c].canonical = FALSE
    BY <2>1, <2>2 DEF DerivedBlock
  <2>4. derived'[c] # None
    BY <1>1, <2>3
  <2>5. QED  BY <1>3, <2>3, <2>4, Zenon
<1>4. CASE ~(c \in p.orphans /\ Derived(c))
  <2>1. derived'[c] = derived[c]
    BY <1>2, <1>4
  <2>2. QED  BY <1>4, <2>1, Zenon DEF IsCanonical, Derived
<1>5. QED  BY <1>3, <1>4

\* A plan's shape survives every step that keeps its checkpoint and derived rows.
LEMMA PlanShapeStays ==
  ASSUME NEW p \in RecoveryPlan, p.replay # <<>>, PlanShape(p),
         checkpoints'[p.checkpoint] = checkpoints[p.checkpoint],
         \A c \in Block : Derived(c) => derived'[c] # None
  PROVE  PlanShape(p)'
<1>1. \A i \in 1 .. Len(p.replay) : p.replay[i] \in Block
  BY PlanTyped
<1>2. \A i \in 1 .. Len(p.replay) : Derived(p.replay[i]) => derived'[p.replay[i]] # None
  BY <1>1
<1>3. PlanShape(p)' <=>
        /\ OnChain(checkpoints'[p.checkpoint].at, p.ancestor) /\ OnChain(p.ancestor, PlanTip(p))
        /\ \A i \in 1 .. Len(p.replay) :
             /\ Number(p.replay[i]) = Number(checkpoints'[p.checkpoint].at) + i
             /\ Number(p.replay[i]) <= Number(p.ancestor) => derived'[p.replay[i]] # None
        /\ \A b \in p.orphans : ~OnChain(b, PlanTip(p))
  BY DEF PlanShape, Derived, PlanTip
<1>4. QED  BY <1>2, <1>3 DEF PlanShape

\* The job and the orphans are one commit: afterwards exactly the derived blocks up
\* to the ancestor are published, and, when the recovery is resumed, the blocks it
\* had already published again.
LEMMA BeginBranch == ASSUME Inv, BranchInv, Begin PROVE BranchInv'
<1>1. /\ pc = "begin" /\ plan \in RecoveryPlan /\ plan # None /\ plan.replay # <<>>
      /\ plan.checkpoint \in 1 .. Len(checkpoints) /\ cursor # None
      /\ job \in {None, plan}
  BY DEF Begin, Inv, ControlInv, PlanInv, HeightInv, TypeOK, EngineTypeOK
<1>2. CASE RecoveryFails /\ UNCHANGED storeVars
  BY <1>2, ExitBranch
<1>3. CASE /\ Applies(plan) /\ BeginRecovery(plan)
           /\ pipe' = checkpoints[plan.checkpoint]
           /\ pc' = "replay" /\ step' = 1
           /\ UNCHANGED <<incoming, old, replacements, plan, outcome>>
  <2> DEFINE canonicalNow(c) == derived'[c] # None /\ derived'[c].canonical
  <2>1. PICK p : p = plan
    OBVIOUS
  <2>2. /\ job' = p /\ plan' = p /\ UNCHANGED <<raw, cursor, checkpoints>>
        /\ p \in RecoveryPlan /\ p # None /\ p.replay # <<>>
    BY <1>1, <1>3, <2>1 DEF BeginRecovery
  <2>3. /\ \A c \in Block : derived'[c] # None <=> Derived(c)
        /\ \A c \in Block : canonicalNow(c) <=> IsCanonical(c) /\ c \notin p.orphans
    BY <1>3, <2>1, BeginRows DEF Inv
  <2> HIDE DEF canonicalNow
  <2>4. /\ p.ancestor \in Block /\ p.orphans \subseteq Block
        /\ p.replay \in Seq(Block) /\ Len(p.replay) \in Nat \ {0}
        /\ \A i \in 1 .. Len(p.replay) : p.replay[i] \in Block
        /\ PlanTip(p) \in Block /\ PlanTip(p) = p.replay[Len(p.replay)]
    BY <2>2, PlanTyped
  <2>5. /\ PlanShape(p) /\ incoming \in {None, PlanTip(p)}
        /\ \A i \in 1 .. Len(p.replay) : p.replay[i] \in raw
        /\ job = None => /\ OnChain(p.ancestor, cursor.hash)
                         /\ p.orphans = {b \in Block : OnChain(b, cursor.hash)
                                                         /\ Number(b) > Number(p.ancestor)}
    BY <1>1, <2>1 DEF BranchInv, ProcessInv, DraftInv
  <2>6. /\ OnChain(p.ancestor, PlanTip(p))
        /\ \A b \in p.orphans : ~OnChain(b, PlanTip(p))
        /\ \A i \in 1 .. Len(p.replay) :
             Number(p.replay[i]) <= Number(p.ancestor) => Derived(p.replay[i])
    BY <2>5 DEF PlanShape
  <2>7. \A j \in 1 .. Len(p.replay) :
           /\ OnChain(p.replay[j], PlanTip(p))
           /\ \A i \in 1 .. j : OnChain(p.replay[i], p.replay[j])
    <3>1. checkpoints[p.checkpoint].at \in Block
      BY <1>1, <2>1, Typed DEF Inv
    <3>2. Chained(checkpoints[p.checkpoint].at, p.replay)
      BY <1>3, <2>1 DEF Applies
    <3>3. \A j \in 1 .. Len(p.replay) : \A i \in 1 .. j : OnChain(p.replay[i], p.replay[j])
      BY <2>4, <3>1, <3>2, ChainedFacts
    <3>4. Len(p.replay) \in 1 .. Len(p.replay)
      BY <2>4
    <3>5. QED  BY <2>4, <3>3, <3>4
  <2>8. job = None =>
          \A b \in Block : IsCanonical(b) <=> Derived(b) /\ OnChain(b, cursor.hash)
    BY <1>1 DEF BranchInv, StoreInv, PublishedFollowsCursor, Canonical
  <2>9. job # None =>
          /\ \A b \in Block : Derived(b) /\ OnChain(b, p.ancestor) => IsCanonical(b)
          /\ \A b \in Block : IsCanonical(b) => OnChain(b, PlanTip(p))
          /\ \A j \in 1 .. Len(p.replay) : IsCanonical(p.replay[j]) =>
               \A i \in 1 .. j : IsCanonical(p.replay[i])
    BY <1>1, <2>1 DEF BranchInv, StoreInv, JobInv, Canonical
  <2>10. cursor.hash \in Block
    BY <1>1, Typed DEF Inv
  <2>11. ASSUME NEW b \in Block, Derived(b), OnChain(b, p.ancestor) PROVE canonicalNow(b)
    <3>1. OnChain(b, PlanTip(p))
      BY <2>4, <2>6, <2>11, OnChainTransitive
    <3>2. IsCanonical(b)
      BY <2>4, <2>5, <2>8, <2>9, <2>10, <2>11, OnChainTransitive
    <3>3. QED  BY <2>3, <2>6, <3>1, <3>2
  <2>12. ASSUME NEW b \in Block, canonicalNow(b), job = None PROVE OnChain(b, p.ancestor)
    <3>1. OnChain(b, cursor.hash) /\ ~(Number(b) > Number(p.ancestor))
      BY <2>3, <2>5, <2>8, <2>12
    <3>2. Number(b) <= Number(p.ancestor)
      BY <2>4, <3>1, BlockFacts
    <3>3. QED  BY <2>4, <2>5, <2>10, <2>12, <3>1, <3>2, AncestorsAreOrdered
  <2>13. ASSUME NEW b \in Block, canonicalNow(b) PROVE OnChain(b, PlanTip(p))
    <3>1. CASE job = None
      BY <2>4, <2>6, <2>12, <2>13, <3>1, OnChainTransitive
    <3>2. CASE job # None
      BY <2>3, <2>9, <2>13, <3>2
    <3>3. QED  BY <3>1, <3>2
  <2>14. ASSUME NEW j \in 1 .. Len(p.replay), canonicalNow(p.replay[j]), NEW i \in 1 .. j
         PROVE  canonicalNow(p.replay[i])
    <3>1. i \in 1 .. Len(p.replay) /\ p.replay[i] \in Block /\ p.replay[j] \in Block
      BY <2>4
    <3>2. CASE job = None
      <4>1. OnChain(p.replay[i], p.replay[j]) /\ OnChain(p.replay[j], p.ancestor)
        BY <2>7, <2>12, <2>14, <3>1, <3>2
      <4>2. OnChain(p.replay[i], p.ancestor)
        BY <2>4, <3>1, <4>1, OnChainTransitive
      <4>3. Number(p.replay[i]) <= Number(p.ancestor)
        BY <2>4, <3>1, <4>2, AncestorHeights
      <4>4. Derived(p.replay[i])
        BY <2>6, <3>1, <4>3
      <4>5. QED  BY <2>11, <3>1, <4>2, <4>4
    <3>3. CASE job # None
      <4>1. IsCanonical(p.replay[j])
        BY <2>3, <2>14, <3>1
      <4>2. IsCanonical(p.replay[i])
        BY <2>9, <3>3, <4>1
      <4>3. p.replay[i] \notin p.orphans
        BY <2>6, <2>7, <3>1
      <4>4. QED  BY <2>3, <3>1, <4>2, <4>3
    <3>4. QED  BY <3>2, <3>3
  <2>15. PlanShape(p)'
    BY <2>2, <2>3, <2>5, PlanShapeStays
  <2>16. StoreInv'
    <3>1. CursorInv'
      BY <2>2 DEF BranchInv, StoreInv, CursorInv
    <3>2. RowInv'
      <4>1. \A i \in 1 .. Len(checkpoints) : checkpoints[i].at \in Block
        BY Typed DEF Inv
      <4>2. QED  BY <2>2, <2>3, <4>1 DEF BranchInv, StoreInv, RowInv, Derived
    <3>3. PublishedFollowsCursor' /\ CheckpointInv'
      BY <2>2 DEF PublishedFollowsCursor, CheckpointInv
    <3>4. JobInv'
      <4>1. Applies(p)'
        BY <1>3, <2>1, <2>2 DEF Applies
      <4>2. \A b \in Block : Derived(b)' /\ OnChain(b, p.ancestor) => IsCanonical(b)'
        BY <2>3, <2>11 DEF canonicalNow, IsCanonical, Derived
      <4>3. \A b \in Canonical' : OnChain(b, PlanTip(p))
        BY <2>13 DEF canonicalNow, Canonical, IsCanonical, Derived
      <4>4. \A j \in 1 .. Len(p.replay) : IsCanonical(p.replay[j])' =>
               \A i \in 1 .. j : IsCanonical(p.replay[i])'
        BY <2>14 DEF canonicalNow, IsCanonical, Derived
      <4>5. \A i \in 1 .. Len(p.replay) : p.replay[i] \in raw'
        BY <2>2, <2>5
      <4>6. QED  BY <2>2, <2>15, <4>1, <4>2, <4>3, <4>4, <4>5 DEF JobInv, PlanTip
    <3>5. QED  BY <3>1, <3>2, <3>3, <3>4 DEF StoreInv
  <2>17. PipeInv' /\ WalkInv'
    BY <1>3 DEF PipeInv, WalkInv
  <2>18. DraftInv'
    BY <1>3, <2>2, <2>5, <2>15 DEF DraftInv, PlanTip
  <2>19. ReplayInv'
    BY <1>1, <1>3, <2>1, <2>2 DEF ReplayInv
  <2>20. QED  BY <2>16, <2>17, <2>18, <2>19 DEF BranchInv, ProcessInv
<1>4. QED  BY <1>2, <1>3, Zenon DEF Begin

\* What a pending job says of its replayed blocks, in the terms the next steps use.
LEMMA PendingJob ==
  ASSUME Inv, BranchInv, NEW p, p = job, p # None
  PROVE  /\ p \in RecoveryPlan /\ p.replay # <<>> /\ cursor # None
         /\ p.ancestor \in Block /\ Len(p.replay) \in Nat \ {0}
         /\ \A i \in 1 .. Len(p.replay) : p.replay[i] \in Block /\ p.replay[i] \in raw
         /\ PlanTip(p) \in Block /\ PlanTip(p) = p.replay[Len(p.replay)]
         /\ p.checkpoint \in 1 .. Len(checkpoints) /\ checkpoints[p.checkpoint].at \in Block
         /\ PlanShape(p) /\ Applies(p)
         /\ \A i \in 1 .. Len(p.replay) :
              /\ Number(p.replay[i]) = Number(checkpoints[p.checkpoint].at) + i
              /\ OnChain(checkpoints[p.checkpoint].at, p.replay[i])
              /\ OnChain(p.replay[i], PlanTip(p))
         /\ \A b \in Block : Derived(b) /\ OnChain(b, p.ancestor) => IsCanonical(b)
         /\ \A b \in Block : IsCanonical(b) => OnChain(b, PlanTip(p))
         /\ \A j \in 1 .. Len(p.replay) : IsCanonical(p.replay[j]) =>
              \A i \in 1 .. j : IsCanonical(p.replay[i])
<1>1. p \in RecoveryPlan /\ p.replay # <<>> /\ cursor # None
      /\ p.checkpoint \in 1 .. Len(checkpoints)
  BY DEF Inv, PlanInv, HeightInv, TypeOK, StoreTypeOK
<1>2. /\ p.ancestor \in Block /\ p.replay \in Seq(Block) /\ Len(p.replay) \in Nat \ {0}
      /\ \A i \in 1 .. Len(p.replay) : p.replay[i] \in Block
      /\ PlanTip(p) \in Block /\ PlanTip(p) = p.replay[Len(p.replay)]
  BY <1>1, PlanTyped
<1>3. checkpoints[p.checkpoint].at \in Block
  BY <1>1, Typed DEF Inv
<1>4. /\ PlanShape(p) /\ Applies(p) /\ \A i \in 1 .. Len(p.replay) : p.replay[i] \in raw
      /\ \A b \in Block : Derived(b) /\ OnChain(b, p.ancestor) => IsCanonical(b)
      /\ \A b \in Block : IsCanonical(b) => OnChain(b, PlanTip(p))
      /\ \A j \in 1 .. Len(p.replay) : IsCanonical(p.replay[j]) =>
              \A i \in 1 .. j : IsCanonical(p.replay[i])
  BY DEF BranchInv, StoreInv, JobInv, Canonical
<1>5. \A i \in 1 .. Len(p.replay) :
         /\ OnChain(checkpoints[p.checkpoint].at, p.replay[i])
         /\ OnChain(p.replay[i], PlanTip(p))
  <2>1. Chained(checkpoints[p.checkpoint].at, p.replay)
    BY <1>4 DEF Applies
  <2>2. \A j \in 1 .. Len(p.replay) :
          /\ OnChain(checkpoints[p.checkpoint].at, p.replay[j])
          /\ \A i \in 1 .. j : OnChain(p.replay[i], p.replay[j])
    BY <1>2, <1>3, <2>1, ChainedFacts
  <2>3. Len(p.replay) \in 1 .. Len(p.replay)
    BY <1>2
  <2>4. QED  BY <1>2, <2>2, <2>3
<1>6. \A i \in 1 .. Len(p.replay) :
         Number(p.replay[i]) = Number(checkpoints[p.checkpoint].at) + i
  BY <1>4 DEF PlanShape
<1>7. QED  BY <1>1, <1>2, <1>3, <1>4, <1>5, <1>6

\* A block of the plan's branch above its checkpoint is one it replays.
LEMMA ReplayedAt ==
  ASSUME Inv, BranchInv, NEW p, p = job, p # None, NEW c \in Block,
         OnChain(c, PlanTip(p)), Number(c) > Number(checkpoints[p.checkpoint].at)
  PROVE  /\ Number(c) - Number(checkpoints[p.checkpoint].at) \in 1 .. Len(p.replay)
         /\ c = p.replay[Number(c) - Number(checkpoints[p.checkpoint].at)]
<1> DEFINE base == Number(checkpoints[p.checkpoint].at)
<1>1. /\ Len(p.replay) \in Nat \ {0} /\ PlanTip(p) \in Block
      /\ checkpoints[p.checkpoint].at \in Block
      /\ PlanTip(p) = p.replay[Len(p.replay)]
      /\ \A i \in 1 .. Len(p.replay) :
           /\ p.replay[i] \in Block /\ OnChain(p.replay[i], PlanTip(p))
           /\ Number(p.replay[i]) = base + i
  BY PendingJob
<1>2. base \in Nat /\ Number(c) \in Nat
  BY <1>1, BlockFacts
<1> HIDE DEF base
<1>3. Len(p.replay) \in 1 .. Len(p.replay)
  BY <1>1
<1>4. Number(PlanTip(p)) = base + Len(p.replay)
  BY <1>1, <1>3
<1>5. Number(c) <= Number(PlanTip(p))
  BY <1>1, AncestorHeights
<1>6. Number(c) > base
  BY DEF base
<1>7. PICK i : i = Number(c) - base
  OBVIOUS
<1>8. i \in 1 .. Len(p.replay) /\ base + i = Number(c)
  BY <1>1, <1>2, <1>4, <1>5, <1>6, <1>7
<1>9. p.replay[i] \in Block /\ OnChain(p.replay[i], PlanTip(p))
      /\ Number(p.replay[i]) = Number(c)
  BY <1>1, <1>8
<1>10. c = p.replay[i]
  BY <1>1, <1>9, AncestorHeights
<1>11. QED  BY <1>7, <1>8, <1>10 DEF base

\* The next block is published: the first part of the plan that is published grows.
LEMMA ReplayStepBranch == ASSUME Inv, BranchInv, ReplayStep PROVE BranchInv'
<1>1. pc = "replay" /\ job = plan /\ plan # None /\ step \in 1 .. Len(plan.replay)
      /\ pipe # None
  BY DEF ReplayStep, Inv, ControlInv, PlanInv
<1>2. CASE RecoveryFails /\ UNCHANGED storeVars
  BY <1>2, ExitBranch
<1>3. CASE /\ Derive(plan.replay[step])
           /\ IF step = Len(plan.replay) THEN pc' = "finish" /\ step' = 0
              ELSE pc' = pc /\ step' = step + 1
           /\ UNCHANGED <<incoming, old, replacements, plan, outcome>>
  <2> DEFINE canonicalNow(c) == derived'[c] # None /\ derived'[c].canonical
  <2>1. PICK p : p = plan
    OBVIOUS
  <2>2. PICK b : b = p.replay[step]
    OBVIOUS
  <2>3. PICK n : n = step
    OBVIOUS
  <2> DEFINE base == checkpoints[p.checkpoint].at
  <2>4. /\ p \in RecoveryPlan /\ p.replay # <<>> /\ cursor # None
        /\ p.ancestor \in Block /\ Len(p.replay) \in Nat \ {0}
        /\ \A i \in 1 .. Len(p.replay) : p.replay[i] \in Block /\ p.replay[i] \in raw
        /\ PlanTip(p) \in Block
        /\ p.checkpoint \in 1 .. Len(checkpoints) /\ base \in Block
        /\ PlanShape(p) /\ Applies(p)
        /\ \A i \in 1 .. Len(p.replay) :
             /\ Number(p.replay[i]) = Number(base) + i
             /\ OnChain(base, p.replay[i])
             /\ OnChain(p.replay[i], PlanTip(p))
        /\ \A c \in Block : Derived(c) /\ OnChain(c, p.ancestor) => IsCanonical(c)
        /\ \A c \in Block : IsCanonical(c) => OnChain(c, PlanTip(p))
        /\ \A j \in 1 .. Len(p.replay) : IsCanonical(p.replay[j]) =>
              \A i \in 1 .. j : IsCanonical(p.replay[i])
    BY <1>1, <2>1, PendingJob
  <2>5. /\ n \in 1 .. Len(p.replay) /\ b = p.replay[n] /\ b \in Block /\ b \in raw
        /\ n \in Nat
    BY <1>1, <2>1, <2>2, <2>3, <2>4
  <2>6. /\ \A c \in Block : derived'[c] # None <=> Derived(c) \/ c = b
        /\ \A c \in Block : canonicalNow(c) <=> IsCanonical(c) \/ c = b
        /\ pipe'.at = b /\ UNCHANGED <<raw, cursor, checkpoints, job>>
    BY <1>1, <1>3, <2>1, <2>2, <2>5, DeriveRows
  <2>7. job' = p /\ plan' = p /\ p # None /\ incoming' = incoming
        /\ job = p
    BY <1>1, <1>3, <2>1, <2>6
  <2> HIDE DEF canonicalNow
  <2>8. \A i \in 1 .. n - 1 : IsCanonical(p.replay[i])
    BY <1>1, <2>1, <2>3 DEF BranchInv, ProcessInv, ReplayInv
  <2>9. \A i \in 1 .. n : canonicalNow(p.replay[i])
    <3> SUFFICES ASSUME NEW i \in 1 .. n PROVE canonicalNow(p.replay[i])
      OBVIOUS
    <3>1. i \in 1 .. Len(p.replay) /\ (i = n \/ i \in 1 .. n - 1)
      BY <2>4, <2>5
    <3>2. QED  BY <2>4, <2>5, <2>6, <2>8, <3>1
  <2>10. PlanShape(p)'
    BY <2>4, <2>6, PlanShapeStays
  <2>11. CursorInv'
    BY <2>6 DEF BranchInv, StoreInv, CursorInv
  <2>12. RowInv'
    <3>1. /\ checkpoints[1].at \in Block /\ OnChain(checkpoints[1].at, base)
      BY <2>4, CheckpointsAboveFirst
    <3>2. OnChain(checkpoints[1].at, b) /\ b # checkpoints[1].at
      <4>1. OnChain(checkpoints[1].at, b)
        BY <2>4, <2>5, <3>1, OnChainTransitive
      <4>2. Number(checkpoints[1].at) <= Number(base) /\ Number(base) \in Nat
        BY <2>4, <3>1, AncestorHeights, BlockFacts
      <4>3. Number(b) = Number(base) + n
        BY <2>4, <2>5
      <4>4. Number(checkpoints[1].at) \in Nat
        BY <3>1, BlockFacts
      <4>5. Number(b) # Number(checkpoints[1].at)
        <5> HIDE DEF base
        <5>1. n >= 1
          BY <2>5
        <5>2. QED  BY <2>5, <4>2, <4>3, <4>4, <5>1
      <4>6. QED  BY <4>1, <4>5
    <3>3. checkpoints # <<>>
      BY <2>4, EmptySeq DEF Inv, TypeOK, StoreTypeOK
    <3>4. ASSUME NEW c \in Block, derived'[c] # None
          PROVE  c \in raw /\ OnChain(checkpoints[1].at, c) /\ c # checkpoints[1].at
      <4>1. CASE c = b  BY <2>5, <3>2, <4>1
      <4>2. CASE Derived(c)  BY <4>2 DEF BranchInv, StoreInv, RowInv
      <4>3. QED  BY <2>6, <3>4, <4>1, <4>2
    <3>5. ASSUME NEW i \in 1 .. Len(checkpoints)
          PROVE  derived'[checkpoints[i].at] # None \/ checkpoints[i].at = checkpoints[1].at
      BY <2>6, CheckpointsAboveFirst
    <3>6. QED  BY <2>6, <3>3, <3>4, <3>5 DEF RowInv, Derived
  <2>13. PublishedFollowsCursor' /\ CheckpointInv'
    BY <2>7 DEF PublishedFollowsCursor, CheckpointInv
  <2>14. JobInv'
    <3>1. Applies(p)'
      BY <2>4, <2>6 DEF Applies
    <3>2. \A c \in Block : Derived(c)' /\ OnChain(c, p.ancestor) => IsCanonical(c)'
      BY <2>4, <2>6 DEF canonicalNow, IsCanonical, Derived
    <3>3. \A c \in Canonical' : OnChain(c, PlanTip(p))
      <4>1. \A c \in Block : canonicalNow(c) => OnChain(c, PlanTip(p))
        BY <2>4, <2>5, <2>6
      <4>2. QED  BY <4>1 DEF canonicalNow, Canonical, IsCanonical, Derived
    <3>4. ASSUME NEW j \in 1 .. Len(p.replay), canonicalNow(p.replay[j]), NEW i \in 1 .. j
          PROVE  canonicalNow(p.replay[i])
      <4>1. i \in 1 .. Len(p.replay) /\ p.replay[i] \in Block /\ p.replay[j] \in Block
        BY <2>4
      <4>2. CASE IsCanonical(p.replay[j])
        BY <2>4, <2>6, <4>1, <4>2
      <4>3. CASE p.replay[j] = b
        <5>1. Number(base) + j = Number(base) + n
          BY <2>4, <2>5, <4>3
        <5>2. Number(base) \in Nat
          BY <2>4, BlockFacts
        <5> HIDE DEF base
        <5>3. j = n
          BY <2>4, <2>5, <5>1, <5>2
        <5>4. QED  BY <2>9, <5>3
      <4>4. QED  BY <2>6, <3>4, <4>1, <4>2, <4>3
    <3>5. \A j \in 1 .. Len(p.replay) : IsCanonical(p.replay[j])' =>
               \A i \in 1 .. j : IsCanonical(p.replay[i])'
      BY <3>4 DEF canonicalNow, IsCanonical, Derived
    <3>6. \A i \in 1 .. Len(p.replay) : p.replay[i] \in raw'
      BY <2>4, <2>6
    <3>7. QED  BY <2>7, <2>10, <3>1, <3>2, <3>3, <3>5, <3>6 DEF JobInv, PlanTip
  <2>15. pc' \in {"replay", "finish"}
    BY <1>1, <1>3
  <2>16. PipeInv' /\ WalkInv'
    BY <2>15 DEF PipeInv, WalkInv
  <2>17. DraftInv'
    <3>1. incoming \in {None, PlanTip(p)}
      BY <1>1, <2>1 DEF BranchInv, ProcessInv, DraftInv
    <3>2. QED  BY <2>7, <2>10, <2>15, <3>1 DEF DraftInv, PlanTip
  <2>18. ReplayInv'
    <3>1. \A i \in 1 .. n : IsCanonical(p.replay[i])'
      BY <2>9 DEF canonicalNow, IsCanonical, Derived
    <3>2. CASE pc' = "finish"
      <4>1. n = Len(p.replay)
        BY <1>1, <1>3, <2>1, <2>3, <3>2
      <4>2. QED  BY <2>7, <3>1, <3>2, <4>1 DEF ReplayInv
    <3>3. CASE pc' # "finish"
      <4>1. step' = n + 1 /\ pc' = "replay"
        BY <1>1, <1>3, <2>3, <3>3
      <4>2. step' # 1 /\ step' - 1 = n
        BY <2>5, <4>1
      <4>3. QED  BY <2>5, <2>6, <2>7, <3>1, <4>1, <4>2 DEF ReplayInv
    <3>4. QED  BY <3>2, <3>3
  <2>19. QED  BY <2>11, <2>12, <2>13, <2>14, <2>16, <2>17, <2>18
              DEF BranchInv, StoreInv, ProcessInv
<1>4. QED  BY <1>2, <1>3, Zenon DEF ReplayStep

\* The recovery ends on the branch it published: the cursor moves to the plan's tip,
\* and every derived block of that branch is published.
LEMMA FinishBranch == ASSUME Inv, BranchInv, Finish PROVE BranchInv'
<1>1. /\ pc = "finish" /\ pipe \in State /\ job = plan /\ plan # None
      /\ cursor # None /\ pipe.at = PlanTip(plan)
      /\ Number(PlanTip(plan)) = cursor.next
  BY DEF Finish, Inv, ControlInv, PlanInv, HeightInv, TypeOK, EngineTypeOK
<1>2. /\ checkpoints' = Append(checkpoints, pipe)
      /\ cursor' = [next |-> Number(pipe.at) + 1, hash |-> pipe.at]
      /\ job' = None
      /\ UNCHANGED <<raw, derived, pipe>>
      /\ pc' = IF incoming = None THEN "checkpoint" ELSE AfterBlock
      /\ incoming' = IF AfterBlock = "loop" THEN None ELSE incoming
  BY DEF Finish, FinishRuntimeRecovery
<1>3. PICK p : p = plan
  OBVIOUS
<1>4. PICK tip : tip = pipe.at
  OBVIOUS
<1> DEFINE base == checkpoints[p.checkpoint].at
<1>5. /\ p.ancestor \in Block /\ Len(p.replay) \in Nat \ {0} /\ tip \in Block
      /\ \A i \in 1 .. Len(p.replay) : p.replay[i] \in Block /\ p.replay[i] \in raw
      /\ tip = PlanTip(p) /\ PlanTip(p) = p.replay[Len(p.replay)]
      /\ base \in Block /\ PlanShape(p)
      /\ \A i \in 1 .. Len(p.replay) : OnChain(p.replay[i], tip)
      /\ \A c \in Block : Derived(c) /\ OnChain(c, p.ancestor) => IsCanonical(c)
      /\ \A c \in Block : IsCanonical(c) => OnChain(c, tip)
  BY <1>1, <1>3, <1>4, PendingJob
<1>6. \A i \in 1 .. Len(p.replay) : IsCanonical(p.replay[i])
  BY <1>1, <1>3 DEF BranchInv, ProcessInv, ReplayInv
<1>7. IsCanonical(tip) /\ tip \in raw
  BY <1>5, <1>6
<1>8. \A c \in Block : IsCanonical(c) <=> Derived(c) /\ OnChain(c, tip)
  <2> SUFFICES ASSUME NEW c \in Block, Derived(c), OnChain(c, tip) PROVE IsCanonical(c)
    BY <1>5 DEF IsCanonical
  <2>1. OnChain(base, p.ancestor) /\ OnChain(p.ancestor, tip)
    BY <1>5 DEF PlanShape
  <2>2. /\ Number(c) \in Nat /\ Number(p.ancestor) \in Nat
        /\ Number(base) <= Number(p.ancestor) /\ Number(base) \in Nat
    BY <1>5, <2>1, BlockFacts, AncestorHeights
  <2>3. CASE Number(c) <= Number(p.ancestor)
    BY <1>5, <2>1, <2>3, AncestorsAreOrdered
  <2>4. CASE Number(c) > Number(p.ancestor)
    <3>1. Number(c) > Number(base)
      <4> HIDE DEF base
      <4>1. QED  BY <2>2, <2>4
    <3>2. /\ Number(c) - Number(base) \in 1 .. Len(p.replay)
          /\ c = p.replay[Number(c) - Number(base)]
      BY <1>1, <1>3, <1>5, <3>1, ReplayedAt
    <3>3. QED  BY <1>6, <3>2
  <2>5. QED  BY <2>2, <2>3, <2>4
<1>9. /\ Len(checkpoints) \in Nat /\ Len(checkpoints') = Len(checkpoints) + 1
      /\ checkpoints # <<>> /\ checkpoints' # <<>>
      /\ checkpoints'[Len(checkpoints) + 1] = pipe /\ Last(checkpoints') = pipe
      /\ \A i \in 1 .. Len(checkpoints) : checkpoints'[i] = checkpoints[i]
  <2>1. checkpoints \in Seq(State) /\ p.checkpoint \in 1 .. Len(checkpoints)
    BY <1>1, <1>3 DEF Inv, TypeOK, StoreTypeOK, PlanInv
  <2>2. /\ Len(checkpoints) \in Nat /\ Len(checkpoints') = Len(checkpoints) + 1
        /\ checkpoints # <<>>
        /\ checkpoints'[Len(checkpoints) + 1] = pipe
        /\ \A i \in 1 .. Len(checkpoints) : checkpoints'[i] = checkpoints[i]
    BY <1>1, <1>2, <2>1, EmptySeq, LenProperties, AppendProperties
  <2>3. Last(checkpoints') = pipe
    BY <2>2 DEF Last
  <2>4. checkpoints' # <<>>
    BY <2>2, EmptySeq
  <2>5. QED  BY <2>2, <2>3, <2>4
<1>10. cursor' # None /\ cursor'.hash = tip /\ cursor'.next = Number(tip) + 1
  <2>1. Number(tip) + 1 \in Nat
    BY <1>5, BlockFacts
  <2>2. cursor' \in Cursor
    BY <1>2, <1>4, <1>5, <2>1 DEF Cursor
  <2>3. cursor' # None
    BY <2>2, EngineAssumption
  <2>4. QED  BY <1>2, <1>4, <2>3
<1>11. CursorInv'
  <2>1. \A b \in raw : Number(b) <= cursor.next
    BY <1>1 DEF BranchInv, StoreInv, CursorInv
  <2>2. cursor.next = Number(tip) /\ Number(tip) \in Nat
    BY <1>1, <1>4, <1>5, BlockFacts
  <2>3. \A b \in raw : Number(b) \in Nat
    BY BlockFacts, Typed DEF Inv
  <2>4. \A b \in raw : Number(b) <= Number(tip) + 1 /\ Number(b) # Number(tip) + 1
    BY <2>1, <2>2, <2>3
  <2>5. QED  BY <1>2, <1>7, <1>10, <2>4 DEF CursorInv
<1>12. RowInv'
  <2>1. 1 \in 1 .. Len(checkpoints) /\ checkpoints'[1] = checkpoints[1]
    BY <1>9, Typed DEF Inv
  <2>2. \A b \in Block : derived[b] # None =>
          b \in raw /\ OnChain(checkpoints[1].at, b) /\ b # checkpoints[1].at
    BY DEF BranchInv, StoreInv, RowInv, Derived
  <2>3. ASSUME NEW i \in 1 .. Len(checkpoints')
        PROVE  derived[checkpoints'[i].at] # None \/ checkpoints'[i].at = checkpoints'[1].at
    <3>1. CASE i = Len(checkpoints) + 1
      BY <1>4, <1>7, <1>9, <3>1 DEF IsCanonical, Derived
    <3>2. CASE i # Len(checkpoints) + 1
      <4>1. i \in 1 .. Len(checkpoints)
        BY <1>9, <3>2
      <4>2. derived[checkpoints[i].at] # None \/ checkpoints[i].at = checkpoints[1].at
        BY <4>1 DEF BranchInv, StoreInv, RowInv, Derived
      <4>3. QED  BY <1>9, <2>1, <4>1, <4>2
    <3>3. QED  BY <3>1, <3>2
  <2>4. QED  BY <1>2, <1>9, <2>1, <2>2, <2>3 DEF RowInv, Derived
<1>13. PublishedFollowsCursor'
  BY <1>2, <1>8, <1>10 DEF PublishedFollowsCursor, Canonical, IsCanonical, Derived
<1>14. CheckpointInv'
  BY <1>4, <1>9, <1>10 DEF CheckpointInv
<1>15. JobInv'
  BY <1>2 DEF JobInv
<1>16. pc' \in {"checkpoint", "bootstrap", "loop"}
  BY <1>2 DEF AfterBlock
<1>17. PipeInv'
  <2>1. incoming \in {None, tip}
    BY <1>1, <1>3, <1>4, <1>5 DEF BranchInv, ProcessInv, DraftInv
  <2>2. incoming' \in {None, tip}
    BY <1>2, <2>1
  <2>3. pipe' = Last(checkpoints') /\ pipe'.at = cursor'.hash
    BY <1>2, <1>4, <1>9, <1>10
  <2>4. pc' = "loop" => incoming' = None
    BY <1>2
  <2>5. pc' = "bootstrap" => incoming' = tip
    BY <1>2, <2>1 DEF AfterBlock
  <2>6. derived'[pipe'.at] # None
    BY <1>2, <1>4, <1>7 DEF IsCanonical, Derived
  <2>7. QED  BY <1>9, <1>10, <1>16, <2>2, <2>3, <2>4, <2>5, <2>6 DEF PipeInv, Derived
<1>18. WalkInv' /\ DraftInv' /\ ReplayInv'
  BY <1>16 DEF WalkInv, DraftInv, ReplayInv
<1>19. QED
  BY <1>11, <1>12, <1>13, <1>14, <1>15, <1>17, <1>18 DEF BranchInv, StoreInv, ProcessInv

LEMMA InitialBranch == Init => BranchInv
<1> SUFFICES ASSUME Init PROVE BranchInv
  OBVIOUS
<1>1. /\ pc = "down" /\ raw = {} /\ cursor = None /\ checkpoints = <<>> /\ job = None
      /\ derived = [b \in Block |-> None]
  BY DEF Init, StoreInit
<1>2. \A b \in Block : ~Derived(b)
  BY <1>1 DEF Derived
<1>3. Len(checkpoints) = 0
  BY <1>1, EmptySeq
<1>4. CursorInv /\ PublishedFollowsCursor /\ CheckpointInv /\ JobInv
  BY <1>1 DEF CursorInv, PublishedFollowsCursor, CheckpointInv, JobInv
<1>5. RowInv
  BY <1>2, <1>3 DEF RowInv
<1>6. QED  BY <1>1, <1>4, <1>5, DownHoldsNothing DEF BranchInv, StoreInv

LEMMA BranchNext == Inv /\ BranchInv /\ [Next]_vars => BranchInv'
<1> SUFFICES ASSUME Inv, BranchInv, [Next]_vars PROVE BranchInv'
  OBVIOUS
<1>1. CASE Open  BY <1>1, OpenBranch
<1>2. CASE Engine
  BY <1>2, ReplayCommittedBranch, PollBranch, FetchBranch, CommitBranch,
     CommitGapBranch, ProcessBranch, CheckpointBranch, BootstrapBranch,
     FindAncestorBranch, BuildPlanBranch, AppendReplacementBranch,
     BeginBranch, ReplayStepBranch, FinishBranch, Zenon DEF Engine
<1>3. CASE Sleep \/ Extend \/ Reorganise \/ UNCHANGED vars
  BY <1>3, NodeBranch
<1>4. CASE Crash \/ Stop \/ RequestFails \/ DiskRefuses
  BY <1>4, FaultBranch
<1>5. QED  BY <1>1, <1>2, <1>3, <1>4, Zenon DEF Next

LEMMA BranchInvariance == Spec => [](Inv /\ BranchInv)
<1>1. Init => Inv /\ BranchInv
  BY InitialState, InitialBranch
<1>2. Inv /\ BranchInv /\ [Next]_vars => (Inv /\ BranchInv)'
  BY NextPreserves, BranchNext
<1>3. QED  BY <1>1, <1>2, PTL DEF Spec

-----------------------------------------------------------------------------
(* What is published, and what a restart finds                             *)

\* Once no recovery is pending, the canonical blocks are exactly the derived blocks of
\* the branch the RPC cursor stands on, after any number of reorganisations and crashes.
THEOREM PublishedIsTheCursorsBranch == Spec => []PublishedFollowsCursor
<1>1. BranchInv => PublishedFollowsCursor
  BY DEF BranchInv, StoreInv
<1>2. QED  BY BranchInvariance, <1>1, PTL

\* A restart that finds no pending job can replay the cursor's block from the stored
\* records, and nothing else continues its checkpoint at that height.
THEOREM RestartReplays == Spec => []RestartCanReplay
<1>1. ASSUME Inv, BranchInv PROVE RestartCanReplay
  <2> SUFFICES ASSUME job = None, checkpoints # <<>>
               PROVE  /\ OnChain(Last(checkpoints).at, cursor.hash)
                      /\ \A n \in Number(Last(checkpoints).at) + 1 .. cursor.next - 1 :
                           {b \in raw : Number(b) = n /\ Parent(b) = BlockAt(cursor.hash, n - 1)}
                             = {BlockAt(cursor.hash, n)}
    BY DEF RestartCanReplay
  <2> DEFINE c == Last(checkpoints).at
             tip == cursor.hash
  <2>1. /\ c \in Block /\ cursor # None /\ tip \in Block /\ tip \in raw
        /\ cursor.next = Number(tip) + 1
    BY <1>1, Typed DEF Inv, BranchInv, StoreInv, CursorInv
  <2>2. \/ c = tip
        \/ /\ Number(tip) = Number(c) + 1 /\ Parent(tip) = c
           /\ \A b \in raw : Number(b) = Number(tip) /\ Parent(b) = Parent(tip) => b = tip
    BY <1>1 DEF BranchInv, StoreInv, CheckpointInv
  <2> HIDE DEF c, tip
  <2>3. Number(c) \in Nat /\ Number(tip) \in Nat
    BY <2>1, BlockFacts
  <2>4. OnChain(c, tip)
    BY <2>1, <2>2, OnChainOrder, ParentFacts
  <2>5. ASSUME NEW n \in Number(c) + 1 .. cursor.next - 1
        PROVE  {b \in raw : Number(b) = n /\ Parent(b) = BlockAt(tip, n - 1)} = {BlockAt(tip, n)}
    <3>1. n = Number(tip) /\ n # Number(c) /\ n > 0
      BY <2>1, <2>2, <2>3
    <3>2. /\ Parent(tip) = c
          /\ \A b \in raw : Number(b) = Number(tip) /\ Parent(b) = Parent(tip) => b = tip
      BY <2>2, <3>1
    <3>3. BlockAt(tip, n - 1) = Parent(tip)
      BY <2>1, <3>1, ParentFacts
    <3>4. BlockAt(tip, n) = tip
      <4>1. n \in 0 .. Number(tip)
        BY <2>3, <3>1
      <4>2. QED  BY <2>1, <3>1, <4>1, BlockAtFacts, OnChainOrder
    <3>5. QED  BY <2>1, <3>1, <3>2, <3>3, <3>4
  <2>6. QED  BY <2>4, <2>5 DEF c, tip
<1>2. Inv /\ BranchInv => RestartCanReplay
  BY <1>1
<1>3. QED  BY BranchInvariance, <1>2, PTL

\* A crash anywhere in a recovery leaves a job the next start can execute: every block
\* it replays is stored, chained to its checkpoint and not one it retracts.
THEOREM JobsCanBeResumed == Spec => []PendingJobIsComplete
<1>1. ASSUME Inv, BranchInv PROVE PendingJobIsComplete
  <2> SUFFICES ASSUME job # None
               PROVE  /\ job.checkpoint \in 1 .. Len(checkpoints)
                      /\ Applies(job)
                      /\ \A i \in 1 .. Len(job.replay) : job.replay[i] \in raw \ job.orphans
                      /\ Number(PlanTip(job)) = cursor.next
    BY DEF PendingJobIsComplete
  <2>1. PICK p : p = job
    OBVIOUS
  <2>2. /\ p.checkpoint \in 1 .. Len(checkpoints) /\ Applies(p) /\ PlanShape(p)
        /\ \A i \in 1 .. Len(p.replay) :
             p.replay[i] \in raw /\ OnChain(p.replay[i], PlanTip(p))
    BY <1>1, <2>1, PendingJob
  <2>3. \A b \in p.orphans : ~OnChain(b, PlanTip(p))
    BY <2>2 DEF PlanShape
  <2>4. Number(PlanTip(job)) = cursor.next
    BY <1>1 DEF Inv, HeightInv
  <2>5. QED  BY <2>1, <2>2, <2>3, <2>4
<1>2. Inv /\ BranchInv => PendingJobIsComplete
  BY <1>1
<1>3. QED  BY BranchInvariance, <1>2, PTL

\* The steps that write derived_blocks or recovery_jobs, and what holds when they do.
LEMMA WritingSteps ==
  ASSUME Inv, BranchInv, [Next]_vars
  PROVE  \/ UNCHANGED <<derived, job>>
         \/ /\ job = None /\ cursor # None /\ checkpoints # <<>>
            /\ pipe = Last(checkpoints) /\ Derive(cursor.hash)
            /\ Number(cursor.hash) = Number(pipe.at) + 1
         \/ /\ pc = "replay" /\ Derive(plan.replay[step])
         \/ /\ pc = "begin" /\ BeginRecovery(plan)
         \/ Finish
<1>1. CASE Process
  <2>1. /\ pc = "process" /\ cursor # None /\ incoming = cursor.hash /\ pipe # None
        /\ pipe = (IF checkpoints = <<>> THEN None ELSE Last(checkpoints))
        /\ job = None /\ Number(cursor.hash) = Number(pipe.at) + 1
    BY <1>1 DEF Process, Inv, ControlInv, PlanInv, BranchInv, ProcessInv, PipeInv
  <2>2. Derive(incoming) \/ UNCHANGED storeVars
    BY <1>1, Zenon DEF Process
  <2>3. QED  BY <2>1, <2>2 DEF storeVars
<1>2. CASE ReplayCommitted
  <2>1. pc = "loop" /\ BehindCursor /\ ((\E b \in Successors : Derive(b)) \/ UNCHANGED storeVars)
    BY <1>2, Zenon DEF ReplayCommitted
  <2>2. CASE UNCHANGED storeVars
    BY <2>2 DEF storeVars
  <2>3. CASE \E b \in Successors : Derive(b)
    <3>1. PICK b \in Successors : Derive(b)
      BY <2>3
    <3>2. /\ job = None /\ cursor # None /\ checkpoints # <<>> /\ pipe = Last(checkpoints)
          /\ b = cursor.hash /\ Number(cursor.hash) = Number(pipe.at) + 1
      BY <2>1, SuccessorIsCursorsBlock
    <3>3. QED  BY <3>1, <3>2
  <2>4. QED  BY <2>1, <2>2, <2>3
<1>3. CASE ReplayStep
  <2>1. pc = "replay" /\ (Derive(plan.replay[step]) \/ UNCHANGED storeVars)
    BY <1>3, Zenon DEF ReplayStep
  <2>2. QED  BY <2>1 DEF storeVars
<1>4. CASE Begin
  <2>1. pc = "begin" /\ (BeginRecovery(plan) \/ UNCHANGED storeVars)
    BY <1>4, Zenon DEF Begin
  <2>2. QED  BY <2>1 DEF storeVars
<1>5. CASE Finish
  BY <1>5
<1>6. CASE Open \/ Sleep \/ Extend \/ Reorganise \/ UNCHANGED vars
  BY <1>6 DEF Open, Sleep, Extend, Reorganise, vars, storeVars
<1>7. CASE Crash \/ Stop \/ RequestFails \/ DiskRefuses
  BY <1>7 DEF Crash, Stop, RequestFails, DiskRefuses, Fault, storeVars
<1>8. CASE Poll \/ Fetch \/ Bootstrap \/ FindAncestor \/ BuildPlan
  <2>1. UNCHANGED storeVars
    BY <1>8, Zenon DEF Poll, Fetch, Bootstrap, FindAncestor, BuildPlan
  <2>2. QED  BY <2>1 DEF storeVars
<1>9. CASE CommitGap \/ Checkpoint \/ Commit \/ AppendReplacement
  BY <1>9 DEF CommitGap, RecordGap, Checkpoint, SaveRuntimeCheckpoint,
              Commit, AppendReplacement, AppendRaw
<1>10. QED
  BY <1>1, <1>2, <1>3, <1>4, <1>5, <1>6, <1>7, <1>8, <1>9, Zenon DEF Next, Engine

LEMMA RetractingStep ==
  Inv /\ BranchInv /\ [Next]_vars =>
    \A b \in Canonical \ Canonical' :
      job' # None /\ b \in job'.orphans /\ ~OnChain(b, PlanTip(job'))
<1> SUFFICES ASSUME Inv, BranchInv, [Next]_vars, NEW b \in Block, IsCanonical(b), ~IsCanonical(b)'
             PROVE  job' # None /\ b \in job'.orphans /\ ~OnChain(b, PlanTip(job'))
  BY DEF Canonical
<1>1. derived'[b] = derived[b] => FALSE
  BY DEF IsCanonical, Derived
<1>2. ASSUME NEW c \in Block, pipe # None, Derive(c) PROVE FALSE
  <2>1. derived'[b] # None /\ derived'[b].canonical
    BY <1>2, DeriveRows
  <2>2. QED  BY <2>1 DEF IsCanonical, Derived
<1>3. CASE UNCHANGED <<derived, job>>
  BY <1>1, <1>3
<1>4. CASE /\ job = None /\ cursor # None /\ checkpoints # <<>>
           /\ pipe = Last(checkpoints) /\ Derive(cursor.hash)
  <2>1. cursor.hash \in Block /\ pipe # None
    BY <1>4, Typed DEF Inv
  <2>2. QED  BY <1>2, <1>4, <2>1
<1>5. CASE pc = "replay" /\ Derive(plan.replay[step])
  <2>1. pipe # None /\ job = plan /\ plan # None /\ step \in 1 .. Len(plan.replay)
    BY <1>5 DEF Inv, ControlInv, PlanInv
  <2>2. plan.replay[step] \in Block
    BY <2>1, PendingJob
  <2>3. QED  BY <1>2, <1>5, <2>1, <2>2
<1>6. CASE pc = "begin" /\ BeginRecovery(plan)
  <2>1. job' = plan /\ plan # None /\ b \in plan.orphans
    <3>1. (derived'[b] # None /\ derived'[b].canonical) <=> IsCanonical(b) /\ b \notin plan.orphans
      BY <1>6, BeginRows DEF Inv
    <3>2. b \in plan.orphans
      BY <3>1 DEF IsCanonical, Derived
    <3>3. QED  BY <1>6, <3>2 DEF BeginRecovery, Inv, ControlInv
  <2>2. PlanShape(plan)
    BY <1>6 DEF BranchInv, ProcessInv, DraftInv
  <2>3. QED  BY <2>1, <2>2 DEF PlanShape
<1>7. CASE Finish
  BY <1>1, <1>7 DEF Finish, FinishRuntimeRecovery
<1>8. QED  BY <1>3, <1>4, <1>5, <1>6, <1>7, WritingSteps

\* A published block is retracted only by the commit that records a recovery, only if
\* the recovery names it, and only if the branch it moves to does not contain it.
THEOREM RetractionsArePlanned == Spec => OnlyRecoveryRetracts
<1>1. Inv /\ BranchInv /\ [Next]_vars =>
        [\A b \in Canonical \ Canonical' :
           job' # None /\ b \in job'.orphans /\ ~OnChain(b, PlanTip(job'))]_vars
  BY RetractingStep
<1>2. QED  BY BranchInvariance, <1>1, PTL DEF Spec, OnlyRecoveryRetracts

-----------------------------------------------------------------------------
(* The runtime implements PublishedChain                                   *)

LEMMA SameTree ==
  /\ \A a, b : Published!OnChain(a, b) <=> OnChain(a, b)
  /\ \A b : Published!Parent(b) = Parent(b)
BY DEF Published!OnChain, OnChain, Published!Parent, Parent, Published!IsPrefix, IsPrefix

\* A block that is on a branch containing every published block, and whose parent is
\* published or the first checkpoint's, continues what is published.
LEMMA ContinuesPublished ==
  ASSUME Inv, BranchInv, NEW b \in Block, checkpoints # <<>>,
         \A c \in Canonical : OnChain(c, b) /\ c # b,
         Number(b) > 0,
         Parent(b) = checkpoints[1].at \/ Parent(b) \in Canonical
  PROVE  Published!Continues(b)
<1>1. CASE Parent(b) \in Canonical
  BY <1>1, SameTree DEF Published!Continues
<1>2. CASE Parent(b) = checkpoints[1].at
  <2>1. ASSUME NEW c \in Canonical PROVE FALSE
    <3>1. /\ c \in Block /\ OnChain(c, b) /\ c # b
          /\ OnChain(checkpoints[1].at, c) /\ c # checkpoints[1].at
      BY DEF Canonical, IsCanonical, BranchInv, StoreInv, RowInv
    <3>2. OnChain(c, Parent(b)) /\ Parent(b) \in Block
      BY <3>1, ParentFacts
    <3>3. QED  BY <1>2, <3>1, <3>2, OnChainOrder
  <2>2. Canonical = {}
    BY <2>1
  <2>3. QED  BY <2>2, SameTree DEF Published!Continues
<1>3. QED  BY <1>1, <1>2

\* A step that changes neither which blocks have a row, nor which are canonical, nor
\* the pending job is invisible to the readers.
LEMMA InvisibleStep ==
  ASSUME job' = job,
         \A c \in Block : derived'[c] # None <=> Derived(c),
         \A c \in Block : (derived'[c] # None /\ derived'[c].canonical) <=> IsCanonical(c)
  PROVE  UNCHANGED Published!chainVars
<1>1. Canonical' = Canonical
  BY DEF Canonical, IsCanonical, Derived
<1>2. {b \in Block : Derived(b)}' = {b \in Block : Derived(b)}
  BY DEF Derived
<1>3. (IF job = None THEN None ELSE PlanTip(job))' = IF job = None THEN None ELSE PlanTip(job)
  BY DEF PlanTip
<1>4. QED  BY <1>1, <1>2, <1>3 DEF Published!chainVars

\* The row of one more block, as the readers see it.
LEMMA OneMoreRow ==
  ASSUME NEW b \in Block, job' = job,
         \A c \in Block : derived'[c] # None <=> Derived(c) \/ c = b,
         \A c \in Block : (derived'[c] # None /\ derived'[c].canonical)
                                <=> IsCanonical(c) \/ c = b
  PROVE  /\ Canonical' = Canonical \cup {b}
         /\ {c \in Block : Derived(c)}' = {c \in Block : Derived(c)} \cup {b}
         /\ (IF job = None THEN None ELSE PlanTip(job))'
              = IF job = None THEN None ELSE PlanTip(job)
         /\ IsCanonical(b) => UNCHANGED Published!chainVars
<1>1. Canonical' = Canonical \cup {b}
  BY DEF Canonical, IsCanonical, Derived
<1>2. {c \in Block : Derived(c)}' = {c \in Block : Derived(c)} \cup {b}
  BY DEF Derived
<1>3. (IF job = None THEN None ELSE PlanTip(job))' = IF job = None THEN None ELSE PlanTip(job)
  BY DEF PlanTip
<1>4. IsCanonical(b) => UNCHANGED Published!chainVars
  BY InvisibleStep DEF IsCanonical
<1>5. QED  BY <1>1, <1>2, <1>3, <1>4

\* Deriving the cursor's block publishes it, or changes nothing when a crash had
\* left its row behind.
LEMMA RefinesPublish ==
  ASSUME Inv, BranchInv, job = None, cursor # None, checkpoints # <<>>,
         pipe = Last(checkpoints), Derive(cursor.hash),
         Number(cursor.hash) = Number(pipe.at) + 1
  PROVE  [Published!Next]_(Published!chainVars)
<1>1. PICK b : b = cursor.hash
  OBVIOUS
<1>2. /\ b \in Block /\ pipe # None /\ pipe.at \in Block
      /\ Len(checkpoints) \in 1 .. Len(checkpoints)
      /\ Last(checkpoints) = checkpoints[Len(checkpoints)]
  BY <1>1, Typed DEF Inv
<1>3. /\ \A c \in Block : derived'[c] # None <=> Derived(c) \/ c = b
      /\ \A c \in Block : (derived'[c] # None /\ derived'[c].canonical)
                                <=> IsCanonical(c) \/ c = b
      /\ Derived(b) /\ ~IsCanonical(b) => job # None
      /\ Parent(b) = pipe.at /\ job' = job
  BY <1>1, <1>2, DeriveRows
<1>4. /\ Canonical' = Canonical \cup {b}
      /\ {c \in Block : Derived(c)}' = {c \in Block : Derived(c)} \cup {b}
      /\ (IF job = None THEN None ELSE PlanTip(job))'
            = IF job = None THEN None ELSE PlanTip(job)
      /\ IsCanonical(b) => UNCHANGED Published!chainVars
  BY <1>2, <1>3, OneMoreRow
<1>5. CASE Derived(b)
  BY <1>3, <1>4, <1>5
<1>6. CASE ~Derived(b)
  <2>1. \A c \in Block : IsCanonical(c) <=> Derived(c) /\ OnChain(c, b)
    BY <1>1 DEF BranchInv, StoreInv, PublishedFollowsCursor, Canonical
  <2>2. \A c \in Canonical : OnChain(c, b) /\ c # b
    BY <1>6, <2>1 DEF Canonical
  <2>3. Number(b) > 0
    BY <1>1, <1>2, BlockFacts
  <2>4. Parent(b) = checkpoints[1].at \/ Parent(b) \in Canonical
    <3>1. Derived(pipe.at) \/ pipe.at = checkpoints[1].at
      BY <1>2, CheckpointsAboveFirst
    <3>2. OnChain(pipe.at, b)
      BY <1>2, <1>3, ParentFacts
    <3>3. QED  BY <1>2, <1>3, <2>1, <3>1, <3>2 DEF Canonical
  <2>5. Published!Continues(b)
    BY <1>2, <2>2, <2>3, <2>4, ContinuesPublished
  <2>6. b \notin {c \in Block : Derived(c)}
    BY <1>6
  <2>7. Published!Publish(b)
    BY <1>4, <2>5, <2>6 DEF Published!Publish
  <2>8. QED  BY <1>2, <2>7 DEF Published!Next
<1>7. QED  BY <1>5, <1>6

\* A replayed block is restored, or was already published before a crash.
LEMMA RefinesRestore ==
  ASSUME Inv, BranchInv, pc = "replay", Derive(plan.replay[step])
  PROVE  [Published!Next]_(Published!chainVars)
<1>1. PICK p : p = job
  OBVIOUS
<1>2. PICK n : n = step
  OBVIOUS
<1>3. PICK b : b = p.replay[n]
  OBVIOUS
<1> DEFINE base == checkpoints[p.checkpoint].at
<1>4. /\ job = plan /\ p = plan /\ p # None /\ n \in 1 .. Len(p.replay) /\ pipe # None
  BY <1>1, <1>2 DEF Inv, ControlInv, PlanInv
<1>5. /\ Len(p.replay) \in Nat \ {0} /\ p.ancestor \in Block
      /\ \A i \in 1 .. Len(p.replay) : p.replay[i] \in Block
      /\ PlanTip(p) \in Block
      /\ p.checkpoint \in 1 .. Len(checkpoints) /\ base \in Block
      /\ PlanShape(p)
      /\ \A i \in 1 .. Len(p.replay) :
           /\ Number(p.replay[i]) = Number(base) + i
           /\ OnChain(p.replay[i], PlanTip(p))
      /\ \A c \in Block : Derived(c) /\ OnChain(c, p.ancestor) => IsCanonical(c)
      /\ \A c \in Block : IsCanonical(c) => OnChain(c, PlanTip(p))
      /\ \A j \in 1 .. Len(p.replay) : IsCanonical(p.replay[j]) =>
              \A i \in 1 .. j : IsCanonical(p.replay[i])
  BY <1>1, <1>4, PendingJob
<1>6. b \in Block /\ n \in Nat /\ Number(b) \in Nat /\ Number(base) \in Nat /\ n >= 1
      /\ Number(b) = Number(base) + n
  BY <1>3, <1>4, <1>5, BlockFacts
<1>7. /\ \A c \in Block : derived'[c] # None <=> Derived(c) \/ c = b
      /\ \A c \in Block : (derived'[c] # None /\ derived'[c].canonical)
                                <=> IsCanonical(c) \/ c = b
      /\ Parent(b) = pipe.at /\ job' = job
  BY <1>2, <1>3, <1>4, <1>6, DeriveRows
<1>8. /\ Canonical' = Canonical \cup {b}
      /\ {c \in Block : Derived(c)}' = {c \in Block : Derived(c)} \cup {b}
      /\ (IF job = None THEN None ELSE PlanTip(job))'
            = IF job = None THEN None ELSE PlanTip(job)
      /\ IsCanonical(b) => UNCHANGED Published!chainVars
  BY <1>6, <1>7, OneMoreRow
<1>9. CASE IsCanonical(b)
  BY <1>8, <1>9
<1>10. CASE ~IsCanonical(b)
  <2>1. ASSUME NEW c \in Canonical PROVE OnChain(c, b) /\ c # b
    <3>1. c \in Block /\ IsCanonical(c) /\ OnChain(c, PlanTip(p)) /\ c # b
      BY <1>5, <1>10 DEF Canonical
    <3>2. Number(c) \in Nat
      BY <3>1, BlockFacts
    <3>3. CASE Number(c) <= Number(b)
      BY <1>3, <1>4, <1>5, <1>6, <3>1, <3>3, AncestorsAreOrdered
    <3>4. CASE Number(c) > Number(b)
      <4>1. PICK j : j = Number(c) - Number(base)
        OBVIOUS
      <4>2. Number(c) > Number(base)
        <5> HIDE DEF base
        <5>1. QED  BY <1>6, <3>2, <3>4
      <4>3. j \in 1 .. Len(p.replay) /\ c = p.replay[j]
        BY <1>1, <1>4, <3>1, <4>1, <4>2, ReplayedAt
      <4>4. n \in 1 .. j
        <5> HIDE DEF base
        <5>1. j \in Nat /\ n <= j
          BY <1>6, <3>2, <3>4, <4>1, <4>2
        <5>2. QED  BY <1>6, <5>1
      <4>5. IsCanonical(b)
        BY <1>3, <1>5, <3>1, <4>3, <4>4
      <4>6. QED  BY <1>10, <4>5
    <3>5. QED  BY <1>6, <3>1, <3>2, <3>3, <3>4
  <2>2. Parent(b) = checkpoints[1].at \/ Parent(b) \in Canonical
    <3>1. CASE n = 1
      <4>1. Parent(b) = base
        BY <1>2, <1>4, <1>7, <3>1 DEF BranchInv, ProcessInv, ReplayInv
      <4>2. Derived(base) \/ base = checkpoints[1].at
        BY <1>5, CheckpointsAboveFirst
      <4>3. OnChain(base, p.ancestor)
        BY <1>5 DEF PlanShape
      <4>4. QED  BY <1>5, <4>1, <4>2, <4>3 DEF Canonical
    <3>2. CASE n # 1
      <4>1. PICK k : k = n - 1
        OBVIOUS
      <4>2. k \in 1 .. n - 1 /\ k \in 1 .. Len(p.replay)
        BY <1>4, <1>5, <1>6, <3>2, <4>1
      <4>3. Parent(b) = p.replay[k]
        BY <1>2, <1>4, <1>7, <3>2, <4>1 DEF BranchInv, ProcessInv, ReplayInv
      <4>4. IsCanonical(p.replay[k])
        BY <1>2, <1>4, <4>2 DEF BranchInv, ProcessInv, ReplayInv
      <4>5. QED  BY <1>5, <4>2, <4>3, <4>4 DEF Canonical
    <3>3. QED  BY <3>1, <3>2
  <2>3. checkpoints # <<>> /\ Number(b) > 0
    BY <1>5, <1>6, EmptySeq DEF Inv, TypeOK, StoreTypeOK
  <2>4. Published!Continues(b)
    BY <1>6, <2>1, <2>2, <2>3, ContinuesPublished
  <2>5. PlanTip(job) # None /\ job # None /\ Published!OnChain(b, PlanTip(job))
    BY <1>1, <1>3, <1>4, <1>5, EngineAssumption, SameTree
  <2>6. Published!Restore(b)
    BY <1>8, <2>4, <2>5 DEF Published!Restore
  <2>7. QED  BY <1>6, <2>6 DEF Published!Next
<1>11. QED  BY <1>9, <1>10

\* The commit of the job announces the switch; when the recovery is resumed the readers
\* see nothing.
LEMMA RefinesAnnounce ==
  ASSUME Inv, BranchInv, pc = "begin", BeginRecovery(plan)
  PROVE  [Published!Next]_(Published!chainVars)
<1>1. PICK p : p = plan
  OBVIOUS
<1>2. /\ p \in RecoveryPlan /\ p # None /\ p.replay # <<>> /\ cursor # None
      /\ job \in {None, p} /\ job' = p /\ cursor.hash \in Block
  BY <1>1, Typed DEF Inv, ControlInv, PlanInv, HeightInv, TypeOK, EngineTypeOK, BeginRecovery
<1>3. p.ancestor \in Block /\ PlanTip(p) \in Block /\ PlanTip(p) # None
  BY <1>2, PlanTyped, EngineAssumption
<1>4. /\ OnChain(p.ancestor, PlanTip(p))
      /\ \A b \in p.orphans : ~OnChain(b, PlanTip(p))
  BY <1>1 DEF BranchInv, ProcessInv, DraftInv, PlanShape
<1>5. /\ \A c \in Block : derived'[c] # None <=> Derived(c)
      /\ \A c \in Block : (derived'[c] # None /\ derived'[c].canonical)
                            <=> IsCanonical(c) /\ c \notin p.orphans
  BY <1>1, BeginRows DEF Inv
<1>6. CASE job = None
  <2>1. /\ OnChain(p.ancestor, cursor.hash)
        /\ p.orphans = {b \in Block : OnChain(b, cursor.hash) /\ Number(b) > Number(p.ancestor)}
        /\ \A c \in Block : IsCanonical(c) => OnChain(c, cursor.hash)
    BY <1>1, <1>2, <1>6
    DEF BranchInv, ProcessInv, DraftInv, StoreInv, PublishedFollowsCursor, Canonical
  <2>2. ASSUME NEW c \in Block, IsCanonical(c)
        PROVE  c \notin p.orphans <=> OnChain(c, p.ancestor)
    <3>1. Number(c) \in Nat /\ Number(p.ancestor) \in Nat /\ OnChain(c, cursor.hash)
      BY <1>3, <2>1, <2>2, BlockFacts
    <3>2. c \notin p.orphans => OnChain(c, p.ancestor)
      BY <1>2, <1>3, <2>1, <3>1, AncestorsAreOrdered
    <3>3. OnChain(c, p.ancestor) => c \notin p.orphans
      BY <1>3, <2>1, <3>1, AncestorHeights
    <3>4. QED  BY <3>2, <3>3
  <2>3. Canonical' = {c \in Canonical : Published!OnChain(c, p.ancestor)}
    BY <1>5, <2>2, SameTree DEF Canonical, IsCanonical, Derived
  <2>4. {c \in Block : Derived(c)}' = {c \in Block : Derived(c)}
    BY <1>5 DEF Derived
  <2>5. /\ (IF job = None THEN None ELSE PlanTip(job)) = None
        /\ (IF job = None THEN None ELSE PlanTip(job))' = PlanTip(p)
    BY <1>2, <1>6 DEF PlanTip
  <2>6. Published!Announce(p.ancestor, PlanTip(p))
    BY <1>4, <2>3, <2>4, <2>5, SameTree DEF Published!Announce
  <2>7. QED  BY <1>3, <2>6 DEF Published!Next
<1>7. CASE job = p
  <2>1. \A c \in Block : IsCanonical(c) => OnChain(c, PlanTip(p))
    BY <1>2, <1>7, PendingJob
  <2>2. \A c \in Block : (derived'[c] # None /\ derived'[c].canonical) <=> IsCanonical(c)
    BY <1>4, <1>5, <2>1
  <2>3. UNCHANGED Published!chainVars
    BY <1>2, <1>5, <1>7, <2>2, InvisibleStep
  <2>4. QED  BY <2>3
<1>8. QED  BY <1>2, <1>6, <1>7

LEMMA RefinesComplete ==
  ASSUME Inv, BranchInv, Finish
  PROVE  [Published!Next]_(Published!chainVars)
<1>1. PICK p : p = job
  OBVIOUS
<1>2. pc = "finish" /\ p = plan /\ p # None /\ job' = None /\ UNCHANGED derived
  BY <1>1 DEF Finish, FinishRuntimeRecovery, Inv, ControlInv, PlanInv
<1>3. /\ Len(p.replay) \in Nat \ {0} /\ PlanTip(p) \in Block
      /\ PlanTip(p) = p.replay[Len(p.replay)]
  BY <1>1, <1>2, PendingJob
<1>4. PlanTip(p) \in Canonical
  <2>1. Len(p.replay) \in 1 .. Len(p.replay)
    BY <1>3
  <2>2. IsCanonical(p.replay[Len(p.replay)])
    BY <1>2, <2>1 DEF BranchInv, ProcessInv, ReplayInv
  <2>3. QED  BY <1>3, <2>2 DEF Canonical
<1>5. Canonical' = Canonical /\ {c \in Block : Derived(c)}' = {c \in Block : Derived(c)}
  BY <1>2 DEF Canonical, IsCanonical, Derived
<1>6. Published!Complete
  BY <1>1, <1>2, <1>4, <1>5 DEF Published!Complete
<1>7. QED  BY <1>6 DEF Published!Next

LEMMA RefinesInit == Init => Published!Init
<1> SUFFICES ASSUME Init PROVE Published!Init
  OBVIOUS
<1>1. \A b \in Block : ~Derived(b)
  BY DEF Init, StoreInit, Derived
<1>2. Canonical = {} /\ {b \in Block : Derived(b)} = {}
  BY <1>1 DEF Canonical, IsCanonical
<1>3. QED  BY <1>2 DEF Published!Init, Init, StoreInit

LEMMA RefinesStep ==
  ASSUME Inv, BranchInv, [Next]_vars
  PROVE  [Published!Next]_(Published!chainVars)
<1>1. CASE UNCHANGED <<derived, job>>
  <2>1. UNCHANGED Published!chainVars
    BY <1>1, InvisibleStep DEF IsCanonical, Derived
  <2>2. QED  BY <2>1
<1>2. QED
  BY <1>1, WritingSteps, RefinesPublish, RefinesRestore, RefinesAnnounce, RefinesComplete

\* What the readers of the database are promised is what the runtime does: every step of
\* the runtime is a step of PublishedChain or invisible to them.
THEOREM RuntimeImplementsChain == Spec => ImplementsPublishedChain
<1>1. Inv /\ BranchInv /\ [Next]_vars => [Published!Next]_(Published!chainVars)
  BY RefinesStep
<1>2. QED
  BY BranchInvariance, RefinesInit, <1>1, PTL
  DEF Spec, Published!Spec, ImplementsPublishedChain

\* So the canonical derived blocks, which the report and the simulation queue read, are
\* one branch without holes in every state, the middle of a recovery included.
THEOREM ReadersSeeOneBranch == Spec => [](Published!OneBranch /\ Published!NoHoles)
<1>1. Init => IsBranch(Canonical)
  BY RefinesInit DEF Published!Init, IsBranch
<1>2. Inv /\ BranchInv /\ [Next]_vars /\ IsBranch(Canonical) => IsBranch(Canonical)'
  <2> SUFFICES ASSUME Inv, BranchInv, [Next]_vars, IsBranch(Canonical)
               PROVE  IsBranch(Canonical)'
    OBVIOUS
  <2>1. CASE UNCHANGED Published!chainVars
    BY <2>1 DEF Published!chainVars
  <2>2. ASSUME NEW b \in Block, Published!Publish(b) \/ Published!Restore(b)
        PROVE  IsBranch(Canonical)'
    BY <2>2, SameTree, ExtensionIsBranch
    DEF Published!Publish, Published!Restore, Published!Continues
  <2>3. ASSUME NEW a \in Block, NEW t \in Block, Published!Announce(a, t)
        PROVE  IsBranch(Canonical)'
    <3>1. Canonical' = {c \in Canonical : OnChain(c, a)}
      BY <2>3, SameTree DEF Published!Announce
    <3>2. QED  BY <3>1, TruncationIsBranch
  <2>4. CASE Published!Complete
    BY <2>4 DEF Published!Complete
  <2>5. QED  BY RefinesStep, <2>1, <2>2, <2>3, <2>4 DEF Published!Next
<1>3. IsBranch(Canonical) => Published!OneBranch /\ Published!NoHoles
  BY SameTree DEF IsBranch, Published!OneBranch, Published!NoHoles, Published!Number,
                  Number, Published!BlockAt, BlockAt
<1>4. QED  BY BranchInvariance, <1>1, <1>2, <1>3, PTL DEF Spec

-----------------------------------------------------------------------------
(* Which replays the pipeline refuses: where a state's pools come from     *)

\* A state of a derived block says what the block's row says, unless the row has a
\* Pending pool, which a bootstrap may have proven since; a state of any other block
\* is the first bootstrap's.
Known(s) ==
  IF Derived(s.at)
    THEN s.pools = derived[s.at].pools \/ derived[s.at].pools \in Pending
    ELSE /\ s.pools \notin Pending
         /\ checkpoints # <<>> => s.at = checkpoints[1].at /\ s.pools = checkpoints[1].pools

\* A row continues its parent's row, unless that has a Pending pool; a row whose
\* parent is not derived continues the first checkpoint.
Continues(b) ==
  IF Derived(Parent(b))
    THEN \/ derived[Parent(b)].pools \in Pending
         \/ derived[b].pools = Apply[derived[Parent(b)].pools][b]
    ELSE /\ Parent(b) = checkpoints[1].at
         /\ derived[b].pools = Apply[checkpoints[1].pools][b]

\* No block leaves a pool Pending.
NeverPending == \A p \in Pools \ Pending, b \in Block : Apply[p][b] \notin Pending

OriginInv ==
  /\ pipe # None => Known(pipe)
  /\ \A i \in 1 .. Len(checkpoints) : Known(checkpoints[i])
  /\ \A b \in Block : Derived(b) => Continues(b)
  /\ pc = "bootstrap" /\ pipe # None => pipe.pools \in Pending
  /\ NeverPending => \A b \in Block : Derived(b) => derived[b].pools \notin Pending

\* The rows say of the pools what they said before.
SameRows ==
  \A c \in Block : /\ Derived(c)' <=> Derived(c)
                   /\ Derived(c) => derived'[c].pools = derived[c].pools

LEMMA SameOrigins ==
  ASSUME Inv, OriginInv, SameRows, UNCHANGED checkpoints
  PROVE  /\ \A s \in State : Known(s)' <=> Known(s)
         /\ \A i \in 1 .. Len(checkpoints) : Known(checkpoints[i])'
         /\ \A b \in Block : Derived(b)' => Continues(b)'
         /\ NeverPending => \A b \in Block : Derived(b)' => derived'[b].pools \notin Pending
<1>1. \A s \in State : Known(s)' <=> Known(s)
  BY DEF Known, SameRows, State, Derived
<1>2. \A i \in 1 .. Len(checkpoints) : Known(checkpoints[i])'
  BY <1>1, Typed DEF OriginInv, Inv
<1>3. ASSUME NEW b \in Block, Derived(b)' PROVE Continues(b)'
  <2>1. Parent(b) \in Block
    BY ParentFacts
  <2>2. QED  BY <1>3, <2>1 DEF OriginInv, SameRows, Continues, Derived
<1>4. QED  BY <1>1, <1>2, <1>3 DEF OriginInv, SameRows, Derived

\* process_timed: the new state and a new row come from the state before, and a row
\* that was there agrees with them.
LEMMA DeriveOrigins ==
  ASSUME Inv, BranchInv, BranchInv', OriginInv, pipe # None, checkpoints # <<>>,
         NEW b \in Block, Derive(b), pc' # "bootstrap"
  PROVE  OriginInv'
<1>1. /\ UNCHANGED checkpoints /\ pipe \in State /\ pipe.at \in Block /\ Parent(b) = pipe.at
      /\ pipe' = ApplyBlock(pipe, b) /\ Known(pipe)
  BY DeriveEffect, Typed DEF Derive, Accepts, Inv, OriginInv
<1>2. /\ pipe' \in State /\ pipe'.at = b /\ pipe'.pools = Apply[pipe.pools][b]
  BY <1>1, DeriveEffect DEF ApplyBlock
<1>3. /\ \A c \in Block : Derived(c)' <=> Derived(c) \/ c = b
      /\ \A c \in Block : Derived(c) => derived'[c].pools = derived[c].pools
      /\ derived'[b].pools = Apply[pipe.pools][b]
  <2>1. /\ derived \in [Block -> DerivedBlock \cup {None}]
        /\ \A c \in Block : derived[c] # None => derived[c] \in DerivedBlock
    BY DEF Inv, TypeOK, StoreTypeOK
  <2>2. \A c \in Block : Derived(c)' <=> Derived(c) \/ c = b
    BY DeriveRows DEF Derived
  <2>3. CASE ~Derived(b)
    <3>1. derived' = [derived EXCEPT ![b] =
                        [canonical |-> TRUE, pools |-> ApplyBlock(pipe, b).pools]]
      BY <2>3 DEF Derive, SaveDerived
    <3>2. derived'[b].pools = ApplyBlock(pipe, b).pools
      BY <2>1, <3>1
    <3>3. \A c \in Block \ {b} : derived'[c] = derived[c]
      BY <2>1, <3>1
    <3>4. QED  BY <2>2, <2>3, <3>2, <3>3 DEF ApplyBlock
  <2>4. CASE Derived(b) /\ ~IsCanonical(b)
    <3>1. derived' = [derived EXCEPT ![b].canonical = TRUE]
      BY <2>4 DEF Derive, ReactivateDerived
    <3>2. derived'[b] = [derived[b] EXCEPT !.canonical = TRUE]
      BY <2>1, <3>1
    <3>3. derived'[b].pools = derived[b].pools
      BY <2>1, <2>4, <3>2 DEF Derived, DerivedBlock
    <3>4. \A c \in Block \ {b} : derived'[c] = derived[c]
      BY <2>1, <3>1
    <3>5. derived[b].pools = Apply[pipe.pools][b]
      BY <2>4 DEF Derive, Accepts, ApplyBlock
    <3>6. QED  BY <2>2, <3>3, <3>4, <3>5
  <2>5. CASE IsCanonical(b)
    <3>1. derived' = derived
      BY <2>5 DEF Derive, IsCanonical, storeVars
    <3>2. derived[b].pools = Apply[pipe.pools][b]
      BY <2>5 DEF Derive, Accepts, ApplyBlock, IsCanonical
    <3>3. QED  BY <2>2, <3>1, <3>2
  <2>6. QED  BY <2>3, <2>4, <2>5 DEF IsCanonical
<1>4. /\ checkpoints'[1] = checkpoints[1] /\ b # checkpoints[1].at /\ Derived(b)'
      /\ \A c \in Block : Derived(c)' => c # checkpoints[1].at
  BY <1>1, <1>3 DEF BranchInv, StoreInv, RowInv
<1>5. ASSUME NEW s \in State, Known(s) PROVE Known(s)'
  <2>1. s.at \in Block
    BY DEF State
  <2>2. CASE Derived(s.at)
    BY <1>3, <1>5, <2>1, <2>2 DEF Known
  <2>3. CASE ~Derived(s.at)
    <3>1. s.at = checkpoints[1].at /\ s.pools = checkpoints[1].pools /\ s.pools \notin Pending
      BY <1>5, <2>3 DEF Known
    <3>2. ~Derived(s.at)'
      BY <1>4, <2>1, <3>1
    <3>3. QED  BY <1>4, <3>1, <3>2 DEF Known
  <2>4. QED  BY <2>2, <2>3
<1>6. Known(pipe)'
  BY <1>2, <1>3, <1>4 DEF Known
<1>7. \A i \in 1 .. Len(checkpoints') : Known(checkpoints[i])'
  BY <1>1, <1>5, Typed DEF OriginInv, Inv
<1>8. ASSUME NEW c \in Block, Derived(c)' PROVE Continues(c)'
  <2>1. Parent(c) \in Block
    BY ParentFacts
  <2>2. CASE ~Derived(c)
    <3>1. c = b /\ Parent(c) = pipe.at
      BY <1>1, <1>3, <1>8, <2>2
    <3>2. CASE Derived(Parent(c))
      <4>1. Derived(Parent(c))' /\ derived'[Parent(c)].pools = derived[Parent(c)].pools
        BY <1>3, <2>1, <3>2
      <4>2. pipe.pools = derived[Parent(c)].pools \/ derived[Parent(c)].pools \in Pending
        BY <1>1, <3>1, <3>2 DEF Known
      <4>3. QED  BY <1>3, <3>1, <4>1, <4>2 DEF Continues
    <3>3. CASE ~Derived(Parent(c))
      <4>1. Parent(c) = checkpoints[1].at /\ pipe.pools = checkpoints[1].pools
        BY <1>1, <3>1, <3>3 DEF Known
      <4>2. ~Derived(Parent(c))'
        BY <1>4, <2>1, <4>1
      <4>3. QED  BY <1>3, <1>4, <3>1, <4>1, <4>2 DEF Continues
    <3>4. QED  BY <3>2, <3>3
  <2>3. CASE Derived(c)
    <3>1. Continues(c) /\ derived'[c].pools = derived[c].pools
      BY <1>3, <2>3 DEF OriginInv
    <3>2. CASE Derived(Parent(c))
      <4>1. Derived(Parent(c))' /\ derived'[Parent(c)].pools = derived[Parent(c)].pools
        BY <1>3, <2>1, <3>2
      <4>2. QED  BY <3>1, <3>2, <4>1 DEF Continues
    <3>3. CASE ~Derived(Parent(c))
      <4>1. /\ Parent(c) = checkpoints[1].at
            /\ derived[c].pools = Apply[checkpoints[1].pools][c]
        BY <3>1, <3>3 DEF Continues
      <4>2. ~Derived(Parent(c))'
        BY <1>4, <2>1, <4>1
      <4>3. QED  BY <1>4, <3>1, <4>1, <4>2 DEF Continues
    <3>4. QED  BY <3>2, <3>3
  <2>4. QED  BY <2>2, <2>3
<1>9. ASSUME NeverPending, NEW c \in Block, Derived(c)' PROVE derived'[c].pools \notin Pending
  <2>1. CASE Derived(c)
    BY <1>3, <1>9, <2>1 DEF OriginInv
  <2>2. CASE ~Derived(c)
    <3>1. c = b
      BY <1>3, <1>9, <2>2
    <3>2. pipe.pools \in Pools \ Pending
      BY <1>1, <1>9 DEF Known, OriginInv, State
    <3>3. QED  BY <1>3, <1>9, <3>1, <3>2 DEF NeverPending
  <2>3. QED  BY <2>1, <2>2
<1>10. QED  BY <1>1, <1>6, <1>7, <1>8, <1>9 DEF OriginInv

\* A step that writes a checkpoint writes the pipeline's state.
LEMMA CheckpointOrigins ==
  ASSUME Inv, BranchInv, OriginInv, pipe # None, checkpoints' = Append(checkpoints, pipe),
         UNCHANGED <<derived, pipe>>, pc' = "bootstrap" => pipe.pools \in Pending
  PROVE  OriginInv'
<1>1. checkpoints \in Seq(State) /\ pipe \in State
  BY DEF Inv, TypeOK, StoreTypeOK, EngineTypeOK
<1>2. /\ Len(checkpoints) \in Nat /\ Len(checkpoints') = Len(checkpoints) + 1
      /\ checkpoints'[Len(checkpoints) + 1] = pipe /\ checkpoints' # <<>>
      /\ \A i \in 1 .. Len(checkpoints) : checkpoints'[i] = checkpoints[i]
  BY <1>1, LenProperties, AppendProperties
<1>3. \A c \in Block : Derived(c)' <=> Derived(c)
  BY DEF Derived
<1>4. Known(pipe)' /\ \A i \in 1 .. Len(checkpoints) : Known(checkpoints[i])'
  <2>1. CASE checkpoints = <<>>
    <3>1. checkpoints'[1] = pipe /\ Len(checkpoints) = 0
      BY <1>2, <2>1
    <3>2. QED  BY <3>1 DEF OriginInv, Known, Derived
  <2>2. CASE checkpoints # <<>>
    <3>1. checkpoints'[1] = checkpoints[1]
      BY <1>2, <2>2, Typed DEF Inv
    <3>2. QED  BY <1>2, <2>2, <3>1 DEF OriginInv, Known, Derived
  <2>3. QED  BY <2>1, <2>2
<1>5. ASSUME NEW i \in 1 .. Len(checkpoints') PROVE Known(checkpoints[i])'
  <2>1. i = Len(checkpoints) + 1 \/ i \in 1 .. Len(checkpoints)
    BY <1>2
  <2>2. QED  BY <1>2, <1>4, <2>1 DEF Known
<1>6. ASSUME NEW c \in Block, Derived(c)' PROVE Continues(c)'
  <2>1. Derived(c) /\ checkpoints # <<>>
    BY <1>3, <1>6 DEF BranchInv, StoreInv, RowInv
  <2>2. checkpoints'[1] = checkpoints[1]
    BY <1>2, <2>1, Typed DEF Inv
  <2>3. QED  BY <2>1, <2>2 DEF OriginInv, Continues, Derived
<1>7. QED  BY <1>4, <1>5, <1>6 DEF OriginInv, Derived

LEMMA OriginNext ==
  Inv /\ BranchInv /\ OriginInv /\ [Next]_vars => OriginInv'
<1> SUFFICES ASSUME Inv, BranchInv, OriginInv, [Next]_vars PROVE OriginInv'
  OBVIOUS
<1>1. ASSUME UNCHANGED <<derived, checkpoints>>, pipe' \in {None, pipe},
             pc' = "bootstrap" => pc = "bootstrap" \/ pipe' = None
      PROVE  OriginInv'
  BY <1>1 DEF OriginInv, Known, Continues, Derived
<1>2. ASSUME (\E how \in Outcome : Exit(how)) \/ RecoveryFails, UNCHANGED storeVars
      PROVE  OriginInv'
  <2>1. pipe' = None
    BY <1>2, Zenon DEF Exit, RecoveryFails
  <2>2. QED  BY <1>1, <1>2, <2>1 DEF storeVars
<1>3. BranchInv'
  BY BranchNext
<1>4. CASE Open
  <2>1. /\ pipe' = (IF checkpoints = <<>> THEN None ELSE Last(checkpoints))
        /\ UNCHANGED <<derived, checkpoints>> /\ pc' # "bootstrap"
    BY <1>4 DEF Open, storeVars
  <2>2. CASE checkpoints = <<>>
    BY <1>1, <2>1, <2>2
  <2>3. CASE checkpoints # <<>>
    <3>1. pipe' \in {checkpoints[i] : i \in 1 .. Len(checkpoints)}
      BY <2>1, <2>3, Typed DEF Inv
    <3>2. Known(pipe)'
      BY <2>1, <3>1 DEF OriginInv, Known, Derived
    <3>3. QED  BY <2>1, <3>2 DEF OriginInv, Known, Continues, Derived
  <2>4. QED  BY <2>2, <2>3
<1>5. CASE Crash \/ Stop \/ RequestFails \/ DiskRefuses
  <2>1. UNCHANGED storeVars
    BY <1>5 DEF Crash, Stop, RequestFails, DiskRefuses, Fault
  <2>2. (\E how \in {"Crashed", "Stopped", "Failed", "DiskPaused"} : Exit(how)) \/ RecoveryFails
    BY <1>5, Zenon DEF Crash, Stop, RequestFails, DiskRefuses
  <2>3. {"Crashed", "Stopped", "Failed", "DiskPaused"} \subseteq Outcome
    BY DEF Outcome
  <2>4. QED  BY <1>2, <2>1, <2>2, <2>3
<1>6. CASE Sleep \/ Extend \/ Reorganise \/ UNCHANGED vars \/ Poll
  BY <1>1, <1>6 DEF Sleep, Extend, Reorganise, Poll, vars, storeVars, volatile
<1>7. CASE AppendReplacement
  BY <1>1, <1>7 DEF AppendReplacement, AppendRaw
<1>8. CASE Commit
  BY <1>1, <1>8 DEF Commit, AppendRaw, GoTo
<1>9. CASE CommitGap
  <2>1. /\ UNCHANGED <<derived, checkpoints>> /\ pipe' \in {None, pipe}
        /\ pc' \in {"down", "recover"}
    BY <1>9 DEF CommitGap, RecordGap, Exit
  <2>2. QED  BY <1>1, <2>1
<1>10. CASE Fetch \/ FindAncestor \/ BuildPlan
  <2>1. /\ UNCHANGED storeVars
        /\ (pipe' = pipe /\ pc' # "bootstrap") \/ RecoveryFails \/ Exit("Failed")
    <3>1. CASE Fetch
      BY <3>1 DEF Fetch
    <3>2. CASE FindAncestor
      BY <3>2 DEF FindAncestor
    <3>3. CASE BuildPlan
      BY <3>3 DEF BuildPlan
    <3>4. QED  BY <1>10, <3>1, <3>2, <3>3
  <2>2. "Failed" \in Outcome
    BY DEF Outcome
  <2>3. UNCHANGED <<derived, checkpoints>>
    BY <2>1 DEF storeVars
  <2>4. QED  BY <1>1, <1>2, <2>1, <2>2, <2>3
<1>11. CASE Bootstrap
  <2>1. /\ UNCHANGED storeVars /\ pc = "bootstrap" /\ incoming \in Block
        /\ cursor # None /\ incoming = cursor.hash
        /\ pipe = (IF checkpoints = <<>> THEN None ELSE Last(checkpoints))
        /\ pipe # None => pipe.at = incoming
    BY <1>11 DEF Bootstrap, Inv, ControlInv, TypeOK, EngineTypeOK, BranchInv, ProcessInv, PipeInv
  <2>2. UNCHANGED <<derived, checkpoints>> /\ "Failed" \in Outcome
    BY <2>1 DEF storeVars, Outcome
  <2>3. CASE Exit("Failed")
    BY <1>2, <2>1, <2>2, <2>3
  <2>4. CASE pc' = "loop" /\ UNCHANGED pipe
    BY <1>1, <2>2, <2>4
  <2>5. CASE /\ \E pools \in Fresh[incoming] : pipe' = [at |-> incoming, pools |-> pools]
             /\ pc' = "checkpoint"
    <3>1. pipe'.at = incoming /\ pipe'.pools \notin Pending
      <4>1. PICK pools \in Fresh[incoming] : pipe' = [at |-> incoming, pools |-> pools]
        BY <2>5
      <4>2. pools \notin Pending
        BY <2>1, <4>1, EngineAssumption
      <4>3. QED  BY <4>1, <4>2
    <3>2. CASE pipe = None
      <4>1. checkpoints = <<>>
        BY <2>1, <3>2, Typed DEF Inv
      <4>2. ~Derived(incoming)
        BY <2>1, <4>1 DEF BranchInv, StoreInv, RowInv
      <4>3. Known(pipe)'
        BY <2>2, <3>1, <4>1, <4>2 DEF Known, Derived
      <4>4. QED  BY <2>2, <2>5, <4>3 DEF OriginInv, Known, Continues, Derived
    <3>3. CASE pipe # None
      <4>1. Known(pipe) /\ pipe.pools \in Pending /\ pipe.at = incoming
        BY <2>1, <3>3 DEF OriginInv
      <4>2. Derived(incoming) /\ derived[incoming].pools \in Pending
        BY <4>1 DEF Known
      <4>3. Known(pipe)'
        BY <2>2, <3>1, <4>2 DEF Known, Derived
      <4>4. QED  BY <2>2, <2>5, <4>3 DEF OriginInv, Known, Continues, Derived
    <3>4. QED  BY <3>2, <3>3
  <2>6. QED  BY <1>11, <2>3, <2>4, <2>5, Zenon DEF Bootstrap, GoTo
<1>12. CASE Process
  <2>1. pc = "process" /\ pipe # None /\ incoming \in Block /\ checkpoints # <<>>
    BY <1>12 DEF Process, Inv, ControlInv, TypeOK, EngineTypeOK, BranchInv, ProcessInv, PipeInv
  <2>2. (Derive(incoming) /\ pc' = "checkpoint") \/ (Exit("Failed") /\ UNCHANGED storeVars)
    BY <1>12, Zenon DEF Process, GoTo
  <2>3. QED  BY <1>2, <1>3, <2>1, <2>2, DeriveOrigins DEF Outcome
<1>13. CASE ReplayCommitted
  <2>1. pc = "loop" /\ pipe # None /\ Successors \subseteq Block /\ checkpoints # <<>>
    BY <1>13 DEF ReplayCommitted, BehindCursor, Successors, Inv, TypeOK, StoreTypeOK,
                 BranchInv, ProcessInv, PipeInv
  <2>2. \/ (\E b \in Successors : Derive(b)) /\ pc' = "checkpoint"
        \/ Exit("Failed") /\ UNCHANGED storeVars
    BY <1>13, Zenon DEF ReplayCommitted, GoTo
  <2>3. QED  BY <1>2, <1>3, <2>1, <2>2, DeriveOrigins DEF Outcome
<1>14. CASE ReplayStep
  <2>1. /\ pipe # None /\ job = plan /\ plan # None /\ step \in 1 .. Len(plan.replay)
        /\ plan.checkpoint \in 1 .. Len(checkpoints) /\ pc = "replay"
    BY <1>14 DEF ReplayStep, Inv, ControlInv, PlanInv
  <2>2. plan.replay[step] \in Block
    BY <2>1, PendingJob
  <2>3. checkpoints # <<>>
    BY <2>1
  <2>4. \/ Derive(plan.replay[step]) /\ pc' \in {"replay", "finish"}
        \/ RecoveryFails /\ UNCHANGED storeVars
    BY <1>14 DEF ReplayStep
  <2>5. QED  BY <1>2, <1>3, <2>1, <2>2, <2>3, <2>4, DeriveOrigins
<1>15. CASE Checkpoint
  <2>1. /\ pipe # None /\ checkpoints' = Append(checkpoints, pipe)
        /\ UNCHANGED <<derived, pipe>> /\ (pc' = "bootstrap" => pipe.pools \in Pending)
    BY <1>15 DEF Checkpoint, SaveRuntimeCheckpoint, Inv, ControlInv, AfterBlock
  <2>2. QED  BY <2>1, CheckpointOrigins
<1>16. CASE Finish
  <2>1. /\ pipe # None /\ checkpoints' = Append(checkpoints, pipe)
        /\ UNCHANGED <<derived, pipe>> /\ (pc' = "bootstrap" => pipe.pools \in Pending)
    BY <1>16 DEF Finish, FinishRuntimeRecovery, Inv, ControlInv, AfterBlock
  <2>2. QED  BY <2>1, CheckpointOrigins
<1>17. CASE Begin
  <2>1. /\ plan.checkpoint \in 1 .. Len(checkpoints)
        /\ \/ RecoveryFails /\ UNCHANGED storeVars
           \/ /\ BeginRecovery(plan) /\ pipe' = checkpoints[plan.checkpoint]
              /\ pc' = "replay"
    BY <1>17, Zenon DEF Begin, Inv, ControlInv, PlanInv
  <2>2. CASE /\ BeginRecovery(plan) /\ pipe' = checkpoints[plan.checkpoint]
             /\ pc' = "replay"
    <3>1. UNCHANGED checkpoints
      BY <2>2 DEF BeginRecovery
    <3>2. SameRows
      <4> SUFFICES ASSUME NEW c \in Block
                   PROVE  /\ (derived'[c] # None) <=> Derived(c)
                          /\ Derived(c) => derived'[c].pools = derived[c].pools
        BY DEF SameRows, Derived
      <4>1. derived'[c] = IF c \in plan.orphans /\ Derived(c)
                            THEN [derived[c] EXCEPT !.canonical = FALSE] ELSE derived[c]
        BY <2>2 DEF BeginRecovery
      <4>2. Derived(c) => derived[c] \in DerivedBlock
        BY DEF Inv, TypeOK, StoreTypeOK, Derived
      <4>3. CASE c \in plan.orphans /\ Derived(c)
        <5>1. /\ derived'[c] = [derived[c] EXCEPT !.canonical = FALSE]
              /\ derived[c] \in DerivedBlock
          BY <4>1, <4>2, <4>3
        <5>2. derived'[c] \in DerivedBlock /\ derived'[c].pools = derived[c].pools
          BY <5>1 DEF DerivedBlock
        <5>3. QED  BY <4>3, <5>2, EngineAssumption
      <4>4. CASE ~(c \in plan.orphans /\ Derived(c))
        BY <4>1, <4>4 DEF Derived
      <4>5. QED  BY <4>3, <4>4
    <3>3. /\ \A i \in 1 .. Len(checkpoints) : Known(checkpoints[i])'
          /\ \A b \in Block : Derived(b)' => Continues(b)'
          /\ NeverPending => \A b \in Block : Derived(b)' => derived'[b].pools \notin Pending
      BY <3>1, <3>2, SameOrigins
    <3>4. Known(pipe)'
      BY <2>1, <2>2, <3>1, <3>3 DEF Known
    <3>5. QED  BY <2>2, <3>1, <3>3, <3>4 DEF OriginInv
  <2>3. QED  BY <1>2, <2>1, <2>2
<1>18. QED
  BY <1>4, <1>5, <1>6, <1>7, <1>8, <1>9, <1>10, <1>11, <1>12, <1>13, <1>14, <1>15,
     <1>16, <1>17, Zenon DEF Next, Engine

LEMMA OriginInvariance == Spec => [](Inv /\ BranchInv /\ OriginInv)
<1>1. Init => OriginInv
  <2> SUFFICES ASSUME Init PROVE OriginInv
    OBVIOUS
  <2>1. pipe = None /\ Len(checkpoints) = 0 /\ \A b \in Block : ~Derived(b)
    BY EmptySeq DEF Init, StoreInit, Derived
  <2>2. QED  BY <2>1 DEF OriginInv
<1>2. QED  BY <1>1, OriginNext, BranchInvariance, PTL DEF Spec

\* A block a recovery replays is refused in one situation only: it was derived before,
\* and the row of the block below it has a Pending pool, so that one of the two
\* derivations started from a bootstrap and the other from the row.
RefusalNeedsPendingRow ==
  pc = "replay" /\ ~Accepts(plan.replay[step]) =>
    LET b == plan.replay[step] IN
    /\ Derived(b) /\ derived[b].pools # Apply[pipe.pools][b]
    /\ Derived(Parent(b)) /\ derived[Parent(b)].pools \in Pending

LEMMA RefusedReplay == Inv /\ BranchInv /\ OriginInv => RefusalNeedsPendingRow
<1> SUFFICES ASSUME Inv, BranchInv, OriginInv, pc = "replay", NEW b, b = plan.replay[step],
                    ~Accepts(b)
             PROVE  /\ Derived(b) /\ derived[b].pools # Apply[pipe.pools][b]
                    /\ Derived(Parent(b)) /\ derived[Parent(b)].pools \in Pending
  BY DEF RefusalNeedsPendingRow
<1>1. pipe # None /\ job = plan /\ plan # None /\ step \in 1 .. Len(plan.replay)
  BY DEF Inv, ControlInv, PlanInv
<1>2. Len(plan.replay) \in Nat /\ Applies(plan) /\ b \in Block
  BY <1>1, PendingJob
<1>3. b \notin Rejected
  BY <1>1, <1>2 DEF Applies
<1>4. Parent(b) = pipe.at
  <2>1. Parent(b) = IF step = 1 THEN checkpoints[plan.checkpoint].at
                    ELSE plan.replay[step - 1]
    BY <1>1, <1>2 DEF Applies, Chained
  <2>2. QED  BY <2>1 DEF BranchInv, ProcessInv, ReplayInv
<1>5. Derived(b) /\ derived[b].pools # Apply[pipe.pools][b]
  BY <1>1, <1>3, <1>4 DEF Accepts, ApplyBlock
<1>6. Known(pipe) /\ Continues(b) /\ checkpoints # <<>>
  BY <1>1, <1>2, <1>5 DEF OriginInv, BranchInv, StoreInv, RowInv
<1>7. CASE ~Derived(Parent(b))
  BY <1>4, <1>5, <1>6, <1>7 DEF Known, Continues
<1>8. CASE Derived(Parent(b)) /\ derived[Parent(b)].pools \notin Pending
  BY <1>4, <1>5, <1>6, <1>8 DEF Known, Continues
<1>9. QED  BY <1>5, <1>7, <1>8

\* Whatever a recovery meets, the blocks it replays can be applied, and the pipeline
\* takes every one of them whose parent's row has no Pending pool: process_timed's
\* "processed block conflict" needs a bootstrap that followed such a row.
THEOREM RefusedReplaysFollowPendingRows == Spec => []RefusalNeedsPendingRow
BY OriginInvariance, RefusedReplay, PTL

\* "Blocks already written on the new branch are reused idempotently" as long as no
\* block leaves a pool Pending: then no recovery's replay is ever refused.
THEOREM ReplaysAreIdempotent == Spec => [](NeverPending => ReplayIsIdempotent)
<1>1. Inv /\ BranchInv /\ OriginInv => (NeverPending => ReplayIsIdempotent)
  <2> SUFFICES ASSUME Inv, BranchInv, OriginInv, NeverPending, pc = "replay"
               PROVE  Accepts(plan.replay[step])
    BY DEF ReplayIsIdempotent
  <2>1. job = plan /\ plan # None /\ step \in 1 .. Len(plan.replay)
    BY DEF Inv, ControlInv, PlanInv
  <2>2. Parent(plan.replay[step]) \in Block
    BY <2>1, PendingJob, ParentFacts
  <2>3. QED  BY <2>2, RefusedReplay DEF RefusalNeedsPendingRow, OriginInv
<1>2. QED  BY <1>1, OriginInvariance, PTL

=============================================================================
