-------------------------- MODULE SimulationStore --------------------------
(***************************************************************************)
(* The simulations table beside the published branch it refers to, and one *)
(* operator per transaction that writes it: those of the simulation queue  *)
(* (store/simulation.rs) and those of the runtime that change the branch   *)
(* (begin_recovery, write_runtime_checkpoint).                             *)
(***************************************************************************)
EXTENDS ForkTree, FiniteSets

CONSTANTS
  None,
  Candidate     \* the candidates the blocks have, each of one block

VARIABLES
  published, stored, switch,    \* the published branch, see PublishedChain
  rows                          \* simulations, by candidate (job_id)

Chain == INSTANCE PublishedChain
chain == <<published, stored, switch>>

Phase == {"Queued", "Running", "Finished", "QueueFull", "QueueExpired", "Interrupted"}
Open == {"Queued", "Running"}

\* proven: there is a result, and it confirms the candidate (validates_candidate
\* but for the canonical flag).  The other outcomes are not told apart.
Row == [phase : Phase, proven : BOOLEAN, canonical : BOOLEAN, validates : BOOLEAN]

ASSUME CandidateAssumption ==
  /\ Candidate \subseteq [at : Block, index : Nat]
  /\ None \notin Block \cup Row

StoreTypeOK ==
  /\ published \subseteq stored /\ stored \subseteq Block
  /\ switch \in Block \cup {None}
  /\ rows \in [Candidate -> Row \cup {None}]

StoreInit == Chain!Init /\ rows = [c \in Candidate |-> None]

IsOpen(c) == rows[c] # None /\ rows[c].phase \in Open
CandidatesOf(b) == {c \in Candidate : c.at = b}

\* The row with new flags: it validates if it is canonical and proven.
WithCanonical(row, canonical) ==
  [phase |-> row.phase, proven |-> row.proven,
   canonical |-> canonical, validates |-> canonical /\ row.proven]

WithPhase(row, phase) ==
  [phase |-> phase, proven |-> row.proven, canonical |-> row.canonical, validates |-> FALSE]

\* insert_simulation: ON CONFLICT DO NOTHING.
InsertSimulation(c, phase) ==
  rows' = IF rows[c] # None THEN rows
          ELSE [rows EXCEPT ![c] = [phase |-> phase, proven |-> FALSE,
                                    canonical |-> FALSE, validates |-> FALSE]]

\* mutant: a row that was interrupted is written like any other.
SaveSimulation_Always(c, phase, proven) ==
  LET canonical == c.at \in published /\ switch = None IN
  rows' = [rows EXCEPT ![c] = [phase |-> phase, proven |-> proven,
                               canonical |-> canonical,
                               validates |-> canonical /\ proven]]

\* save_simulation: not over an interrupted row; the flags are those of the
\* block at this moment, and none while a recovery is pending.
SaveSimulation(c, phase, proven) ==
  LET canonical == c.at \in published /\ switch = None IN
  rows' = IF rows[c].phase = "Interrupted" THEN rows
          ELSE [rows EXCEPT ![c] = [phase |-> phase, proven |-> proven,
                                    canonical |-> canonical,
                                    validates |-> canonical /\ proven]]

InterruptSimulations ==
  rows' = [c \in Candidate |-> IF IsOpen(c) THEN WithPhase(rows[c], "Interrupted") ELSE rows[c]]

\* mutant: the rows keep their flags.
Retract_Forgotten(ancestor, target) ==
  Chain!Announce(ancestor, target) /\ UNCHANGED rows

\* begin_recovery: the orphans' rows lose their flags with the orphans.
Retract(ancestor, target) ==
  /\ Chain!Announce(ancestor, target)
  /\ rows' = [c \in Candidate |->
       IF rows[c] # None /\ c.at \in published \ published'
         THEN WithCanonical(rows[c], FALSE) ELSE rows[c]]

\* mutant: the rows of the blocks that came back are left alone.
CompleteSwitch_NoRefresh == Chain!Complete /\ UNCHANGED rows

\* write_runtime_checkpoint with a recovery: refresh_canonical_simulations.
CompleteSwitch ==
  /\ Chain!Complete
  /\ rows' = [c \in Candidate |->
       IF rows[c] # None /\ ~rows[c].canonical /\ c.at \in published
         THEN WithCanonical(rows[c], TRUE) ELSE rows[c]]

=============================================================================
