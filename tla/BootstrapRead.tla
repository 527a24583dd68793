--------------------------- MODULE BootstrapRead ---------------------------
(***************************************************************************)
(* The pools a run follows: run() and initialize (arb-app runtime.rs) over *)
(* the registry, and bootstrap (arb-adapters bootstrap.rs), the state of   *)
(* the pools at one block, read word by word with calls that name the      *)
(* block by its number, between two looks at the header of that number.    *)
(***************************************************************************)
EXTENDS PoolRegistry

CONSTANTS
  Words      \* the calls for a pool; the answers of different blocks differ

VARIABLES
  reading,   \* where bootstrap is
  at,        \* the block it is asked for
  header,    \* the first answer about the height of that block
  wanted,    \* the calls it has still to make, by pool
  read,      \* the block each pool's words were answered from
  snapshot   \* the last one of the run, or None: its position, that of the run's first
             \* one, and the blocks its words are of, by pool

progress == <<reading, at, header, wanted, read>>
database == <<tip, registry, gap>>
run == <<database, progress, snapshot>>

\* "idle": not running.  Then the answer that is awaited.
Reading == {"idle", "header", "code", "pools", "end"}

\* The first calls for a pool ask the factory, the hook and the manager of its launch;
\* the liquidity and the words of the bitmap after them say nothing of it.
Asked == <<"PoolGraduated", "PoolRegistered", "Initialize">>

ASSUME ReadAssumption == Words \in Nat /\ Words >= Len(Asked)

Snapshot == [position : Block, first : Block,
             pools : SUBSET Pool, words : [Pool -> SUBSET Block]]

\* The pools of the pipeline, or, before there is one, those of the registry.
Followed == IF snapshot = None THEN Registered ELSE snapshot.pools

BootstrapTypeOK ==
  /\ RegistryTypeOK
  /\ reading \in Reading
  /\ at \in Block \cup {None} /\ header \in Block \cup {None}
  /\ wanted \in [Pool -> 0 .. Words]
  /\ read \in [Pool -> SUBSET Block]
  /\ \A p \in Followed : reading # "idle" => (read[p] = {} <=> wanted[p] = Words)
  /\ snapshot = None \/ snapshot \in Snapshot

\* mutant: the words of the last attempt are kept.
Forgotten_KeepsRead ==
  /\ at' = None /\ header' = None
  /\ wanted' = [p \in Pool |-> 0]
  /\ UNCHANGED read

Forgotten ==
  /\ at' = None /\ header' = None
  /\ wanted' = [p \in Pool |-> 0]
  /\ read' = [p \in Pool |-> {}]

BootstrapInit ==
  /\ RegistryInit
  /\ reading = "idle" /\ at = None /\ header = None /\ snapshot = None
  /\ wanted = [p \in Pool |-> 0] /\ read = [p \in Pool |-> {}]

-----------------------------------------------------------------------------
(* run()                                                                   *)

\* A block is collected.  Without a pipeline the registered pools, if there are any, are
\* read at it; with one, its own pools are, when the block left one of them unproven.
CollectBlock ==
  /\ reading = "idle"
  /\ Number(head) > Number(tip)
  /\ AppendBlock(BlockAt(head, Number(tip) + 1))
  /\ LET pools == IF snapshot = None THEN {p \in Pool : registry'[p] # None}
                  ELSE snapshot.pools IN
     \/ /\ snapshot # None \/ pools = {}
        /\ UNCHANGED <<progress, snapshot>>
     \/ /\ pools # {}
        /\ reading' = "header" /\ at' = tip'
        /\ wanted' = [p \in Pool |-> IF p \in pools THEN Words ELSE 0]
        /\ UNCHANGED <<header, read, snapshot>>
  /\ UNCHANGED node

\* A switch the run's pipeline can recover from, or try to: its first snapshot stays on
\* the branch, whatever later ones the switch crosses.
RecoverBranch ==
  /\ reading = "idle" /\ snapshot # None
  /\ OnChain(snapshot.first, head)
  /\ AppendBranch \/ AppendPart
  /\ UNCHANGED <<node, progress, snapshot>>

\* Another run_id over the same database has no checkpoint.
NewRun ==
  /\ reading = "idle" /\ snapshot # None
  /\ snapshot' = None
  /\ UNCHANGED <<node, database, progress>>

\* run() sleeps until the next block is there; one that does not continue the stored
\* branch ends a run that cannot recover.
Waits ==
  /\ reading = "idle"
  /\ Number(head) <= Number(tip) \/ ~OnChain(tip, head)
  /\ UNCHANGED <<node, run>>

-----------------------------------------------------------------------------
(* bootstrap                                                               *)

Answers(n) == IF Reaches(n) THEN Canonical(n) ELSE None

\* mutant: the first look is at the height only.
Header_HeightOnly ==
  /\ reading = "header"
  /\ Reaches(Number(at))
  /\ header' = Canonical(Number(at))
  /\ reading' = "code"
  /\ UNCHANGED <<node, database, at, wanted, read, snapshot>>

\* No pool may begin above the block; the header of its number is the block's.
Header ==
  /\ reading = "header"
  /\ \A p \in Followed : Number(registry[p]) <= Number(at)
  /\ Answers(Number(at)) = at
  /\ header' = at
  /\ reading' = "code"
  /\ UNCHANGED <<node, database, at, wanted, read, snapshot>>

\* The contracts' code, which is the same on every branch.
Code ==
  /\ reading = "code"
  /\ Reaches(Number(at))
  /\ reading' = "pools"
  /\ UNCHANGED <<node, database, at, header, wanted, read, snapshot>>

\* mutant: what the contracts say of the pool is not looked at.
ReadWord_Unproven(p) ==
  /\ reading = "pools"
  /\ wanted[p] > 0
  /\ \A q \in Pool : wanted[q] \in 1 .. Words - 1 => q = p
  /\ Reaches(Number(at))
  /\ wanted' = [wanted EXCEPT ![p] = wanted[p] - 1]
  /\ read' = [read EXCEPT ![p] = @ \cup {Canonical(Number(at))}]
  /\ reading' = IF \A q \in Pool : wanted'[q] = 0 THEN "end" ELSE "pools"
  /\ UNCHANGED <<node, database, at, header, snapshot>>

\* One eth_call, by number.  The pools are read in order, each word by word; a pool of
\* which a first answer says that it is not launched there is refused.
ReadWord(p) ==
  /\ reading = "pools"
  /\ wanted[p] > 0
  /\ \A q \in Pool : wanted[q] \in 1 .. Words - 1 => q = p
  /\ Reaches(Number(at))
  /\ LET k == Words - wanted[p] + 1 IN
       k \in DOMAIN Asked => Happened(Asked[k], p, Canonical(Number(at)))
  /\ wanted' = [wanted EXCEPT ![p] = wanted[p] - 1]
  /\ read' = [read EXCEPT ![p] = @ \cup {Canonical(Number(at))}]
  /\ reading' = IF \A q \in Pool : wanted'[q] = 0 THEN "end" ELSE "pools"
  /\ UNCHANGED <<node, database, at, header, snapshot>>

\* mutant: no second look.
End_Unchecked ==
  /\ reading = "end"
  /\ snapshot' = [position |-> at, first |-> IF snapshot = None THEN at ELSE snapshot.first,
                  pools |-> Followed, words |-> read]
  /\ reading' = "idle" /\ Forgotten
  /\ UNCHANGED <<node, database>>

\* The header of the number is still the first one; initialize makes the pipeline.
End ==
  /\ reading = "end"
  /\ Answers(Number(at)) = header
  /\ snapshot' = [position |-> at, first |-> IF snapshot = None THEN at ELSE snapshot.first,
                  pools |-> Followed, words |-> read]
  /\ reading' = "idle" /\ Forgotten
  /\ UNCHANGED <<node, database>>

\* Another header, a pool that is refused, a request that fails, a crash: the run ends,
\* and the next start collects the next block first.
Fails ==
  /\ reading # "idle"
  /\ reading' = "idle" /\ Forgotten
  /\ UNCHANGED <<node, database, snapshot>>

Bootstrap == Header \/ Code \/ (\E p \in Pool : ReadWord(p)) \/ End \/ Fails
Runs == CollectBlock \/ RecoverBranch \/ NewRun \/ Waits

-----------------------------------------------------------------------------
(* Properties                                                              *)

\* All pools of a snapshot, and every word of each, are of the block it names.
SnapshotIsOfOneBlock ==
  snapshot # None =>
    \A p \in snapshot.pools : snapshot.words[p] = {snapshot.position}

\* It is so while the node does not come back to blocks it left: two looks at the header
\* are enough for that.
SteadySnapshotIsOfOneBlock == ~returns => SnapshotIsOfOneBlock

\* The pools a run follows were launched on the branch the database is on, also when the
\* registry has pools of a branch that was left: one of those keeps the run from starting.
FollowedPoolsAreLive ==
  ~returns /\ snapshot # None => snapshot.pools \subseteq Live(tip)

=============================================================================
