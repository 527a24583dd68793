----------------------- MODULE SimulationQueue_proofs -----------------------
(***************************************************************************)
(* Proofs about the simulation queue and the reports on its tables, for    *)
(* every tree of blocks, set of candidates, capacity, concurrency and      *)
(* number of faults.                                                       *)
(***************************************************************************)
EXTENDS SimulationQueue, ResearchReport, ForkTree_proofs, FiniteSetTheorems

(***************************************************************************)
(* The inductive invariant                                                 *)
(***************************************************************************)

\* The channel and the tasks belong to a working dispatcher, and it to a run.
ProcessInv ==
  /\ dispatcher = "running" => process \in {"running", "draining"}
  /\ dispatcher # "running" => channel = <<>> /\ job = Idle

SavesOf(c) == {w \in writes : w.op = "save" /\ w.candidate = c}
Inserts == {w \in writes : w.op = "insert"}

\* While run() works, the only insert is the one it awaits, with its permit.
SubmitInv ==
  /\ process \in {"down", "opening", "stopped"} => writes = {}
  /\ process # "running" => submitter = None
  /\ process = "running" /\ submitter = None => Inserts = {}
  /\ submitter # None => \E phase \in Inserted :
       /\ Inserts = {Insert(submitter.candidate, phase)}
       /\ submitter.permit = (phase = "Queued")

\* A job in the channel has had nothing done for it.
Untouched(c) ==
  /\ job[c] = "none" /\ c \notin simulated
  /\ rows[c] # None /\ rows[c].phase = "Queued"
  /\ SavesOf(c) = {}

ChannelInv ==
  /\ \A i, j \in DOMAIN channel : channel[i] = channel[j] => i = j
  /\ \A i \in DOMAIN channel : Untouched(channel[i])

\* A task that has not been answered yet has not been called before, and its
\* save, if one runs, is the one of its step.
TaskOK(c) ==
  /\ job[c] # "none" \/ c \in simulated => rows[c] # None
  /\ job[c] \in {"starting", "calling"} => c \notin simulated
  /\ job[c] = "starting" => \A w \in SavesOf(c) : w.phase = "Running"
  /\ job[c] = "ending" => \A w \in SavesOf(c) : w.phase \in {"QueueExpired", "Finished"}
  /\ job[c] = "calling" => SavesOf(c) = {} /\ rows[c].phase \in Open \cup {"Interrupted"}
  /\ job[c] = "done" => SavesOf(c) = {} /\ rows[c].phase \notin Open

JobInv == \A c \in Candidate : TaskOK(c)

\* At most one save runs for a candidate, and over a row that it may still change.
SaveOK(w) ==
  /\ w.proven => w.phase = "Finished"
  /\ w.op = "save" =>
       /\ rows[w.candidate] # None
       /\ rows[w.candidate].phase \in Open \cup {"Interrupted"}
       /\ SavesOf(w.candidate) = {w}

SaveInv == \A w \in writes : SaveOK(w)

\* While the queue of a run works, it has every open row.
InChannel(c) == \E i \in DOMAIN channel : channel[i] = c
OwnedInv ==
  process = "running" /\ dispatcher = "running" =>
    \A c \in Candidate : IsOpen(c) => InChannel(c) \/ job[c] # "none"

\* Whatever is submitted or stored is of a block that has been derived.
StoredInv ==
  /\ \A c \in Candidate : rows[c] # None => c.at \in stored
  /\ \A c \in todo : c.at \in stored
  /\ \A w \in writes : w.candidate.at \in stored

\* The flags of every row, also of the open and the interrupted ones.
FlagsOK(c) ==
  /\ rows[c].canonical => c.at \in published
  /\ rows[c].validates <=> rows[c].canonical /\ rows[c].proven
  /\ rows[c].proven => rows[c].phase = "Finished"
  /\ switch = None /\ rows[c].phase = "Finished" /\ c.at \in published => rows[c].canonical

FlagInv == \A c \in Candidate : rows[c] # None => FlagsOK(c)

Inv ==
  /\ TypeOK /\ ProcessInv /\ SubmitInv
  /\ ChannelInv /\ JobInv /\ SaveInv /\ OwnedInv
  /\ StoredInv /\ FlagInv

(***************************************************************************)
(* Facts about the parts                                                   *)
(***************************************************************************)

LEMMA RowIsThere ==
  ASSUME NEW row \in Row
  PROVE  row # None
BY CandidateAssumption

LEMMA WithCanonicalFacts ==
  ASSUME NEW row \in Row, NEW canonical \in BOOLEAN
  PROVE  LET new == WithCanonical(row, canonical) IN
         /\ new \in Row /\ new # None
         /\ new.phase = row.phase /\ new.proven = row.proven /\ new.canonical = canonical
         /\ new.validates <=> canonical /\ row.proven
<1>1. WithCanonical(row, canonical) \in Row
  BY DEF WithCanonical, Row
<1>2. QED  BY <1>1, RowIsThere DEF WithCanonical

LEMMA WithPhaseFacts ==
  ASSUME NEW row \in Row, NEW phase \in Phase
  PROVE  LET new == WithPhase(row, phase) IN
         /\ new \in Row /\ new # None
         /\ new.phase = phase /\ new.proven = row.proven /\ new.canonical = row.canonical
         /\ new.validates = FALSE
<1>1. WithPhase(row, phase) \in Row
  BY DEF WithPhase, Row
<1>2. QED  BY <1>1, RowIsThere DEF WithPhase

LEMMA Members ==
  ASSUME TypeOK
  PROVE  /\ \A i \in DOMAIN channel : channel[i] \in Candidate
         /\ \A w \in writes : /\ w.candidate \in Candidate /\ w.phase \in Phase
                              /\ w.proven \in BOOLEAN
                              /\ w.op = "insert" => w.proven = FALSE
<1>1. \A i \in DOMAIN channel : channel[i] \in Candidate
  BY DEF TypeOK, QueueTypeOK
<1>2. ASSUME NEW w \in writes
      PROVE  /\ w.candidate \in Candidate /\ w.phase \in Phase
             /\ w.proven \in BOOLEAN
             /\ w.op = "insert" => w.proven = FALSE
  <2>1. w \in Write
    BY DEF TypeOK, QueueTypeOK
  <2>2. QED  BY <2>1 DEF Write, Inserted, Saved, Phase
<1>3. QED  BY <1>1, <1>2

\* The queue's own part of the invariant looks at the rows' phases only.
LEMMA SamePhases ==
  ASSUME Inv, UNCHANGED <<process, submitter, channel, dispatcher, job, writes, simulated>>,
         \A c \in Candidate :
           /\ rows'[c] # None <=> rows[c] # None
           /\ rows[c] # None => rows'[c].phase = rows[c].phase
  PROVE  ProcessInv' /\ SubmitInv' /\ ChannelInv' /\ JobInv' /\ SaveInv' /\ OwnedInv'
<1>1. ProcessInv' /\ SubmitInv'
  BY DEF Inv, ProcessInv, SubmitInv, Inserts
<1>2. \A c \in Candidate : SavesOf(c)' = SavesOf(c)
  BY DEF SavesOf
<1>3. ChannelInv'
  BY <1>2, Members DEF Inv, ChannelInv, Untouched
<1>4. JobInv'
  BY <1>2 DEF Inv, JobInv, TaskOK
<1>5. SaveInv'
  BY <1>2, Members DEF Inv, SaveInv, SaveOK
<1>6. OwnedInv'
  BY DEF Inv, OwnedInv, InChannel, IsOpen
<1>7. QED  BY <1>1, <1>3, <1>4, <1>5, <1>6

LEMMA InitInv == Init => Inv
<1> SUFFICES ASSUME Init PROVE Inv
  OBVIOUS
<1> USE DEF Init, StoreInit, Chain!Init
<1>1. TypeOK
  BY QueueAssumption DEF TypeOK, StoreTypeOK, QueueTypeOK, Idle, Process, Dispatcher, JobStep
<1>2. ProcessInv /\ SubmitInv /\ ChannelInv /\ JobInv
  BY DEF ProcessInv, SubmitInv, ChannelInv, JobInv, TaskOK, Idle
<1>3. SaveInv /\ OwnedInv /\ StoredInv /\ FlagInv
  BY DEF SaveInv, OwnedInv, StoredInv, FlagInv
<1>4. QED  BY <1>1, <1>2, <1>3 DEF Inv

(***************************************************************************)
(* The runtime                                                             *)
(***************************************************************************)

\* Nothing of the queue and its rows changes.
LEMMA ChainStepPreserves ==
  ASSUME Inv, UNCHANGED <<rows, process, submitter, channel, dispatcher, job, writes,
                          simulated, faults>>,
         published' \subseteq stored', stored \subseteq stored', stored' \subseteq Block,
         switch' \in Block \cup {None},
         todo' \subseteq Candidate, \A c \in todo' : c.at \in stored',
         published \subseteq published',
         \A b \in published' \ published : b \notin stored \/ switch' # None,
         switch' = None => switch = None
  PROVE  Inv'
<1>1. TypeOK'
  BY DEF Inv, TypeOK, StoreTypeOK, QueueTypeOK
<1>2. ProcessInv' /\ SubmitInv' /\ ChannelInv' /\ JobInv' /\ SaveInv' /\ OwnedInv'
  BY SamePhases
<1>3. StoredInv'
  BY DEF Inv, StoredInv
<1>4. FlagInv'
  BY DEF Inv, FlagInv, FlagsOK, StoredInv
<1>5. QED  BY <1>1, <1>2, <1>3, <1>4 DEF Inv

LEMMA PublishBlockPreserves == Inv /\ PublishBlock => Inv'
<1> SUFFICES ASSUME Inv, PublishBlock PROVE Inv'
  OBVIOUS
<1>1. PICK b \in Block : Chain!Publish(b) /\ todo' \in {{}, CandidatesOf(b)}
  BY DEF PublishBlock
<1>2. published \subseteq stored /\ stored \subseteq Block /\ switch \in Block \cup {None}
  BY DEF Inv, TypeOK, StoreTypeOK
<1>3. todo' \subseteq Candidate /\ \A c \in todo' : c.at \in stored'
  BY <1>1 DEF CandidatesOf, Chain!Publish
<1>4. QED  BY <1>1, <1>2, <1>3, ChainStepPreserves DEF PublishBlock, Chain!Publish

LEMMA RestoreBlockPreserves == Inv /\ RestoreBlock => Inv'
<1> SUFFICES ASSUME Inv, RestoreBlock PROVE Inv'
  OBVIOUS
<1>1. PICK b \in Block : Chain!Restore(b)
  BY DEF RestoreBlock
<1>2. /\ published \subseteq stored /\ stored \subseteq Block /\ switch \in Block \cup {None}
      /\ todo \subseteq Candidate /\ \A c \in todo : c.at \in stored
  BY DEF Inv, TypeOK, StoreTypeOK, QueueTypeOK, StoredInv
<1>3. QED
  BY <1>1, <1>2, ChainStepPreserves DEF RestoreBlock, Chain!Restore, queueVars

\* The rows keep their phases and results; their flags follow the branch.
LEMMA SwitchBranchPreserves == Inv /\ SwitchBranch => Inv'
<1> SUFFICES ASSUME Inv, SwitchBranch PROVE Inv'
  OBVIOUS
<1>1. PICK a \in Block, t \in Block : Retract(a, t)
  BY DEF SwitchBranch
<1>2. UNCHANGED queueVars /\ UNCHANGED faults
  BY DEF SwitchBranch
<1>3. /\ published' \subseteq published /\ stored' = stored /\ switch' = t
  BY <1>1 DEF Retract, Chain!Announce
<1>4. \A c \in Candidate :
        /\ rows'[c] # None <=> rows[c] # None
        /\ rows[c] # None => /\ rows'[c] \in Row
                             /\ rows'[c].phase = rows[c].phase /\ rows'[c].proven = rows[c].proven
  <2> SUFFICES ASSUME NEW c \in Candidate
               PROVE  /\ rows'[c] # None <=> rows[c] # None
                      /\ rows[c] # None => /\ rows'[c] \in Row
                                           /\ rows'[c].phase = rows[c].phase
                                           /\ rows'[c].proven = rows[c].proven
    OBVIOUS
  <2>1. rows[c] # None => rows[c] \in Row
    BY DEF Inv, TypeOK, StoreTypeOK
  <2>2. rows'[c] = IF rows[c] # None /\ c.at \in published \ published'
                     THEN WithCanonical(rows[c], FALSE) ELSE rows[c]
    BY <1>1 DEF Retract
  <2>3. QED  BY <2>1, <2>2, WithCanonicalFacts
<1>5. TypeOK'
  <2>1. rows' \in [Candidate -> Row \cup {None}]
    BY <1>1, <1>4 DEF Retract, Inv, TypeOK, StoreTypeOK
  <2>2. QED  BY <1>2, <1>3, <2>1 DEF Inv, TypeOK, StoreTypeOK, QueueTypeOK, queueVars
<1>6. StoredInv'
  BY <1>2, <1>3, <1>4 DEF Inv, StoredInv, queueVars
<1>7. ProcessInv' /\ SubmitInv' /\ ChannelInv' /\ JobInv' /\ SaveInv' /\ OwnedInv'
  BY <1>2, <1>4, SamePhases DEF queueVars
<1>8. FlagInv'
  <2> SUFFICES ASSUME NEW c \in Candidate, rows'[c] # None
               PROVE  /\ rows'[c].canonical => c.at \in published'
                      /\ rows'[c].validates <=> rows'[c].canonical /\ rows'[c].proven
                      /\ rows'[c].proven => rows'[c].phase = "Finished"
    BY <1>3, CandidateAssumption DEF FlagInv, FlagsOK
  <2>1. rows[c] \in Row /\ rows[c] # None
    BY <1>4 DEF Inv, TypeOK, StoreTypeOK
  <2>2. rows'[c] = IF c.at \in published \ published'
                     THEN WithCanonical(rows[c], FALSE) ELSE rows[c]
    BY <1>1, <2>1 DEF Retract
  <2>3. CASE c.at \in published \ published'
    BY <2>1, <2>2, <2>3, WithCanonicalFacts DEF Inv, FlagInv, FlagsOK
  <2>4. CASE ~(c.at \in published \ published')
    BY <2>1, <2>2, <2>4 DEF Inv, FlagInv, FlagsOK
  <2>5. QED  BY <2>3, <2>4
<1>9. QED  BY <1>5, <1>6, <1>7, <1>8 DEF Inv

LEMMA FinishSwitchPreserves == Inv /\ FinishSwitch => Inv'
<1> SUFFICES ASSUME Inv, FinishSwitch PROVE Inv'
  OBVIOUS
<1>1. /\ CompleteSwitch
      /\ UNCHANGED <<process, submitter, channel, dispatcher, job, writes, simulated, faults>>
      /\ todo' \in {{}, CandidatesOf(switch)}
  BY DEF FinishSwitch
<1>2. UNCHANGED <<published, stored>> /\ switch' = None /\ switch \in published
  BY <1>1 DEF CompleteSwitch, Chain!Complete
<1>3. todo' \subseteq Candidate /\ \A c \in todo' : c.at \in stored'
  BY <1>1, <1>2 DEF CandidatesOf, Inv, TypeOK, StoreTypeOK
<1>4. \A c \in Candidate :
        /\ rows'[c] # None <=> rows[c] # None
        /\ rows[c] # None => /\ rows'[c] \in Row
                             /\ rows'[c].phase = rows[c].phase /\ rows'[c].proven = rows[c].proven
  <2> SUFFICES ASSUME NEW c \in Candidate
               PROVE  /\ rows'[c] # None <=> rows[c] # None
                      /\ rows[c] # None => /\ rows'[c] \in Row
                                           /\ rows'[c].phase = rows[c].phase
                                           /\ rows'[c].proven = rows[c].proven
    OBVIOUS
  <2>1. rows[c] # None => rows[c] \in Row
    BY DEF Inv, TypeOK, StoreTypeOK
  <2>2. rows'[c] = IF rows[c] # None /\ ~rows[c].canonical /\ c.at \in published
                     THEN WithCanonical(rows[c], TRUE) ELSE rows[c]
    BY <1>1 DEF CompleteSwitch
  <2>3. QED  BY <2>1, <2>2, WithCanonicalFacts
<1>5. TypeOK'
  <2>1. rows' \in [Candidate -> Row \cup {None}]
    BY <1>1, <1>4 DEF CompleteSwitch, Inv, TypeOK, StoreTypeOK
  <2>2. QED  BY <1>1, <1>2, <1>3, <2>1 DEF Inv, TypeOK, StoreTypeOK, QueueTypeOK
<1>6. StoredInv'
  BY <1>1, <1>2, <1>3, <1>4 DEF Inv, StoredInv
<1>7. ProcessInv' /\ SubmitInv' /\ ChannelInv' /\ JobInv' /\ SaveInv' /\ OwnedInv'
  BY <1>1, <1>4, SamePhases
<1>8. FlagInv'
  <2> SUFFICES ASSUME NEW c \in Candidate, rows'[c] # None
               PROVE  /\ rows'[c].canonical <=> c.at \in published'
                      /\ rows'[c].validates <=> rows'[c].canonical /\ rows'[c].proven
                      /\ rows'[c].proven => rows'[c].phase = "Finished"
    BY DEF FlagInv, FlagsOK
  <2>1. rows[c] \in Row /\ rows[c] # None
    BY <1>4 DEF Inv, TypeOK, StoreTypeOK
  <2> rows[c].canonical \in BOOLEAN /\ rows[c].validates \in BOOLEAN
    BY <2>1 DEF Row
  <2>2. rows'[c] = IF ~rows[c].canonical /\ c.at \in published
                     THEN WithCanonical(rows[c], TRUE) ELSE rows[c]
    BY <1>1, <2>1 DEF CompleteSwitch
  <2>3. CASE ~rows[c].canonical /\ c.at \in published
    <3>1. FlagsOK(c) /\ published' = published /\ rows'[c] = WithCanonical(rows[c], TRUE)
      BY <1>2, <2>1, <2>2, <2>3 DEF Inv, FlagInv
    <3>2. QED  BY <2>1, <2>3, <3>1, WithCanonicalFacts DEF FlagsOK
  <2>4. CASE rows[c].canonical \/ c.at \notin published
    <3>1. FlagsOK(c)
      BY <2>1 DEF Inv, FlagInv
    <3>2. rows'[c] = rows[c] /\ published' = published
      BY <1>2, <2>2, <2>4
    <3>3. QED  BY <2>4, <3>1, <3>2 DEF FlagsOK
  <2>5. QED  BY <2>3, <2>4
<1>9. QED  BY <1>5, <1>6, <1>7, <1>8 DEF Inv

\* Interrupting the open rows is harmless while the dispatcher has no job.
LEMMA InterruptPreserves ==
  ASSUME Inv, InterruptSimulations, dispatcher # "running",
         UNCHANGED <<chain, todo, submitter, channel, job, writes, simulated, faults>>,
         process' \in Process, dispatcher' \in Dispatcher,
         dispatcher' = "running" => process' \in {"running", "draining"}, SubmitInv'
  PROVE  Inv'
<1>1. channel = <<>> /\ job = Idle
  BY DEF Inv, ProcessInv
<1>2. \A c \in Candidate :
        /\ rows'[c] # None <=> rows[c] # None
        /\ rows[c] # None =>
             /\ rows'[c] \in Row
             /\ rows'[c].phase = IF rows[c].phase \in Open THEN "Interrupted" ELSE rows[c].phase
             /\ rows'[c].proven = rows[c].proven /\ rows'[c].canonical = rows[c].canonical
             /\ rows'[c].validates = IF rows[c].phase \in Open THEN FALSE ELSE rows[c].validates
  <2>1. "Interrupted" \in Phase
    BY DEF Phase
  <2>2. QED
    BY <2>1, WithPhaseFacts DEF InterruptSimulations, IsOpen, Inv, TypeOK, StoreTypeOK
<1>3. TypeOK'
  <2>1. rows' \in [Candidate -> Row \cup {None}]
    BY <1>2 DEF InterruptSimulations, Inv, TypeOK, StoreTypeOK
  <2>2. QED  BY <2>1 DEF Inv, TypeOK, StoreTypeOK, QueueTypeOK, chain
<1>4. ProcessInv' /\ StoredInv'
  BY <1>1, <1>2 DEF Inv, ProcessInv, StoredInv, chain
<1>5. ChannelInv' /\ OwnedInv'
  <2>1. \A c \in Candidate : rows'[c] # None => rows'[c].phase \notin Open
    BY <1>2 DEF Open
  <2>2. OwnedInv'
    BY <2>1 DEF OwnedInv, IsOpen
  <2>3. QED  BY <1>1, <2>2 DEF ChannelInv
<1>6. \A c \in Candidate : SavesOf(c)' = SavesOf(c) /\ job[c] = "none"
  BY <1>1 DEF SavesOf, Idle
<1>7. JobInv'
  BY <1>2, <1>6 DEF Inv, JobInv, TaskOK
<1>8. SaveInv'
  <2> SUFFICES ASSUME NEW w \in writes PROVE SaveOK(w)'
    BY DEF SaveInv
  <2>1. w.candidate \in Candidate /\ SaveOK(w)
    BY Members DEF Inv, SaveInv
  <2>2. QED  BY <1>2, <1>6, <2>1 DEF SaveOK
<1>9. FlagInv'
  BY <1>2 DEF Inv, FlagInv, FlagsOK, Open, chain
<1>10. QED  BY <1>3, <1>4, <1>5, <1>7, <1>8, <1>9 DEF Inv

LEMMA StartQueuePreserves == Inv /\ StartQueue => Inv'
<1> SUFFICES ASSUME Inv, StartQueue PROVE Inv'
  OBVIOUS
<1>1. dispatcher # "running"
  BY DEF StartQueue, Inv, ProcessInv
<1>2. SubmitInv'
  BY DEF StartQueue, Inv, SubmitInv, Inserts
<1>3. QED  BY <1>1, <1>2, InterruptPreserves DEF StartQueue, Process, Dispatcher

LEMMA InterruptStepPreserves == Inv /\ Interrupt => Inv'
<1> SUFFICES ASSUME Inv, Interrupt PROVE Inv'
  OBVIOUS
<1>1. dispatcher # "running" /\ dispatcher \in Dispatcher
  BY DEF Interrupt, Inv, ProcessInv, TypeOK, QueueTypeOK
<1>2. SubmitInv'
  BY DEF Interrupt, Inv, SubmitInv
<1>3. QED  BY <1>1, <1>2, InterruptPreserves DEF Interrupt, Process

(***************************************************************************)
(* Ends: of the work, of the dispatcher, of the process                    *)
(***************************************************************************)

\* Dropping what is volatile, all of it or a part, breaks nothing.
LEMMA DropPreserves ==
  ASSUME Inv, UNCHANGED <<chain, rows, simulated>>,
         todo' \subseteq todo, writes' \subseteq writes, submitter' \in {submitter, None},
         \/ UNCHANGED <<channel, dispatcher, job>>
         \/ channel' = <<>> /\ job' = Idle /\ dispatcher' \in {"none", "failed"},
         process' \in Process, dispatcher' = "running" => process' \in {"running", "draining"},
         process' # "running" \/ dispatcher' # "running", SubmitInv',
         faults' \in 0 .. MaxFaults
  PROVE  Inv'
<1> DEFINE same == UNCHANGED <<channel, dispatcher, job>>
           none == channel' = <<>> /\ job' = Idle /\ dispatcher' \in {"none", "failed"}
<1>1. TypeOK'
  <2>1. /\ channel' \in Seq(Candidate) /\ job' \in [Candidate -> JobStep]
        /\ dispatcher' \in Dispatcher
    <3>1. CASE same
      BY <3>1 DEF Inv, TypeOK, QueueTypeOK
    <3>2. CASE none
      BY <3>2 DEF Idle, JobStep, Dispatcher
    <3>3. QED  BY <3>1, <3>2
  <2>2. QED  BY <2>1 DEF Inv, TypeOK, StoreTypeOK, QueueTypeOK, chain
<1>2. ProcessInv'
  <2>1. CASE same
    BY <2>1 DEF Inv, ProcessInv
  <2>2. CASE none
    BY <2>2 DEF ProcessInv
  <2>3. QED  BY <2>1, <2>2
<1>3. \A c : SavesOf(c)' \subseteq SavesOf(c)
  BY DEF SavesOf
<1>4. ChannelInv'
  <2>1. CASE same
    BY <1>3, <2>1 DEF Inv, ChannelInv, Untouched
  <2>2. CASE none
    BY <2>2 DEF ChannelInv
  <2>3. QED  BY <2>1, <2>2
<1>5. JobInv'
  <2>1. CASE same
    BY <1>3, <2>1 DEF Inv, JobInv, TaskOK
  <2>2. CASE none
    BY <2>2 DEF Inv, JobInv, TaskOK, Idle
  <2>3. QED  BY <2>1, <2>2
<1>6. SaveInv' /\ OwnedInv'
  BY DEF Inv, SaveInv, SaveOK, SavesOf, OwnedInv
<1>7. StoredInv' /\ FlagInv'
  BY DEF Inv, StoredInv, FlagInv, FlagsOK, chain
<1>8. QED  BY <1>1, <1>2, <1>4, <1>5, <1>6, <1>7 DEF Inv

LEMMA FaultIsBounded == Inv /\ Fault => faults' \in 0 .. MaxFaults
BY QueueAssumption DEF Inv, TypeOK, QueueTypeOK, Fault

LEMMA StartPreserves == Inv /\ Start => Inv'
<1> SUFFICES ASSUME Inv, Start PROVE Inv'
  OBVIOUS
<1>1. dispatcher # "running" /\ faults \in 0 .. MaxFaults
  BY DEF Start, Inv, TypeOK, QueueTypeOK, ProcessInv
<1>2. SubmitInv'
  BY DEF Start, Inv, SubmitInv
<1>3. QED  BY <1>1, <1>2, DropPreserves DEF Start, Process

LEMMA EndOfWorkPreserves == Inv /\ EndOfWork => Inv'
<1> SUFFICES ASSUME Inv, EndOfWork PROVE Inv'
  OBVIOUS
<1>1. faults \in 0 .. MaxFaults
  BY DEF Inv, TypeOK, QueueTypeOK
<1>2. SubmitInv'
  BY DEF EndOfWork, SubmitInv
<1>3. QED  BY <1>1, <1>2, DropPreserves DEF EndOfWork, Process

LEMMA DrainPreserves == Inv /\ (Drained \/ DrainTimeout) => Inv'
<1> SUFFICES ASSUME Inv, Drained \/ DrainTimeout PROVE Inv'
  OBVIOUS
<1>1. faults \in 0 .. MaxFaults
  BY DEF Inv, TypeOK, QueueTypeOK
<1>2. SubmitInv'
  BY DEF Drained, DrainTimeout, DropDispatcher, Inv, SubmitInv
<1>3. QED  BY <1>1, <1>2, DropPreserves DEF Drained, DrainTimeout, DropDispatcher, Process

LEMMA ExitPreserves == Inv /\ (Exit \/ InterruptFails) => Inv'
<1> SUFFICES ASSUME Inv, Exit \/ InterruptFails PROVE Inv'
  OBVIOUS
<1>1. dispatcher # "running" /\ faults \in 0 .. MaxFaults
  BY DEF Exit, InterruptFails, Inv, TypeOK, QueueTypeOK, ProcessInv
<1>2. faults' \in 0 .. MaxFaults
  BY <1>1, FaultIsBounded DEF Exit, InterruptFails
<1>3. SubmitInv'
  BY DEF Exit, InterruptFails, Inv, SubmitInv
<1>4. QED  BY <1>1, <1>2, <1>3, DropPreserves DEF Exit, InterruptFails, Process

LEMMA CrashPreserves == Inv /\ Crash => Inv'
<1> SUFFICES ASSUME Inv, Crash PROVE Inv'
  OBVIOUS
<1>1. faults' \in 0 .. MaxFaults
  BY FaultIsBounded DEF Crash
<1>2. SubmitInv'
  BY DEF Crash, SubmitInv
<1>3. QED  BY <1>1, <1>2, DropPreserves DEF Crash, DropDispatcher, Process

(***************************************************************************)
(* submit                                                                  *)
(***************************************************************************)

LEMMA SubmitPreserves == Inv /\ Submit => Inv'
<1> SUFFICES ASSUME Inv, Submit PROVE Inv'
  OBVIOUS
<1>1. PICK c \in todo, phase \in Inserted :
        /\ todo' = todo \ {c}
        /\ submitter' = [candidate |-> c, permit |-> phase = "Queued"]
        /\ writes' = writes \cup {Insert(c, phase)}
  BY DEF Submit, Inserted
<1>2. /\ UNCHANGED <<chain, rows, process, channel, dispatcher, job, simulated, faults>>
      /\ process = "running" /\ submitter = None
  BY DEF Submit
<1>3. c \in Candidate /\ c.at \in stored
  BY DEF Inv, TypeOK, QueueTypeOK, StoredInv
<1>4. /\ Insert(c, phase) \in Write /\ Insert(c, phase).candidate = c
      /\ Insert(c, phase).op = "insert" /\ Insert(c, phase).proven = FALSE
  BY <1>3 DEF Insert, Write, Inserted
<1>5. \A d \in Candidate : SavesOf(d)' = SavesOf(d)
  BY <1>1, <1>4 DEF SavesOf
<1>6. submitter' \in Submitter /\ submitter' # None
  <2>1. submitter' \in Submitter
    BY <1>1, <1>3 DEF Submitter
  <2>2. QED  BY <2>1, QueueAssumption
<1>7. TypeOK'
  BY <1>1, <1>2, <1>4, <1>6 DEF Inv, TypeOK, StoreTypeOK, QueueTypeOK, chain
<1>8. ProcessInv' /\ FlagInv' /\ OwnedInv'
  BY <1>2 DEF Inv, ProcessInv, FlagInv, FlagsOK, OwnedInv, InChannel, IsOpen, chain
<1>9. SubmitInv'
  <2>1. Inserts' = {Insert(c, phase)}
    BY <1>1, <1>2, <1>4 DEF Inv, SubmitInv, Inserts
  <2>2. submitter'.candidate = c /\ (submitter'.permit = (phase = "Queued"))
    BY <1>1
  <2>3. submitter' # None => \E p \in Inserted :
          Inserts' = {Insert(submitter'.candidate, p)} /\ (submitter'.permit = (p = "Queued"))
    BY <2>1, <2>2
  <2>4. QED  BY <1>2, <1>6, <2>3 DEF SubmitInv
<1>10. ChannelInv' /\ JobInv'
  BY <1>2, <1>5, Members DEF Inv, ChannelInv, Untouched, JobInv, TaskOK
<1>11. SaveInv'
  <2> SUFFICES ASSUME NEW v \in writes' PROVE SaveOK(v)'
    BY DEF SaveInv
  <2>1. CASE v = Insert(c, phase)
    BY <1>4, <2>1 DEF SaveOK
  <2>2. CASE v \in writes
    <3>1. SaveOK(v) /\ v.candidate \in Candidate
      BY <2>2, Members DEF Inv, SaveInv
    <3>2. QED  BY <1>2, <1>5, <3>1 DEF SaveOK
  <2>3. QED  BY <1>1, <2>1, <2>2
<1>12. StoredInv'
  BY <1>1, <1>2, <1>3, <1>4 DEF Inv, StoredInv, chain
<1>13. QED  BY <1>7, <1>8, <1>9, <1>10, <1>11, <1>12 DEF Inv

\* A row is written only where there was none, and only such a one is sent.
LEMMA CommitInsertPreserves ==
  ASSUME Inv, NEW w \in writes, CommitInsert(w) PROVE Inv'
<1> DEFINE c == w.candidate
           new == [phase |-> w.phase, proven |-> FALSE, canonical |-> FALSE, validates |-> FALSE]
<1>1. /\ w.op = "insert" /\ writes' = writes \ {w}
      /\ submitter' = IF Awaited(w) THEN None ELSE submitter
      /\ rows' = IF rows[c] # None THEN rows ELSE [rows EXCEPT ![c] = new]
      /\ channel' = IF Awaited(w) /\ submitter.permit /\ dispatcher = "running" /\ rows[c] = None
                      THEN Append(channel, c) ELSE channel
      /\ UNCHANGED <<chain, process, todo, dispatcher, job, simulated, faults>>
  BY DEF CommitInsert, InsertSimulation
<1>2. c \in Candidate /\ c.at \in stored /\ w.phase \in Phase
  BY Members DEF Inv, StoredInv
<1>3. /\ new \in Row /\ new # None /\ new.phase = w.phase
      /\ new.proven = FALSE /\ new.canonical = FALSE /\ new.validates = FALSE
  BY <1>2, RowIsThere DEF Row
<1> HIDE DEF new
<1>4. \A d : SavesOf(d)' = SavesOf(d)
  BY <1>1 DEF SavesOf
<1>5. rows \in [Candidate -> Row \cup {None}] /\ channel \in Seq(Candidate)
  BY DEF Inv, TypeOK, StoreTypeOK, QueueTypeOK
<1>6. /\ \A d \in Candidate : rows[d] # None \/ d # c => rows'[d] = rows[d]
      /\ rows[c] = None => rows'[c] = new
  BY <1>1, <1>2, <1>5
\* While run() works, this is the insert it awaits.
<1>7. process = "running" => /\ Awaited(w) /\ Inserts = {w}
                             /\ submitter.permit = (w.phase = "Queued")
  <2> SUFFICES ASSUME process = "running"
               PROVE  Awaited(w) /\ Inserts = {w} /\ (submitter.permit = (w.phase = "Queued"))
    OBVIOUS
  <2>1. w \in Inserts
    BY <1>1 DEF Inserts
  <2>2. PICK p \in Inserted : /\ submitter # None
                             /\ Inserts = {Insert(submitter.candidate, p)}
                             /\ submitter.permit = (p = "Queued")
    BY <2>1 DEF Inv, SubmitInv
  <2>3. w = Insert(submitter.candidate, p)
    BY <2>1, <2>2
  <2>4. w.candidate = submitter.candidate /\ w.phase = p
    BY <2>3 DEF Insert
  <2>5. QED  BY <2>2, <2>3, <2>4 DEF Awaited
<1>8. TypeOK'
  <2>1. rows' \in [Candidate -> Row \cup {None}]
    BY <1>1, <1>2, <1>3, <1>5
  <2>2. channel' \in Seq(Candidate)
    BY <1>1, <1>2, <1>5
  <2>3. QED
    BY <1>1, <2>1, <2>2 DEF Inv, TypeOK, StoreTypeOK, QueueTypeOK, chain
<1> HIDE DEF c
<1>9. Awaited(w) => process = "running"
  BY DEF Awaited, Inv, SubmitInv
<1>10. ProcessInv'
  BY <1>1 DEF Inv, ProcessInv
<1>11. SubmitInv'
  <2>1. CASE process = "running"
    <3>1. submitter' = None /\ Inserts' = {}
      BY <1>1, <1>7, <2>1 DEF Inserts
    <3>2. QED  BY <1>1, <2>1, <3>1 DEF SubmitInv
  <2>2. CASE process # "running"
    BY <1>1, <1>9, <2>2 DEF Inv, SubmitInv
  <2>3. QED  BY <2>1, <2>2
<1>12. JobInv'
  BY <1>1, <1>4, <1>6 DEF Inv, JobInv, TaskOK
<1>13. SaveInv'
  <2> SUFFICES ASSUME NEW v \in writes' PROVE SaveOK(v)'
    BY DEF SaveInv
  <2>1. SaveOK(v) /\ v.candidate \in Candidate
    BY <1>1, Members DEF Inv, SaveInv
  <2>2. QED  BY <1>4, <1>6, <2>1 DEF SaveOK
<1>14. \A i \in DOMAIN channel : channel[i] \in Candidate /\ Untouched(channel[i])'
  BY <1>1, <1>4, <1>6, Members DEF Inv, ChannelInv, Untouched
<1>15. ChannelInv'
  <2>1. CASE channel' = channel
    BY <1>14, <2>1 DEF Inv, ChannelInv
  <2>2. CASE Awaited(w) /\ submitter.permit /\ dispatcher = "running" /\ rows[c] = None
    <3>1. channel' = Append(channel, c)
      BY <1>1, <2>2
    <3>2. \A i \in DOMAIN channel : channel[i] # c
      BY <2>2 DEF Inv, ChannelInv, Untouched
    <3>3. SavesOf(c) = {}
      BY <1>4, <2>2 DEF Inv, SaveInv, SaveOK, SavesOf
    <3>4. job[c] = "none" /\ c \notin simulated
      BY <1>2, <2>2 DEF Inv, JobInv, TaskOK
    <3>5. w.phase = "Queued"
      BY <1>7, <1>9, <2>2
    <3>6. rows'[c] = new /\ new.phase = "Queued"
      BY <1>2, <1>3, <1>6, <2>2, <3>5
    <3>7. Untouched(c)'
      BY <1>1, <1>3, <1>4, <3>3, <3>4, <3>6 DEF Untouched
    <3>8. QED  BY <1>5, <1>14, <3>1, <3>2, <3>7 DEF Inv, ChannelInv
  <2>3. QED  BY <1>1, <2>1, <2>2
<1>16. OwnedInv'
  <2> SUFFICES ASSUME process = "running", dispatcher = "running",
                      NEW d \in Candidate, IsOpen(d)'
               PROVE  InChannel(d)' \/ job[d] # "none"
    BY <1>1 DEF OwnedInv
  <2>1. InChannel(d) => InChannel(d)'
    BY <1>1, <1>5 DEF InChannel
  <2>2. CASE rows'[d] = rows[d]
    BY <2>1, <2>2 DEF Inv, OwnedInv, IsOpen
  <2>3. CASE rows'[d] # rows[d]
    <3>1. d = c /\ rows[c] = None /\ rows'[d] = new
      BY <1>2, <1>6, <2>3
    <3>2. w.phase \in Open
      BY <1>3, <3>1 DEF IsOpen
    <3>3. w.phase = "Queued"
      <4>1. w \in Write /\ w.op = "insert"
        BY <1>1 DEF Inv, TypeOK, QueueTypeOK
      <4>2. w.phase \in Inserted
        BY <4>1 DEF Write
      <4>3. QED  BY <3>2, <4>2 DEF Inserted, Open
    <3>4. channel' = Append(channel, c)
      BY <1>1, <1>7, <3>1, <3>3
    <3>5. QED  BY <1>5, <3>1, <3>4 DEF InChannel
  <2>4. QED  BY <2>2, <2>3
<1>17. StoredInv'
  BY <1>1, <1>2, <1>6 DEF Inv, StoredInv, chain
<1>18. FlagInv'
  <2> SUFFICES ASSUME NEW d \in Candidate, rows'[d] # None PROVE FlagsOK(d)'
    BY DEF FlagInv
  <2>1. CASE rows'[d] = rows[d]
    BY <1>1, <2>1 DEF Inv, FlagInv, FlagsOK, chain
  <2>2. CASE rows'[d] = new
    <3>1. w.phase # "Finished"
      <4>1. w \in Write /\ w.op = "insert"
        BY <1>1 DEF Inv, TypeOK, QueueTypeOK
      <4>2. QED  BY <4>1 DEF Write, Inserted
    <3>2. QED  BY <1>3, <2>2, <3>1 DEF FlagsOK
  <2>3. QED  BY <1>2, <1>6, <2>1, <2>2
<1>19. QED
  BY <1>8, <1>10, <1>11, <1>12, <1>13, <1>15, <1>16, <1>17, <1>18 DEF Inv

(***************************************************************************)
(* dispatch and run_job                                                    *)
(***************************************************************************)

\* The oldest job starts: nothing had been done for it, and it leaves the channel.
LEMMA TakePreserves == Inv /\ Take => Inv'
<1> SUFFICES ASSUME Inv, Take PROVE Inv'
  OBVIOUS
<1>1. /\ dispatcher = "running" /\ channel # <<>> /\ channel' = Tail(channel)
      /\ UNCHANGED <<chain, rows, process, todo, submitter, dispatcher, simulated, faults>>
  BY DEF Take
<1>2. /\ channel \in Seq(Candidate) /\ job \in [Candidate -> JobStep]
      /\ 1 \in DOMAIN channel /\ Head(channel) = channel[1]
  BY <1>1 DEF Inv, TypeOK, QueueTypeOK
<1>3. PICK c \in Candidate : c = channel[1] /\ c = Head(channel)
  BY <1>2, Members DEF Inv
<1>4. Untouched(c)
  BY <1>2, <1>3 DEF Inv, ChannelInv
<1>5. PICK step \in {"ending", "starting"}, phase \in {"QueueExpired", "Running"} :
        /\ job' = [job EXCEPT ![c] = step]
        /\ writes' = writes \cup {Save(c, phase, FALSE)}
        /\ (step = "ending") = (phase = "QueueExpired")
  BY <1>3 DEF Take
<1>6. PICK new \in Write : /\ new = Save(c, phase, FALSE)
                           /\ new.candidate = c /\ new.op = "save"
                           /\ new.phase = phase /\ new.proven = FALSE
  <2>1. Save(c, phase, FALSE) \in Write
    BY DEF Save, Write, Saved
  <2>2. QED  BY <2>1 DEF Save
<1>7. writes' = writes \cup {new}
  BY <1>5, <1>6
<1>8. /\ SavesOf(c)' = {new}
      /\ \A d : d # c => SavesOf(d)' = SavesOf(d)
      /\ Inserts' = Inserts
  <2>1. SavesOf(c) = {}
    BY <1>4 DEF Untouched
  <2>2. SavesOf(c)' = {new}
    BY <1>6, <1>7, <2>1 DEF SavesOf
  <2>3. \A d : d # c => SavesOf(d)' = SavesOf(d)
    BY <1>6, <1>7 DEF SavesOf
  <2>4. Inserts' = Inserts
    BY <1>6, <1>7 DEF Inserts
  <2>5. QED  BY <2>2, <2>3, <2>4
<1>9. /\ job' \in [Candidate -> JobStep] /\ job'[c] = step
      /\ \A d \in Candidate : d # c => job'[d] = job[d]
  <2>1. step \in JobStep
    BY DEF JobStep
  <2>2. QED  BY <1>2, <1>5, <2>1
<1>10. /\ channel' \in Seq(Candidate) /\ DOMAIN channel' = 1 .. Len(channel) - 1
       /\ \A i \in DOMAIN channel' : channel'[i] = channel[i + 1] /\ i + 1 \in DOMAIN channel
  BY <1>1, <1>2
<1>11. TypeOK'
  BY <1>1, <1>7, <1>9, <1>10 DEF Inv, TypeOK, StoreTypeOK, QueueTypeOK, chain
<1>12. ProcessInv' /\ SubmitInv'
  BY <1>1, <1>7, <1>8 DEF Inv, ProcessInv, SubmitInv
<1>13. ChannelInv'
  <2>1. \A i \in DOMAIN channel' : channel'[i] # c
    <3> SUFFICES ASSUME NEW i \in DOMAIN channel', channel'[i] = c PROVE FALSE
      OBVIOUS
    <3>1. channel[i + 1] = channel[1] /\ i + 1 \in DOMAIN channel /\ i + 1 # 1
      BY <1>2, <1>3, <1>10
    <3>2. QED  BY <1>2, <3>1 DEF Inv, ChannelInv
  <2>2. \A d \in Candidate : d # c /\ Untouched(d) => Untouched(d)'
    BY <1>1, <1>8, <1>9 DEF Untouched
  <2>3. ASSUME NEW i \in DOMAIN channel' PROVE Untouched(channel[i])'
    <3> SUFFICES ASSUME NEW d \in Candidate, d = channel'[i] PROVE Untouched(d)'
      BY <1>10
    <3>1. d # c /\ Untouched(d)
      BY <1>10, <2>1 DEF Inv, ChannelInv
    <3>2. QED  BY <2>2, <3>1
  <2>4. \A i, j \in DOMAIN channel' : channel'[i] = channel'[j] => i = j
    <3> SUFFICES ASSUME NEW i \in DOMAIN channel', NEW j \in DOMAIN channel',
                        channel'[i] = channel'[j]
                 PROVE  i = j
      OBVIOUS
    <3>1. i + 1 = j + 1
      BY <1>10 DEF Inv, ChannelInv
    <3>2. QED  BY <1>10, <3>1
  <2>5. QED  BY <2>3, <2>4 DEF ChannelInv
<1>14. JobInv'
  <2> SUFFICES ASSUME NEW d \in Candidate PROVE TaskOK(d)'
    BY DEF JobInv
  <2>1. CASE d = c /\ step = "starting"
    <3>1. phase = "Running"
      BY <1>5, <2>1
    <3>2. QED  BY <1>1, <1>4, <1>6, <1>8, <1>9, <2>1, <3>1 DEF TaskOK, Untouched
  <2>2. CASE d = c /\ step = "ending"
    <3>1. phase = "QueueExpired"
      BY <1>5, <2>2
    <3>2. QED  BY <1>1, <1>4, <1>6, <1>8, <1>9, <2>2, <3>1 DEF TaskOK, Untouched
  <2>3. CASE d # c
    BY <1>1, <1>8, <1>9, <2>3 DEF Inv, JobInv, TaskOK
  <2>4. QED  BY <2>1, <2>2, <2>3
<1>15. SaveInv'
  <2> SUFFICES ASSUME NEW v \in writes' PROVE SaveOK(v)'
    BY DEF SaveInv
  <2>1. CASE v = new
    <3>1. rows'[c] # None /\ rows'[c].phase = "Queued"
      BY <1>1, <1>4 DEF Untouched
    <3>2. SavesOf(v.candidate)' = {v}
      BY <1>6, <1>8, <2>1
    <3>3. QED  BY <1>6, <2>1, <3>1, <3>2 DEF SaveOK, Open
  <2>2. CASE v \in writes
    <3>1. SaveOK(v) /\ (v.op = "save" => v.candidate # c)
      BY <1>4, <2>2 DEF Inv, SaveInv, Untouched, SavesOf
    <3>2. QED  BY <1>1, <1>8, <3>1 DEF SaveOK
  <2>3. QED  BY <1>7, <2>1, <2>2
<1>16. OwnedInv'
  <2>1. ASSUME NEW d \in Candidate, InChannel(d), d # c PROVE InChannel(d)'
    <3>1. PICK i \in DOMAIN channel : channel[i] = d
      BY <2>1 DEF InChannel
    <3>2. i - 1 \in DOMAIN channel'
      BY <1>2, <1>3, <1>10, <2>1, <3>1
    <3>3. channel'[i - 1] = d
      <4>1. channel'[i - 1] = channel[(i - 1) + 1]
        BY <1>10, <3>2
      <4>2. (i - 1) + 1 = i
        BY <1>2, <3>1
      <4>3. QED  BY <3>1, <4>1, <4>2
    <3>4. QED  BY <3>2, <3>3 DEF InChannel
  <2>2. QED  BY <1>1, <1>9, <2>1 DEF Inv, OwnedInv, IsOpen
<1>17. StoredInv' /\ FlagInv'
  BY <1>1, <1>4, <1>6, <1>7 DEF Inv, StoredInv, FlagInv, FlagsOK, Untouched, chain
<1>18. QED
  BY <1>11, <1>12, <1>13, <1>14, <1>15, <1>16, <1>17 DEF Inv

\* The answer to a call: the save of the finished job starts.
LEMMA CallPreserves ==
  ASSUME Inv, NEW c \in Candidate, Call(c) PROVE Inv'
<1>1. /\ job[c] = "calling" /\ job' = [job EXCEPT ![c] = "ending"]
      /\ simulated' = simulated \cup {c}
      /\ UNCHANGED <<chain, rows, process, todo, submitter, channel, dispatcher, faults>>
  BY DEF Call
<1>2. PICK proven \in BOOLEAN : writes' = writes \cup {Save(c, "Finished", proven)}
  BY DEF Call
<1> DEFINE new == Save(c, "Finished", proven)
<1>3. /\ new \in Write /\ new.candidate = c /\ new.op = "save" /\ new.phase = "Finished"
  BY DEF Save, Write, Saved
<1>4. writes' = writes \cup {new}
  BY <1>2
<1> HIDE DEF new
<1>5. /\ SavesOf(c) = {} /\ rows[c] # None /\ rows[c].phase \in Open \cup {"Interrupted"}
  BY <1>1 DEF Inv, JobInv, TaskOK
<1>6. /\ SavesOf(c)' = {new}
      /\ \A d : d # c => SavesOf(d)' = SavesOf(d)
      /\ Inserts' = Inserts
  BY <1>3, <1>4, <1>5 DEF SavesOf, Inserts
<1>7. job \in [Candidate -> JobStep]
  BY DEF Inv, TypeOK, QueueTypeOK
<1>8. /\ job'[c] = "ending"
      /\ \A d \in Candidate : d # c => job'[d] = job[d]
  BY <1>1, <1>7
<1>9. TypeOK'
  <2>1. job' \in [Candidate -> JobStep]
    BY <1>1, <1>7 DEF JobStep
  <2>2. QED
    BY <1>1, <1>3, <1>4, <2>1 DEF Inv, TypeOK, StoreTypeOK, QueueTypeOK, chain
<1>10. SubmitInv'
  BY <1>1, <1>6, <1>4 DEF Inv, SubmitInv, ProcessInv, Idle
<1>11. ProcessInv'
  <2>1. dispatcher = "running"
    BY <1>1 DEF Inv, ProcessInv, Idle
  <2>2. QED  BY <1>1, <2>1 DEF Inv, ProcessInv
<1>12. ChannelInv'
  <2>1. \A i \in DOMAIN channel : channel[i] # c
    BY <1>1 DEF Inv, ChannelInv, Untouched
  <2>2. QED
    BY <1>1, <1>6, <1>8, <2>1, Members DEF Inv, ChannelInv, Untouched
<1>13. JobInv'
  <2> SUFFICES ASSUME NEW d \in Candidate PROVE TaskOK(d)'
    BY DEF JobInv
  <2>1. CASE d = c
    BY <1>1, <1>3, <1>5, <1>6, <1>8, <2>1 DEF TaskOK
  <2>2. CASE d # c
    BY <1>1, <1>6, <1>8, <2>2 DEF Inv, JobInv, TaskOK
  <2>3. QED  BY <2>1, <2>2
<1>14. SaveInv'
  <2> SUFFICES ASSUME NEW v \in writes' PROVE SaveOK(v)'
    BY DEF SaveInv
  <2>1. CASE v = new
    BY <1>1, <1>3, <1>5, <1>6, <2>1 DEF SaveOK
  <2>2. CASE v \in writes
    <3>1. SaveOK(v) /\ (v.op = "save" => v.candidate # c)
      BY <1>5, <2>2 DEF Inv, SaveInv, SavesOf
    <3>2. QED  BY <1>1, <1>6, <3>1 DEF SaveOK
  <2>3. QED  BY <1>4, <2>1, <2>2
<1>15. OwnedInv'
  BY <1>1, <1>8 DEF Inv, OwnedInv, InChannel, IsOpen
<1>16. StoredInv' /\ FlagInv'
  BY <1>1, <1>3, <1>4, <1>5 DEF Inv, StoredInv, FlagInv, FlagsOK, chain
<1>17. QED
  BY <1>9, <1>10, <1>11, <1>12, <1>13, <1>14, <1>15, <1>16 DEF Inv

\* A save commits, or its small record does: the row is still one it may change.
LEMMA SavePreserves ==
  ASSUME Inv, NEW w \in writes, w.op = "save",
         NEW phase \in {w.phase, "Interrupted"}, NEW proven \in BOOLEAN,
         proven => w.proven /\ phase = w.phase,
         SaveSimulation(w.candidate, phase, proven),
         writes' = writes \ {w}, job' = [job EXCEPT ![w.candidate] = JobAfter(w)],
         UNCHANGED <<chain, process, todo, submitter, channel, dispatcher, simulated>>,
         faults' \in 0 .. MaxFaults
  PROVE  Inv'
<1>1. PICK c \in Candidate : c = w.candidate
  BY Members DEF Inv
<1>2. PICK canonical \in BOOLEAN : canonical = (c.at \in published /\ switch = None)
  OBVIOUS
<1>3. PICK new \in Row : /\ new # None /\ new.phase = phase /\ new.proven = proven
                        /\ new.canonical = canonical
                        /\ new.validates = (canonical /\ proven)
                        /\ rows' = IF rows[c].phase = "Interrupted" THEN rows
                                   ELSE [rows EXCEPT ![c] = new]
  <2> DEFINE made == [phase |-> phase, proven |-> proven, canonical |-> canonical,
                      validates |-> canonical /\ proven]
  <2>1. phase \in Phase
    BY Members DEF Inv, Phase
  <2>2. made \in Row
    BY <2>1 DEF Row
  <2>3. rows' = IF rows[c].phase = "Interrupted" THEN rows ELSE [rows EXCEPT ![c] = made]
    BY <1>1, <1>2 DEF SaveSimulation
  <2>4. made # None
    BY <2>2, RowIsThere
  <2>5. QED  BY <2>2, <2>3, <2>4
<1>4. /\ rows \in [Candidate -> Row \cup {None}] /\ job \in [Candidate -> JobStep]
      /\ w \in Write
  BY DEF Inv, TypeOK, StoreTypeOK, QueueTypeOK
<1>5. /\ w.proven => w.phase = "Finished"
      /\ rows[c] # None /\ rows[c].phase \in Open \cup {"Interrupted"} /\ SavesOf(c) = {w}
  BY <1>1 DEF Inv, SaveInv, SaveOK
<1>6. w.phase \in Saved
  BY <1>4 DEF Write
<1>7. /\ SavesOf(c)' = {}
      /\ \A d : d # c => SavesOf(d)' = SavesOf(d)
      /\ Inserts' = Inserts
  <2>1. SavesOf(c)' = {}
    BY <1>5 DEF SavesOf
  <2>2. \A d : d # c => SavesOf(d)' = SavesOf(d)
    BY <1>1 DEF SavesOf
  <2>3. QED  BY <2>1, <2>2 DEF Inserts
<1>8. /\ \A d \in Candidate : d # c => rows'[d] = rows[d] /\ job'[d] = job[d]
      /\ rows'[c] \in {rows[c], new} /\ rows'[c] # None
      /\ rows'[c] = new \/ rows'[c].phase = "Interrupted"
      /\ job'[c] = JobAfter(w)
  BY <1>1, <1>3, <1>4, <1>5
<1>9. JobAfter(w) \in JobStep
  BY <1>1, <1>4 DEF JobAfter, JobStep
<1>10. TypeOK'
  <2>1. rows' \in [Candidate -> Row \cup {None}] /\ job' \in [Candidate -> JobStep]
    BY <1>1, <1>3, <1>4, <1>9
  <2>2. QED  BY <2>1 DEF Inv, TypeOK, StoreTypeOK, QueueTypeOK, chain
<1>11. SubmitInv'
  BY <1>7 DEF Inv, SubmitInv
<1>12. ProcessInv'
  <2>1. CASE dispatcher = "running"
    BY <2>1 DEF Inv, ProcessInv
  <2>2. CASE dispatcher # "running"
    <3>1. job = Idle
      BY <2>2 DEF Inv, ProcessInv
    <3>2. JobAfter(w) = job[c]
      BY <1>1, <3>1 DEF JobAfter, Idle
    <3>3. job' = job
      BY <1>1, <1>4, <3>2
    <3>4. QED  BY <3>3 DEF Inv, ProcessInv
  <2>3. QED  BY <2>1, <2>2
<1>13. ChannelInv'
  <2>1. ASSUME NEW d \in Candidate, Untouched(d) PROVE d # c /\ Untouched(d)'
    <3>1. d # c
      BY <1>5, <2>1 DEF Untouched
    <3>2. QED  BY <1>7, <1>8, <2>1, <3>1 DEF Untouched
  <2>2. QED  BY <2>1, Members DEF Inv, ChannelInv
<1>14. JobInv'
  <2> SUFFICES ASSUME NEW d \in Candidate PROVE TaskOK(d)'
    BY DEF JobInv
  <2>1. CASE d # c
    BY <1>7, <1>8, <2>1 DEF Inv, JobInv, TaskOK
  <2>2. CASE d = c
    <3>1. TaskOK(c)
      BY DEF Inv, JobInv
    <3>2. CASE job[c] = "starting"
      <4>1. w.phase = "Running"
        BY <1>5, <3>1, <3>2 DEF TaskOK
      <4>2. job'[c] = "calling" /\ rows'[c].phase \in Open \cup {"Interrupted"}
        BY <1>1, <1>3, <1>8, <3>2, <4>1 DEF JobAfter, Open
      <4>3. QED  BY <1>7, <1>8, <2>2, <3>1, <3>2, <4>2 DEF TaskOK
    <3>3. CASE job[c] = "ending"
      <4>1. w.phase \in {"QueueExpired", "Finished"}
        BY <1>5, <3>1, <3>3 DEF TaskOK
      <4>2. job'[c] = "done" /\ rows'[c].phase \notin Open
        BY <1>1, <1>3, <1>8, <3>3, <4>1 DEF JobAfter, Open
      <4>3. QED  BY <1>7, <1>8, <2>2, <4>2 DEF TaskOK
    <3>4. CASE job[c] \notin {"starting", "ending"}
      <4>1. job'[c] = job[c]
        BY <1>1, <1>8, <3>4 DEF JobAfter
      <4>2. job[c] \notin {"calling", "done"}
        BY <1>5, <3>1 DEF TaskOK
      <4>3. QED  BY <1>7, <1>8, <2>2, <3>4, <4>1, <4>2 DEF TaskOK
    <3>5. QED  BY <3>2, <3>3, <3>4
  <2>3. QED  BY <2>1, <2>2
<1>15. SaveInv'
  <2> SUFFICES ASSUME NEW v \in writes' PROVE SaveOK(v)'
    BY DEF SaveInv
  <2>1. SaveOK(v) /\ v # w /\ v.candidate \in Candidate
    BY Members DEF Inv, SaveInv
  <2>2. v.op = "save" => v.candidate # c
    BY <1>5, <2>1 DEF SavesOf
  <2>3. QED  BY <1>7, <1>8, <2>1, <2>2 DEF SaveOK
<1>16. OwnedInv'
  <2> SUFFICES ASSUME process = "running", dispatcher = "running",
                      NEW d \in Candidate, IsOpen(d)'
               PROVE  InChannel(d)' \/ job'[d] # "none"
    BY DEF OwnedInv
  <2>1. CASE d # c
    BY <1>8, <2>1 DEF Inv, OwnedInv, IsOpen, InChannel
  <2>2. CASE d = c
    <3>1. phase = "Running" /\ rows[c].phase # "Interrupted"
      BY <1>3, <1>5, <1>6, <1>8, <2>2 DEF IsOpen, Open, Saved
    <3>2. IsOpen(c) /\ ~InChannel(c)
      BY <1>5, <3>1 DEF IsOpen, Inv, ChannelInv, Untouched, InChannel
    <3>3. job[c] # "none"
      BY <3>2 DEF Inv, OwnedInv
    <3>4. QED  BY <1>1, <1>8, <2>2, <3>3 DEF JobAfter
  <2>3. QED  BY <2>1, <2>2
<1>17. StoredInv'
  BY <1>5, <1>8 DEF Inv, StoredInv, chain
<1>18. FlagInv'
  <2> SUFFICES ASSUME NEW d \in Candidate, rows'[d] # None PROVE FlagsOK(d)'
    BY DEF FlagInv
  <2>1. CASE rows'[d] = rows[d]
    BY <2>1 DEF Inv, FlagInv, FlagsOK, chain
  <2>2. CASE d = c /\ rows'[d] = new
    <3>1. UNCHANGED <<published, switch>>
      BY DEF chain
    <3>2. proven => phase = "Finished"
      BY <1>5
    <3>3. QED  BY <1>2, <1>3, <2>2, <3>1, <3>2 DEF FlagsOK
  <2>3. QED  BY <1>8, <2>1, <2>2
<1>19. QED
  BY <1>10, <1>11, <1>12, <1>13, <1>14, <1>15, <1>16, <1>17, <1>18 DEF Inv

LEMMA CommitSavePreserves ==
  ASSUME Inv, NEW w \in writes, CommitSave(w) \/ DiskRefusesSave(w) PROVE Inv'
<1>1. CASE CommitSave(w)
  <2>1. faults' \in 0 .. MaxFaults
    BY <1>1 DEF CommitSave, Inv, TypeOK, QueueTypeOK
  <2>2. w.proven \in BOOLEAN
    BY Members DEF Inv
  <2>3. QED  BY <1>1, <2>1, <2>2, SavePreserves DEF CommitSave
<1>2. CASE DiskRefusesSave(w)
  <2>1. faults' \in 0 .. MaxFaults
    BY <1>2, FaultIsBounded DEF DiskRefusesSave
  <2>2. QED  BY <1>2, <2>1, SavePreserves DEF DiskRefusesSave
<1>3. QED  BY <1>1, <1>2

LEMMA JoinPreserves ==
  ASSUME Inv, NEW c \in Candidate, Join(c) PROVE Inv'
<1>1. /\ dispatcher = "running"
      /\ UNCHANGED <<chain, rows, process, todo, submitter, writes, simulated, faults>>
  BY DEF Join
<1>2. CASE job[c] = "done" /\ job' = [job EXCEPT ![c] = "none"]
           /\ UNCHANGED <<channel, dispatcher>>
  <2>1. job' \in [Candidate -> JobStep] /\ job'[c] = "none"
        /\ \A d \in Candidate : d # c => job'[d] = job[d]
    <3>1. job \in [Candidate -> JobStep] /\ "none" \in JobStep
      BY DEF Inv, TypeOK, QueueTypeOK, JobStep
    <3>2. QED  BY <1>2, <3>1
  <2>2. /\ SavesOf(c) = {} /\ rows[c] # None /\ rows[c].phase \notin Open
    BY <1>2 DEF Inv, JobInv, TaskOK
  <2>3. \A d : SavesOf(d)' = SavesOf(d)
    BY <1>1 DEF SavesOf
  <2>4. TypeOK'
    BY <1>1, <1>2, <2>1 DEF Inv, TypeOK, StoreTypeOK, QueueTypeOK, chain
  <2>5. ProcessInv' /\ SubmitInv' /\ StoredInv' /\ FlagInv'
    BY <1>1, <1>2 DEF Inv, ProcessInv, SubmitInv, Inserts, StoredInv, FlagInv, FlagsOK, chain
  <2>6. ChannelInv'
    <3>1. ASSUME NEW d \in Candidate, Untouched(d) PROVE Untouched(d)'
      BY <1>1, <1>2, <2>1, <2>3, <3>1 DEF Untouched
    <3>2. QED  BY <1>2, <3>1, Members DEF Inv, ChannelInv
  <2>7. JobInv'
    <3> SUFFICES ASSUME NEW d \in Candidate PROVE TaskOK(d)'
      BY DEF JobInv
    <3>1. TaskOK(d)
      BY DEF Inv, JobInv
    <3>2. QED  BY <1>1, <2>1, <2>2, <2>3, <3>1 DEF TaskOK
  <2>8. SaveInv'
    <3> SUFFICES ASSUME NEW v \in writes' PROVE SaveOK(v)'
      BY DEF SaveInv
    <3>1. SaveOK(v)
      BY <1>1 DEF Inv, SaveInv
    <3>2. QED  BY <1>1, <2>3, <3>1 DEF SaveOK
  <2>9. OwnedInv'
    BY <1>1, <1>2, <2>1, <2>2 DEF Inv, OwnedInv, InChannel, IsOpen
  <2>10. QED  BY <2>4, <2>5, <2>6, <2>7, <2>8, <2>9 DEF Inv
<1>3. CASE DropDispatcher("failed")
  <2>1. dispatcher' = "failed"
    BY <1>3 DEF DropDispatcher
  <2>2. SubmitInv'
    BY <1>1 DEF Inv, SubmitInv, Inserts
  <2>3. faults' \in 0 .. MaxFaults
    BY <1>1 DEF Inv, TypeOK, QueueTypeOK
  <2>4. process' \in Process /\ dispatcher' \in {"none", "failed"}
    BY <1>1, <2>1 DEF Inv, TypeOK, QueueTypeOK
  <2>5. channel' = <<>> /\ job' = Idle
    BY <1>3 DEF DropDispatcher
  <2>6. QED  BY <1>1, <2>1, <2>2, <2>3, <2>4, <2>5, DropPreserves
<1>4. QED  BY <1>2, <1>3 DEF Join

\* A write fails: the run that awaited the insert ends, the job of the save fails.
LEMMA WriteFailsPreserves ==
  ASSUME Inv, NEW w \in writes, WriteFails(w) PROVE Inv'
<1>1. /\ writes' = writes \ {w} /\ faults' \in 0 .. MaxFaults
      /\ UNCHANGED <<chain, rows, channel, dispatcher, simulated>>
      /\ todo' \subseteq todo
  BY FaultIsBounded DEF WriteFails
<1>2. PICK c \in Candidate : c = w.candidate
  BY Members DEF Inv
<1>3. job \in [Candidate -> JobStep] /\ w \in Write
  BY DEF Inv, TypeOK, QueueTypeOK
<1>4. \/ job' = job
      \/ w.op = "save" /\ job[c] # "none" /\ job' = [job EXCEPT ![c] = "failed"]
  BY <1>2 DEF WriteFails
<1>5. /\ job' \in [Candidate -> JobStep]
      /\ \A d \in Candidate : \/ job'[d] = job[d]
                              \/ d = c /\ w.op = "save" /\ job[d] # "none" /\ job'[d] = "failed"
  <2>1. "failed" \in JobStep
    BY DEF JobStep
  <2>2. QED  BY <1>2, <1>3, <1>4, <2>1
<1>6. \/ UNCHANGED <<process, submitter>> /\ ~(w.op = "insert" /\ Awaited(w))
      \/ /\ w.op = "insert" /\ Awaited(w)
         /\ process = "running" /\ process' = "draining" /\ submitter' = None
  BY DEF WriteFails, Awaited, Inv, SubmitInv
<1>7. \A d : SavesOf(d)' \subseteq SavesOf(d)
  BY <1>1 DEF SavesOf
<1>8. TypeOK'
  BY <1>1, <1>5, <1>6 DEF Inv, TypeOK, StoreTypeOK, QueueTypeOK, Process, chain
<1>9. ProcessInv'
  <2>1. CASE dispatcher = "running"
    BY <1>1, <1>6, <2>1 DEF Inv, ProcessInv
  <2>2. CASE dispatcher # "running"
    <3>1. job = Idle
      BY <2>2 DEF Inv, ProcessInv
    <3>2. job' = job
      BY <1>4, <3>1 DEF Idle
    <3>3. QED  BY <1>1, <2>2, <3>2 DEF Inv, ProcessInv
  <2>3. QED  BY <2>1, <2>2
<1>10. SubmitInv'
  <2>1. CASE w.op = "insert" /\ Awaited(w)
    BY <1>6, <2>1 DEF SubmitInv
  <2>2. CASE w.op = "insert" /\ ~Awaited(w)
    <3>1. w \in Inserts
      BY <2>2 DEF Inserts
    <3>2. submitter = None
      <4> SUFFICES ASSUME submitter # None PROVE FALSE
        OBVIOUS
      <4>1. PICK p \in Inserted : Inserts = {Insert(submitter.candidate, p)}
        BY DEF Inv, SubmitInv
      <4>2. w = Insert(submitter.candidate, p)
        BY <3>1, <4>1
      <4>3. w.candidate = submitter.candidate
        BY <4>2 DEF Insert
      <4>4. QED  BY <2>2, <4>3 DEF Awaited
    <3>3. process # "running"
      BY <3>1, <3>2 DEF Inv, SubmitInv
    <3>4. QED  BY <1>1, <1>6, <2>2, <3>2, <3>3 DEF Inv, SubmitInv
  <2>3. CASE w.op # "insert"
    <3>1. Inserts' = Inserts
      BY <1>1, <2>3 DEF Inserts
    <3>2. QED  BY <1>1, <1>6, <2>3, <3>1 DEF Inv, SubmitInv
  <2>4. QED  BY <2>1, <2>2, <2>3
<1>11. ChannelInv'
  <2>1. ASSUME NEW d \in Candidate, Untouched(d) PROVE Untouched(d)'
    BY <1>1, <1>5, <1>7, <2>1 DEF Untouched
  <2>2. QED  BY <1>1, <2>1, Members DEF Inv, ChannelInv
<1>12. JobInv'
  <2> SUFFICES ASSUME NEW d \in Candidate PROVE TaskOK(d)'
    BY DEF JobInv
  <2>1. TaskOK(d)
    BY DEF Inv, JobInv
  <2>2. CASE job'[d] = job[d]
    BY <1>1, <1>7, <2>1, <2>2 DEF TaskOK
  <2>3. CASE job[d] # "none" /\ job'[d] = "failed"
    BY <1>1, <2>1, <2>3 DEF TaskOK
  <2>4. QED  BY <1>5, <2>2, <2>3
<1>13. SaveInv'
  <2> SUFFICES ASSUME NEW v \in writes' PROVE SaveOK(v)'
    BY DEF SaveInv
  <2>1. SaveOK(v) /\ v # w /\ v \in writes
    BY <1>1 DEF Inv, SaveInv
  <2>2. v.op = "save" => v \in SavesOf(v.candidate)'
    BY DEF SavesOf
  <2>3. QED  BY <1>1, <1>7, <2>1, <2>2 DEF SaveOK
<1>14. OwnedInv'
  BY <1>1, <1>5, <1>6 DEF Inv, OwnedInv, InChannel, IsOpen
<1>15. StoredInv' /\ FlagInv'
  BY <1>1 DEF Inv, StoredInv, FlagInv, FlagsOK, chain
<1>16. QED
  BY <1>8, <1>9, <1>10, <1>11, <1>12, <1>13, <1>14, <1>15 DEF Inv

(***************************************************************************)
(* The theorems                                                            *)
(***************************************************************************)

LEMMA StutterPreserves == Inv /\ UNCHANGED vars => Inv'
<1> SUFFICES ASSUME Inv, UNCHANGED vars PROVE Inv'
  OBVIOUS
<1>1. UNCHANGED <<rows, process, submitter, channel, dispatcher, job, writes, simulated, faults,
                  published, stored, switch, todo>>
  BY DEF vars, queueVars, chain
<1>2. \A c \in todo : c.at \in stored
  BY DEF Inv, StoredInv
<1>3. QED
  BY <1>1, <1>2, ChainStepPreserves DEF Inv, TypeOK, StoreTypeOK, QueueTypeOK

LEMMA NextPreserves == Inv /\ [Next]_vars => Inv'
<1> SUFFICES ASSUME Inv, [Next]_vars PROVE Inv'
  OBVIOUS
<1>1. CASE Runtime
  BY <1>1, PublishBlockPreserves, SwitchBranchPreserves, RestoreBlockPreserves,
     FinishSwitchPreserves, StartPreserves, StartQueuePreserves, EndOfWorkPreserves,
     SubmitPreserves DEF Runtime
<1>2. CASE Take
  BY <1>2, TakePreserves
<1>3. CASE Shutdown
  BY <1>3, DrainPreserves, InterruptStepPreserves, ExitPreserves DEF Shutdown
<1>4. CASE \E c \in Candidate : Call(c) \/ Join(c)
  BY <1>4, CallPreserves, JoinPreserves
<1>5. CASE \E w \in writes : CommitInsert(w) \/ CommitSave(w)
  BY <1>5, CommitInsertPreserves, CommitSavePreserves
<1>6. CASE Crash \/ InterruptFails
  BY <1>6, CrashPreserves, ExitPreserves
<1>7. CASE \E w \in writes : WriteFails(w) \/ DiskRefusesSave(w)
  BY <1>7, WriteFailsPreserves, CommitSavePreserves
<1>8. CASE UNCHANGED vars
  BY <1>8, StutterPreserves
<1>9. QED  BY <1>1, <1>2, <1>3, <1>4, <1>5, <1>6, <1>7, <1>8 DEF Next

\* The inductive invariant holds in every run of the queue, whatever the blocks,
\* the candidates, the capacity and the faults are.
THEOREM InvariantHolds == Spec => []Inv
<1>1. QED  BY InitInv, NextPreserves, PTL DEF Spec

\* Every variable of the queue and its table keeps the type the code gives it.
THEOREM TypeCorrect == Spec => []TypeOK
<1>1. Inv => TypeOK
  BY DEF Inv
<1>2. QED  BY <1>1, InvariantHolds, PTL

\* refresh_canonical_simulations and save_simulation keep each other right: a row
\* validates its candidate only while it is finished, proven and of a published block.
THEOREM ValidationsAreCurrent == Spec => []ValidatedIsPublished
<1>1. Inv => ValidatedIsPublished
  BY DEF Inv, FlagInv, FlagsOK, ValidatedIsPublished
<1>2. QED  BY <1>1, InvariantHolds, PTL

\* Outside a recovery the flags of a finished row are those of its block, however
\* its answer and the switches of the branch were ordered.
THEOREM FlagsAreExact == Spec => []FlagsFollowChain
<1>1. Inv => FlagsFollowChain
  BY DEF Inv, FlagInv, FlagsOK, FlagsFollowChain
<1>2. QED  BY <1>1, InvariantHolds, PTL

\* submit() and the dispatcher lose no row of a run whose queue works, and have
\* none twice: not through a slow insert, a full channel or a failed write.
THEOREM RowsHaveOneOwner == Spec => []OpenRowsAreOwned
<1>1. Inv => OpenRowsAreOwned
  <2> SUFFICES ASSUME Inv, process = "running", dispatcher = "running",
                      NEW c \in Candidate, IsOpen(c)
               PROVE  InChannel(c) # (job[c] # "none")
    BY DEF OpenRowsAreOwned, InChannel
  <2>1. InChannel(c) \/ job[c] # "none"
    BY DEF Inv, OwnedInv
  <2>2. InChannel(c) => job[c] = "none"
    BY DEF Inv, ChannelInv, Untouched, InChannel
  <2>3. InChannel(c) \in BOOLEAN
    BY DEF InChannel
  <2>4. QED  BY <2>1, <2>2, <2>3
<1>2. QED  BY <1>1, InvariantHolds, PTL

\* Only a save writes over a row, only one save runs for it, and it finds the row
\* still open or interrupted: what has ended stays as it ended.
THEOREM EndsAreFinal == Spec => EndedRowsAreFinal
<1> DEFINE Kept(c) == rows[c] # None /\ ~IsOpen(c) =>
                        /\ rows'[c] # None
                        /\ rows'[c].phase = rows[c].phase /\ rows'[c].proven = rows[c].proven
<1>1. ASSUME Inv, Next PROVE \A c \in Candidate : Kept(c)
  <2> SUFFICES ASSUME NEW c \in Candidate, rows[c] # None, ~IsOpen(c)
               PROVE  /\ rows'[c] # None
                      /\ rows'[c].phase = rows[c].phase /\ rows'[c].proven = rows[c].proven
    OBVIOUS
  <2>1. rows[c] \in Row /\ rows \in [Candidate -> Row \cup {None}]
    BY <1>1 DEF Inv, TypeOK, StoreTypeOK
  <2>2. CASE \E a, t \in Block : Retract(a, t)
    BY <2>1, <2>2, WithCanonicalFacts DEF Retract
  <2>3. CASE CompleteSwitch
    BY <2>1, <2>3, WithCanonicalFacts DEF CompleteSwitch
  <2>4. CASE InterruptSimulations
    BY <2>1, <2>4 DEF InterruptSimulations
  <2>5. CASE \E d \in Candidate, phase \in Phase : InsertSimulation(d, phase)
    BY <2>1, <2>5 DEF InsertSimulation
  <2>6. CASE \E w \in writes, phase \in Phase, proven \in BOOLEAN :
               w.op = "save" /\ SaveSimulation(w.candidate, phase, proven)
    <3>1. PICK w \in writes, phase \in Phase, proven \in BOOLEAN :
            w.op = "save" /\ SaveSimulation(w.candidate, phase, proven)
      BY <2>6
    <3>2. CASE w.candidate = c
      <4>1. rows[c].phase = "Interrupted"
        BY <1>1, <3>1, <3>2 DEF Inv, SaveInv, SaveOK, IsOpen
      <4>2. QED  BY <3>1, <3>2, <4>1 DEF SaveSimulation
    <3>3. CASE w.candidate # c
      BY <2>1, <3>1, <3>3 DEF SaveSimulation
    <3>4. QED  BY <3>2, <3>3
  <2>7. CASE UNCHANGED rows
    BY <2>7
  <2>8. \/ \E a, t \in Block : Retract(a, t)
        \/ CompleteSwitch \/ InterruptSimulations
        \/ \E d \in Candidate, phase \in Phase : InsertSimulation(d, phase)
        \/ \E w \in writes, phase \in Phase, proven \in BOOLEAN :
             w.op = "save" /\ SaveSimulation(w.candidate, phase, proven)
        \/ UNCHANGED rows
    <3>1. CASE Runtime
      BY <3>1 DEF Runtime, PublishBlock, SwitchBranch, RestoreBlock, FinishSwitch, Start,
                  StartQueue, EndOfWork, Submit
    <3>2. CASE Take \/ Shutdown \/ Crash \/ InterruptFails
      BY <3>2 DEF Take, Shutdown, Drained, DrainTimeout, Interrupt, Exit, Crash, InterruptFails
    <3>3. CASE \E d \in Candidate : Call(d) \/ Join(d)
      BY <3>3 DEF Call, Join
    <3>4. CASE \E w \in writes : CommitInsert(w) \/ CommitSave(w)
      BY <1>1, <3>4, Members DEF Inv, CommitInsert, CommitSave
    <3>5. CASE \E w \in writes : WriteFails(w) \/ DiskRefusesSave(w)
      BY <1>1, <3>5, Members DEF Inv, WriteFails, DiskRefusesSave, Phase
    <3>6. QED  BY <1>1, <3>1, <3>2, <3>3, <3>4, <3>5 DEF Next
  <2>9. QED  BY <2>2, <2>3, <2>4, <2>5, <2>6, <2>7, <2>8
<1>2. ASSUME Inv, [Next]_vars PROVE [\A c \in Candidate : Kept(c)]_vars
  BY <1>1, <1>2
<1>3. QED  BY <1>2, InvariantHolds, PTL DEF Spec, EndedRowsAreFinal

\* One candidate is simulated once at most: a job is sent only when its row is new,
\* and the channel and the tasks hold a candidate once.
THEOREM CallsAreNotRepeated == Spec => SimulatedOnce
<1>1. ASSUME Inv, [Next]_vars
      PROVE  [\A c \in Candidate :
                job[c] = "calling" /\ job'[c] = "ending" => c \notin simulated]_vars
  BY <1>1 DEF Inv, JobInv, TaskOK
<1>2. QED  BY <1>1, InvariantHolds, PTL DEF Spec, SimulatedOnce

(***************************************************************************)
(* The reports: the samples in their order                                 *)
(***************************************************************************)

LEMMA BeforeIsOrder ==
  ASSUME NEW a \in Candidate, NEW b \in Candidate, NEW c \in Candidate
  PROVE  /\ ~Before(a, a)
         /\ Before(a, b) /\ Before(b, c) => Before(a, c)
<1>1. /\ Number(a.at) \in Nat /\ Number(b.at) \in Nat /\ Number(c.at) \in Nat
      /\ a.index \in Nat /\ b.index \in Nat /\ c.index \in Nat
  BY CandidateAssumption, BlockFacts
<1>2. QED  BY <1>1 DEF Before

\* Every sample has its own place, the number of samples before it, and they are ordered
\* by their places.
LEMMA SamplesAreOrdered ==
  ASSUME IsFiniteSet(Sampled),
         \A c, d \in Sampled : c # d => Before(c, d) \/ Before(d, c)
  PROVE  /\ Cardinality(Sampled) \in Nat
         /\ Samples \in [1 .. Cardinality(Sampled) -> Sampled]
         /\ \A c \in Sampled : \E i \in 1 .. Cardinality(Sampled) : Samples[i] = c
         /\ \A i, j \in 1 .. Cardinality(Sampled) : i < j => Before(Samples[i], Samples[j])
<1> DEFINE n == Cardinality(Sampled)
           Lower(c) == {d \in Sampled : Before(d, c)}
<1>1. n \in Nat
  BY FS_CardinalityType
<1>2. \A c \in Sampled : Place(c, Sampled) = Cardinality(Lower(c)) + 1
  BY DEF Place
<1>3. ASSUME NEW c \in Sampled
      PROVE  IsFiniteSet(Lower(c)) /\ Cardinality(Lower(c)) \in Nat /\ Cardinality(Lower(c)) < n
  <2>1. Lower(c) \in SUBSET Sampled /\ c \notin Lower(c)
    BY BeforeIsOrder DEF Sampled, CandidatesOf
  <2> HIDE DEF Lower
  <2>2. /\ IsFiniteSet(Lower(c)) /\ Cardinality(Lower(c)) <= Cardinality(Sampled)
        /\ Cardinality(Lower(c)) # Cardinality(Sampled)
    BY <2>1, FS_Subset
  <2>3. Cardinality(Lower(c)) \in Nat
    BY <2>2, FS_CardinalityType
  <2>4. QED  BY <1>1, <2>2, <2>3
<1>4. ASSUME NEW c \in Sampled, NEW d \in Sampled, Before(c, d)
      PROVE  Place(c, Sampled) < Place(d, Sampled)
  <2>1. Lower(c) \in SUBSET Lower(d) /\ c \in Lower(d) /\ c \notin Lower(c)
    BY <1>4, BeforeIsOrder DEF Sampled, CandidatesOf
  <2> HIDE DEF Lower
  <2>2. /\ Cardinality(Lower(c)) <= Cardinality(Lower(d))
        /\ Cardinality(Lower(c)) # Cardinality(Lower(d))
    BY <1>3, <2>1, FS_Subset
  <2>3. Cardinality(Lower(c)) \in Nat /\ Cardinality(Lower(d)) \in Nat
    BY <1>3
  <2>4. QED  BY <1>2, <2>2, <2>3
<1> DEFINE place == [c \in Sampled |-> Place(c, Sampled)]
<1>5. \A c \in Sampled : Place(c, Sampled) \in 1 .. n
  <2> SUFFICES ASSUME NEW c \in Sampled PROVE Place(c, Sampled) \in 1 .. n
    OBVIOUS
  <2> HIDE DEF Lower, n
  <2>1. QED  BY <1>1, <1>2, <1>3
<1>6. \A c, d \in Sampled : Place(c, Sampled) = Place(d, Sampled) => c = d
  <2> SUFFICES ASSUME NEW c \in Sampled, NEW d \in Sampled, Place(c, Sampled) = Place(d, Sampled), c # d
               PROVE  FALSE
    OBVIOUS
  <2>1. Place(c, Sampled) < Place(d, Sampled) \/ Place(d, Sampled) < Place(c, Sampled)
    BY <1>4
  <2> HIDE DEF n
  <2>2. Place(c, Sampled) \in Int /\ Place(d, Sampled) \in Int
    BY <1>5
  <2>3. QED  BY <2>1, <2>2
<1> HIDE DEF Lower, n
<1>7. place \in Injection(Sampled, 1 .. n)
  BY <1>5, <1>6 DEF Injection, IsInjective
<1>8. IsFiniteSet(1 .. n) /\ Cardinality(1 .. n) = n
  BY <1>1, FS_Interval
<1>9. place \in Surjection(Sampled, 1 .. n)
  <2>1. n = Cardinality(Sampled)
    BY DEF n
  <2> HIDE DEF place
  <2>2. QED  BY <1>7, <1>8, <2>1, FS_Injection
<1>10. \A i \in 1 .. n : \E c \in Sampled : Place(c, Sampled) = i
  BY <1>9 DEF Surjection
<1>11. Samples = [i \in 1 .. n |-> CHOOSE c \in Sampled : Place(c, Sampled) = i]
  BY DEF Samples, n
<1>12. \A i \in 1 .. n : Samples[i] \in Sampled /\ Place(Samples[i], Sampled) = i
  BY <1>10, <1>11
<1>13. Samples \in [1 .. n -> Sampled]
  BY <1>11, <1>12
<1>14. \A c \in Sampled : \E i \in 1 .. n : Samples[i] = c
  BY <1>5, <1>6, <1>12
<1>15. ASSUME NEW i \in 1 .. n, NEW j \in 1 .. n, i < j
       PROVE  Before(Samples[i], Samples[j])
  <2>1. Samples[i] # Samples[j]
    BY <1>12, <1>15
  <2>2. CASE Before(Samples[j], Samples[i])
    <3>1. Place(Samples[j], Sampled) < Place(Samples[i], Sampled)
      BY <1>4, <1>12, <2>2
    <3>2. j < i
      BY <1>12, <3>1
    <3>3. QED  BY <1>1, <1>15, <3>2
  <2>3. QED  BY <1>12, <2>1, <2>2
<1>16. QED  BY <1>1, <1>13, <1>14, <1>15 DEF n

(***************************************************************************)
(* One sample                                                              *)
(***************************************************************************)

\* On a branch a block is known by its height.
LEMMA BranchHeights ==
  ASSUME NEW S, IsBranch(S), NEW a \in S, NEW b \in S
  PROVE  /\ Number(a) \in Nat
         /\ OnChain(a, b) <=> Number(a) <= Number(b)
         /\ Number(a) = Number(b) => a = b
         /\ Number(a) + 1 = Number(b) => a = Parent(b)
         /\ a = Parent(b) /\ Number(b) > 0 => Number(a) + 1 = Number(b)
<1>1. a \in Block /\ b \in Block /\ (OnChain(a, b) \/ OnChain(b, a))
  BY DEF IsBranch
<1>2. Number(a) \in Nat /\ Number(b) \in Nat
  BY <1>1, BlockFacts
<1>3. Number(a) = Number(b) => a = b
  BY <1>1, AncestorHeights
<1>4. OnChain(a, b) <=> Number(a) <= Number(b)
  <2>1. OnChain(a, b) => Number(a) <= Number(b)
    BY <1>1, AncestorHeights
  <2>2. ASSUME Number(a) <= Number(b), OnChain(b, a)  PROVE OnChain(a, b)
    <3>1. Number(b) <= Number(a)
      BY <1>1, <2>2, AncestorHeights
    <3>2. a = b
      BY <1>2, <1>3, <2>2, <3>1
    <3>3. QED  BY <2>2, <3>2
  <2>3. QED  BY <1>1, <2>1, <2>2
<1>5. ASSUME Number(a) + 1 = Number(b)  PROVE a = Parent(b)
  <2>1. OnChain(a, b) /\ a # b /\ Number(b) > 0
    BY <1>2, <1>4, <1>5
  <2>2. /\ OnChain(a, Parent(b)) /\ Parent(b) \in Block
        /\ Number(Parent(b)) = Number(b) - 1
    BY <1>1, <2>1, ParentFacts
  <2>3. Number(a) = Number(Parent(b))
    BY <1>2, <1>5, <2>2
  <2>4. QED  BY <1>1, <2>2, <2>3, AncestorHeights
<1>6. ASSUME a = Parent(b), Number(b) > 0  PROVE Number(a) + 1 = Number(b)
  <2>1. Number(Parent(b)) = Number(b) - 1
    BY <1>1, <1>6, ParentFacts
  <2>2. QED  BY <1>2, <1>6, <2>1
<1>7. QED  BY <1>2, <1>3, <1>4, <1>5, <1>6

\* The samples of a window, by their heights.
Within(c, w) ==
  c.index = w.route /\ Number(w.first) <= Number(c.at) /\ Number(c.at) <= Number(w.last)

Window ==
  [route : Nat, first : published, last : published, blocks : Nat, verified : SUBSET Candidate]

\* A window of the samples P has a sample at every block between its ends, and none of
\* its route beside them.
WindowOK(P, w) ==
  /\ w \in Window
  /\ Number(w.first) <= Number(w.last)
  /\ w.blocks = Number(w.last) - Number(w.first) + 1
  /\ \A b \in published : Number(w.first) <= Number(b) /\ Number(b) <= Number(w.last) =>
       [at |-> b, index |-> w.route] \in P
  /\ w.verified = {c \in P : Within(c, w) /\ Verified(c)}
  /\ \A c \in P : c.index = w.route =>
       Number(c.at) + 1 # Number(w.first) /\ Number(c.at) # Number(w.last) + 1

\* Every sample is in one window.
WindowsOK(P, Ws) ==
  /\ \A w \in Ws : WindowOK(P, w)
  /\ \A c \in P : \E w \in Ws : Within(c, w)
  /\ \A v, w \in Ws : \A c \in P : Within(c, v) /\ Within(c, w) => v = w

LEMMA Continued ==
  ASSUME NEW w \in Window, NEW b, NEW s
  PROVE  [w EXCEPT !.last = b, !.blocks = @ + 1, !.verified = @ \cup s]
           = [route |-> w.route, first |-> w.first, last |-> b, blocks |-> w.blocks + 1,
              verified |-> w.verified \cup s]
<1> DEFINE x == [w EXCEPT !.last = b]
           y == [x EXCEPT !.blocks = @ + 1]
           z == [y EXCEPT !.verified = @ \cup s]
<1>1. w = [route |-> w.route, first |-> w.first, last |-> w.last, blocks |-> w.blocks,
           verified |-> w.verified]
  BY DEF Window
<1>2. x = [route |-> w.route, first |-> w.first, last |-> b, blocks |-> w.blocks,
           verified |-> w.verified]
  BY <1>1
<1> HIDE DEF x
<1>3. y = [route |-> w.route, first |-> w.first, last |-> b, blocks |-> w.blocks + 1,
           verified |-> w.verified]
  BY <1>2
<1> HIDE DEF y
<1>4. z = [route |-> w.route, first |-> w.first, last |-> b, blocks |-> w.blocks + 1,
           verified |-> w.verified \cup s]
  <2> DEFINE u == w.verified \cup s
  <2>1. y.verified \cup s = u
    BY <1>3
  <2>2. z = [y EXCEPT !.verified = u]
    BY <2>1, Zenon
  <2> HIDE DEF u, z
  <2>3. z = [route |-> w.route, first |-> w.first, last |-> b, blocks |-> w.blocks + 1,
             verified |-> u]
    BY <1>3, <2>2
  <2>4. QED  BY <2>3 DEF u
<1>5. QED  BY <1>4 DEF x, y

\* The next sample in the order continues the window that ends at its parent, if there is
\* one, or begins a window.
LEMMA AddSampleKeeps ==
  ASSUME IsBranch(published), NEW P \in SUBSET Candidate, \A d \in P : d.at \in published,
         NEW Ws, WindowsOK(P, Ws),
         NEW c \in Candidate, c.at \in published, \A d \in P : Before(d, c)
  PROVE  WindowsOK(P \cup {c}, AddSample(Ws, c))
<1> DEFINE n == Number(c.at)
           Q == P \cup {c}
           verified == IF Verified(c) THEN {c} ELSE {}
<1>1. n \in Nat /\ c.index \in Nat
  BY CandidateAssumption, BranchHeights
<1>2. \A d \in P : Number(d.at) \in Nat /\ d.index \in Nat
  BY CandidateAssumption, BranchHeights
<1>10. c = [at |-> c.at, index |-> c.index]
  BY CandidateAssumption
<1>3. \A d \in P : Number(d.at) <= n /\ (d.index = c.index => Number(d.at) < n)
  BY <1>1, <1>2 DEF Before
<1>4. c \notin P
  BY <1>1, <1>3
<1>5. ASSUME NEW w \in Ws
      PROVE  /\ w \in Window /\ w.first \in published /\ w.last \in published
             /\ Number(w.first) \in Nat /\ Number(w.last) \in Nat
             /\ Number(w.first) <= Number(w.last)
             /\ Number(w.last) <= n
             /\ (w.route = c.index => Number(w.last) < n)
  <2>1. /\ w \in Window /\ w.first \in published /\ w.last \in published
        /\ Number(w.first) <= Number(w.last)
    BY DEF WindowsOK, WindowOK, Window
  <2>2. Number(w.first) \in Nat /\ Number(w.last) \in Nat
    BY <2>1, BranchHeights
  <2>3. [at |-> w.last, index |-> w.route] \in P
    BY <2>1, <2>2 DEF WindowsOK, WindowOK
  <2>4. /\ [at |-> w.last, index |-> w.route].at = w.last
        /\ [at |-> w.last, index |-> w.route].index = w.route
    OBVIOUS
  <2>5. Number(w.last) <= n /\ (w.route = c.index => Number(w.last) < n)
    BY <1>3, <2>3, <2>4
  <2>6. QED  BY <2>1, <2>2, <2>5
<1>11. \A w \in Ws : [at |-> w.last, index |-> w.route] \in P
  <2> SUFFICES ASSUME NEW w \in Ws PROVE [at |-> w.last, index |-> w.route] \in P
    OBVIOUS
  <2>1. w.last \in published /\ Number(w.first) <= Number(w.last) /\ Number(w.last) \in Nat
    BY <1>5
  <2>2. WindowOK(P, w)
    BY DEF WindowsOK
  <2>3. QED  BY <2>1, <2>2 DEF WindowOK
<1>6. \A w \in Ws : Extends(w, c) <=> w.route = c.index /\ Number(w.last) + 1 = n
  <2> SUFFICES ASSUME NEW w \in Ws
               PROVE  Extends(w, c) <=> w.route = c.index /\ Number(w.last) + 1 = n
    OBVIOUS
  <2>1. Number(w.last) + 1 = Number(c.at) => w.last = Parent(c.at)
    BY <1>5, BranchHeights
  <2>2. QED  BY <2>1 DEF Extends
<1>7. CASE \A w \in Ws : ~Extends(w, c)
  <2> DEFINE new == [route |-> c.index, first |-> c.at, last |-> c.at, blocks |-> 1,
                     verified |-> verified]
  <2>1. AddSample(Ws, c) = Ws \cup {new}
    BY <1>7 DEF AddSample
  <2>2. new \in Window
    BY <1>1 DEF Window
  <2>3. \A d \in Q : Within(d, new) <=> d = c
    BY <1>1, <1>2, <1>3 DEF Within
  <2>4. ASSUME NEW d \in P, d.index = c.index
        PROVE  Number(d.at) + 1 # n /\ Number(d.at) # n + 1
    <3>1. PICK w \in Ws : Within(d, w)
      BY DEF WindowsOK
    <3>2. w.route = c.index /\ Number(d.at) <= Number(w.last) /\ Number(w.last) < n
      BY <1>5, <2>4, <3>1 DEF Within
    <3>3. Number(w.last) + 1 # n
      BY <1>6, <1>7, <3>2
    <3>4. QED  BY <1>1, <1>2, <1>3, <1>5, <3>2, <3>3
  <2>5. WindowOK(Q, new)
    <3>1. \A b \in published : Number(b) = n => b = c.at
      BY BranchHeights
    <3>2. \A b \in published : n <= Number(b) /\ Number(b) <= n =>
            [at |-> b, index |-> c.index] \in Q
      BY <1>1, <1>10, <3>1, BranchHeights
    <3>3. verified = {d \in Q : Within(d, new) /\ Verified(d)}
      <4> HIDE DEF new
      <4>1. {d \in Q : Within(d, new) /\ Verified(d)} = {d \in {c} : Verified(d)}
        BY <2>3
      <4>2. QED  BY <4>1
    <3>4. 1 = n - n + 1 /\ n <= n
      BY <1>1
    <3>5. \A d \in Q : d.index = c.index => Number(d.at) + 1 # n /\ Number(d.at) # n + 1
      BY <1>1, <2>4
    <3> HIDE DEF n, Q, verified
    <3>6. /\ new.first = c.at /\ new.last = c.at /\ new.route = c.index /\ new.blocks = 1
          /\ new.verified = verified
      OBVIOUS
    <3> HIDE DEF new
    <3>7. QED  BY <2>2, <3>2, <3>3, <3>4, <3>5, <3>6 DEF WindowOK, n
  <2>6. ASSUME NEW w \in Ws  PROVE ~Within(c, w) /\ WindowOK(Q, w)
    <3>1. ~Within(c, w)
      BY <1>1, <1>5 DEF Within
    <3>2. c.index = w.route => n + 1 # Number(w.first) /\ n # Number(w.last) + 1
      BY <1>1, <1>5, <1>6, <1>7
    <3>3. {d \in Q : Within(d, w) /\ Verified(d)} = {d \in P : Within(d, w) /\ Verified(d)}
      BY <3>1
    <3>4. WindowOK(P, w)
      BY DEF WindowsOK
    <3>5. QED  BY <3>1, <3>2, <3>3, <3>4 DEF WindowOK
  <2> HIDE DEF new
  <2>7. \A d \in Q : \E w \in Ws \cup {new} : Within(d, w)
    BY <2>3 DEF WindowsOK
  <2>8. \A v, w \in Ws \cup {new} : \A d \in Q : Within(d, v) /\ Within(d, w) => v = w
    BY <1>4, <2>3, <2>6 DEF WindowsOK
  <2>9. QED  BY <2>1, <2>5, <2>6, <2>7, <2>8 DEF WindowsOK
<1>8. ASSUME NEW v \in Ws, Extends(v, c)
      PROVE  WindowsOK(Q, AddSample(Ws, c))
  <2> DEFINE new == [v EXCEPT !.last = c.at, !.blocks = @ + 1, !.verified = @ \cup verified]
  <2>1. v.route = c.index /\ Number(v.last) + 1 = n
    BY <1>6, <1>8
  <2>2. ASSUME NEW w \in Ws, w.route = c.index, Number(w.last) + 1 = n  PROVE w = v
    <3>1. w.last = v.last
      <4>1. Number(w.last) = Number(v.last)
        BY <1>5, <2>1, <2>2
      <4>2. QED  BY <1>5, <4>1, BranchHeights
    <3> DEFINE d == [at |-> v.last, index |-> c.index]
    <3>2. d \in P /\ d.at = v.last /\ d.index = c.index
      BY <1>11, <2>1
    <3> HIDE DEF d
    <3>3. Within(d, v) /\ Within(d, w)
      BY <1>5, <2>1, <2>2, <3>1, <3>2 DEF Within
    <3>4. QED  BY <3>2, <3>3 DEF WindowsOK
  <2>3. {w \in Ws : Extends(w, c)} = {v}
    BY <1>6, <1>8, <2>2
  <2>4. AddSample(Ws, c) = {IF w = v THEN new ELSE w : w \in Ws}
    <3>1. AddSample(Ws, c)
            = {IF w \in {v} THEN [w EXCEPT !.last = c.at, !.blocks = @ + 1,
                                            !.verified = @ \cup verified] ELSE w : w \in Ws}
      BY <2>3 DEF AddSample
    <3>2. QED  BY <3>1
  <2>5. AddSample(Ws, c) = (Ws \ {v}) \cup {new}
    BY <2>4
  <2>6. WindowOK(P, v)
    BY DEF WindowsOK
  <2>7. /\ new \in Window /\ new.route = c.index /\ new.first = v.first /\ new.last = c.at
        /\ new.blocks = v.blocks + 1 /\ new.verified = v.verified \cup verified
    <3>1. v \in Window /\ verified \in SUBSET Candidate /\ c.at \in published
      BY <1>5
    <3> HIDE DEF verified
    <3>2. new = [route |-> v.route, first |-> v.first, last |-> c.at, blocks |-> v.blocks + 1,
                 verified |-> v.verified \cup verified]
      BY <3>1, Continued
    <3>3. /\ v.route \in Nat /\ v.first \in published /\ v.blocks + 1 \in Nat
          /\ v.verified \cup verified \in SUBSET Candidate
      BY <3>1 DEF Window
    <3> HIDE DEF new
    <3>4. QED  BY <2>1, <3>1, <3>2, <3>3 DEF Window
  <2> HIDE DEF new
  <2>8. /\ Number(new.first) <= Number(v.last) /\ Number(new.last) = Number(v.last) + 1
        /\ Number(new.first) \in Nat /\ Number(v.last) \in Nat
    BY <1>5, <2>1, <2>7
  <2>9. \A d \in P : Within(d, new) <=> Within(d, v)
    BY <1>2, <1>3, <2>1, <2>7, <2>8 DEF Within
  <2>10. Within(c, new) /\ ~Within(c, v)
    BY <1>1, <1>5, <2>1, <2>7, <2>8 DEF Within
  <2>11. WindowOK(Q, new)
    <3>1. ASSUME NEW b \in published, Number(new.first) <= Number(b), Number(b) <= Number(new.last)
          PROVE  [at |-> b, index |-> new.route] \in Q
      <4>1. Number(b) \in Nat
        BY BranchHeights
      <4>2. CASE Number(b) <= Number(v.last)
        BY <2>1, <2>6, <2>7, <3>1, <4>2 DEF WindowOK
      <4>3. CASE Number(b) = n
        <5>1. b = c.at
          BY <4>3, BranchHeights
        <5>2. QED  BY <1>10, <2>7, <5>1
      <4>4. QED  BY <2>1, <2>7, <2>8, <3>1, <4>1, <4>2, <4>3
    <3>2. new.verified = {d \in Q : Within(d, new) /\ Verified(d)}
      <4>1. v.verified = {d \in P : Within(d, new) /\ Verified(d)}
        BY <2>6, <2>9 DEF WindowOK
      <4>2. verified = {d \in {c} : Within(d, new) /\ Verified(d)}
        BY <2>10
      <4>3. QED  BY <2>7, <4>1, <4>2
    <3>3. ASSUME NEW d \in Q, d.index = new.route
          PROVE  Number(d.at) + 1 # Number(new.first) /\ Number(d.at) # Number(new.last) + 1
      <4>1. CASE d = c
        BY <1>1, <2>1, <2>7, <2>8, <4>1
      <4>2. CASE d \in P
        <5>1. Number(d.at) + 1 # Number(v.first)
          BY <2>1, <2>6, <2>7, <3>3, <4>2 DEF WindowOK
        <5>2. QED  BY <1>1, <1>2, <1>3, <2>1, <2>7, <2>8, <4>2, <5>1
      <4>3. QED  BY <3>3, <4>1, <4>2
    <3>4. new.blocks = Number(new.last) - Number(new.first) + 1
      <4>1. v.blocks = Number(v.last) - Number(v.first) + 1
        BY <2>6 DEF WindowOK
      <4>2. QED  BY <2>7, <2>8, <4>1
    <3>5. Number(new.first) <= Number(new.last)
      BY <2>8
    <3>6. QED  BY <2>7, <3>1, <3>2, <3>3, <3>4, <3>5 DEF WindowOK
  <2>12. ASSUME NEW w \in Ws, w # v  PROVE ~Within(c, w) /\ WindowOK(Q, w)
    <3>1. ~Within(c, w)
      BY <1>1, <1>5 DEF Within
    <3>2. c.index = w.route => n + 1 # Number(w.first) /\ n # Number(w.last) + 1
      BY <1>1, <1>5, <2>2, <2>12
    <3>3. {d \in Q : Within(d, w) /\ Verified(d)} = {d \in P : Within(d, w) /\ Verified(d)}
      BY <3>1
    <3>4. WindowOK(P, w)
      BY DEF WindowsOK
    <3>5. QED  BY <3>1, <3>2, <3>3, <3>4 DEF WindowOK
  <2>13. \A d \in Q : \E w \in (Ws \ {v}) \cup {new} : Within(d, w)
    <3>1. \A d \in P : \E w \in Ws : Within(d, w)
      BY DEF WindowsOK
    <3>2. QED  BY <2>9, <2>10, <3>1
  <2>14. ASSUME NEW u \in (Ws \ {v}) \cup {new}, NEW w \in (Ws \ {v}) \cup {new},
                NEW d \in Q, Within(d, u), Within(d, w)
         PROVE  u = w
    <3>1. \A x, y \in Ws : \A e \in P : Within(e, x) /\ Within(e, y) => x = y
      BY DEF WindowsOK
    <3>2. CASE d = c
      BY <2>12, <2>14, <3>2
    <3>3. CASE d \in P
      BY <2>9, <2>14, <3>1, <3>3
    <3>4. QED  BY <3>2, <3>3
  <2>15. QED  BY <2>5, <2>11, <2>12, <2>13, <2>14 DEF WindowsOK
<1>9. QED  BY <1>7, <1>8

(***************************************************************************)
(* All samples                                                             *)
(***************************************************************************)

\* The greatest of a bounded set of numbers.
LEMMA MaxFacts ==
  ASSUME NEW n \in Nat, NEW S \in SUBSET (0 .. n), S # {}
  PROVE  Max(S) \in S /\ \A y \in S : y <= Max(S)
<1> DEFINE T == {n - x : x \in S}
<1>1. T \in SUBSET Nat /\ T # {}
  <2>1. \A x \in S : n - x \in Nat
    OBVIOUS
  <2>2. QED  BY <2>1
<1>2. PICK t \in T : \A u \in T : t <= u
  BY <1>1, Least
<1>3. PICK x \in S : t = n - x
  BY <1>2
<1>4. \A y \in S : x >= y
  <2> SUFFICES ASSUME NEW y \in S PROVE x >= y
    OBVIOUS
  <2>1. n - x <= n - y
    BY <1>2, <1>3
  <2>2. QED  BY <2>1
<1>5. Max(S) \in S /\ \A y \in S : Max(S) >= y
  BY <1>4 DEF Max
<1>6. QED  BY <1>5

LEMMA IndexSets ==
  ASSUME NEW n \in Nat, NEW s \in SUBSET (1 .. n + 1), s # {}
  PROVE  /\ Max(s) \in s /\ Max(s) \in 1 .. n + 1
         /\ s \ {Max(s)} \in SUBSET (1 .. n)
<1>1. Max(s) \in s /\ \A y \in s : y <= Max(s)
  <2>1. n + 1 \in Nat /\ s \in SUBSET (0 .. n + 1)
    OBVIOUS
  <2>2. QED  BY <2>1, MaxFacts
<1>2. ASSUME NEW y \in s, y # Max(s)
      PROVE  y \in 1 .. n
  <2>1. Max(s) \in 1 .. n + 1 /\ y \in 1 .. n + 1 /\ y <= Max(s)
    BY <1>1, <1>2
  <2>2. QED  BY <1>2, <2>1
<1>3. QED  BY <1>1, <1>2

\* f is the fold of the samples over sets of indices up to n.
FoldsSamples(f, seq, n) ==
  f = [s \in SUBSET (1 .. n) |->
         IF s = {} THEN {} ELSE AddSample(f[s \ {Max(s)}], seq[Max(s)])]

LEMMA SampleFoldExists ==
  ASSUME NEW seq, NEW n \in Nat
  PROVE  \E f : FoldsSamples(f, seq, n)
<1> DEFINE Missing == {k \in Nat : ~\E f : FoldsSamples(f, seq, k)}
<1>1. 0 \notin Missing
  <2> DEFINE f == [s \in {{}} |-> {}]
  <2>1. SUBSET (1 .. 0) = {{}}
    <3>1. 1 .. 0 = {}
      OBVIOUS
    <3>2. QED  BY <3>1
  <2>2. f = [s \in SUBSET (1 .. 0) |->
               IF s = {} THEN {} ELSE AddSample(f[s \ {Max(s)}], seq[Max(s)])]
    BY <2>1
  <2>3. FoldsSamples(f, seq, 0)
    BY <2>2 DEF FoldsSamples
  <2>4. QED  BY <2>3
<1>2. ASSUME NEW k \in Nat, k \notin Missing  PROVE k + 1 \notin Missing
  <2>1. PICK f : FoldsSamples(f, seq, k)
    BY <1>2
  <2> DEFINE Step(h, s) == IF s = {} THEN {} ELSE AddSample(h[s \ {Max(s)}], seq[Max(s)])
  <2>2. \A s \in SUBSET (1 .. k) : f[s] = Step(f, s)
    BY <2>1 DEF FoldsSamples
  <2> DEFINE g == [s \in SUBSET (1 .. k + 1) |-> Step(f, s)]
  <2>3. \A s \in SUBSET (1 .. k) : s \in SUBSET (1 .. k + 1) /\ g[s] = f[s]
    BY <2>2
  <2>4. ASSUME NEW s \in SUBSET (1 .. k + 1)  PROVE Step(f, s) = Step(g, s)
    BY <2>3, IndexSets
  <2>5. g = [s \in SUBSET (1 .. k + 1) |-> Step(g, s)]
    BY <2>4
  <2>6. FoldsSamples(g, seq, k + 1)
    BY <2>5 DEF FoldsSamples
  <2>7. QED  BY <2>6
<1> HIDE DEF Missing
<1>3. Missing = {}
  <2> SUFFICES ASSUME Missing # {} PROVE FALSE
    OBVIOUS
  <2>1. Missing \in SUBSET Nat
    BY DEF Missing
  <2>2. PICK k \in Missing : \A j \in Missing : k <= j
    BY <2>1, Least
  <2>3. k # 0 /\ k \in Nat
    BY <1>1, <2>1, <2>2
  <2>4. k - 1 \in Nat /\ k - 1 \notin Missing /\ (k - 1) + 1 = k
    BY <2>2, <2>3
  <2>5. QED  BY <1>2, <2>2, <2>4
<1>4. QED  BY <1>3 DEF Missing

\* The windows are the fold over all indices.
LEMMA WindowsAreFold ==
  ASSUME NEW n \in Nat, DOMAIN Samples = 1 .. n
  PROVE  \E f : FoldsSamples(f, Samples, n) /\ Windows = f[1 .. n]
<1> DEFINE seq == Samples
<1> DEFINE iter[s \in SUBSET DOMAIN seq] ==
             IF s = {} THEN {} ELSE AddSample(iter[s \ {Max(s)}], seq[Max(s)])
<1>1. FoldLeft(AddSample, {}, seq) = iter[DOMAIN seq]
  BY DEF FoldLeft, MapThenFoldSet
<1>2. Windows = iter[1 .. n]
  BY <1>1 DEF Windows
<1>3. PICK f : FoldsSamples(f, seq, n)
  BY SampleFoldExists
<1>4. iter = [s \in SUBSET DOMAIN seq |->
                IF s = {} THEN {} ELSE AddSample(iter[s \ {Max(s)}], seq[Max(s)])]
  <2> DEFINE Is(g) == g = [s \in SUBSET DOMAIN seq |->
                IF s = {} THEN {} ELSE AddSample(g[s \ {Max(s)}], seq[Max(s)])]
  <2>1. Is(f)
    BY <1>3 DEF FoldsSamples
  <2>2. iter = CHOOSE g : Is(g)
    OBVIOUS
  <2> HIDE DEF Is, iter
  <2>3. Is(iter)
    BY <2>1, <2>2
  <2>4. QED  BY <2>3 DEF Is
<1>5. FoldsSamples(iter, seq, n)
  BY <1>4 DEF FoldsSamples
<1>6. QED  BY <1>2, <1>5

\* Turn by turn, the windows are those of the samples up to the last index taken.
LEMMA WindowsCoverSamples ==
  ASSUME IsBranch(published), NEW n \in Nat, NEW S \in SUBSET Candidate,
         \A c \in S : c.at \in published,
         Samples \in [1 .. n -> S], \A c \in S : \E i \in 1 .. n : Samples[i] = c,
         \A i, j \in 1 .. n : i < j => Before(Samples[i], Samples[j])
  PROVE  WindowsOK(S, Windows)
<1>1. PICK f : FoldsSamples(f, Samples, n) /\ Windows = f[1 .. n]
  BY WindowsAreFold
<1> DEFINE P(k) == {Samples[i] : i \in 1 .. k}
           Wrong == {k \in 0 .. n : ~WindowsOK(P(k), f[1 .. k])}
<1>2. \A s \in SUBSET (1 .. n) :
        f[s] = IF s = {} THEN {} ELSE AddSample(f[s \ {Max(s)}], Samples[Max(s)])
  BY <1>1 DEF FoldsSamples
<1>3. 0 \notin Wrong
  <2>1. 1 .. 0 = {}
    OBVIOUS
  <2>2. f[1 .. 0] = {} /\ P(0) = {}
    <3>1. {} \in SUBSET (1 .. n)
      OBVIOUS
    <3>2. f[{}] = {}
      BY <1>2, <3>1
    <3>3. P(0) = {}
      BY <2>1
    <3>4. QED  BY <2>1, <3>2, <3>3
  <2>3. WindowsOK({}, {})
    BY DEF WindowsOK
  <2>4. QED  BY <2>2, <2>3
<1>4. ASSUME NEW k \in Nat, k + 1 \in Wrong  PROVE k \in Wrong
  <2>1. k \in 0 .. n /\ k + 1 \in 1 .. n
    BY <1>4
  <2> SUFFICES ASSUME WindowsOK(P(k), f[1 .. k]) PROVE WindowsOK(P(k + 1), f[1 .. k + 1])
    BY <1>4, <2>1
  <2> DEFINE c == Samples[k + 1]
  <2>2. f[1 .. k + 1] = AddSample(f[1 .. k], c)
    <3> DEFINE s == 1 .. k + 1
    <3>1. s # {} /\ s \in SUBSET (1 .. n) /\ s \in SUBSET (0 .. k + 1) /\ k + 1 \in Nat
      <4>1. k + 1 \in s /\ \A y \in s : y \in 1 .. n /\ y \in 0 .. k + 1
        BY <2>1
      <4> HIDE DEF s
      <4>2. QED  BY <4>1
    <3>2. k + 1 \in s /\ \A y \in s : y \in Int /\ y <= k + 1
      BY <2>1
    <3>3. Max(s) = k + 1
      <4> HIDE DEF s
      <4>1. Max(s) \in s /\ \A y \in s : y <= Max(s)
        BY <3>1, MaxFacts
      <4>2. QED  BY <3>2, <4>1
    <3>4. s \ {k + 1} = 1 .. k
      BY <2>1
    <3> HIDE DEF s
    <3>5. f[s] = AddSample(f[s \ {Max(s)}], Samples[Max(s)])
      BY <1>2, <3>1
    <3>6. QED  BY <3>3, <3>4, <3>5 DEF s
  <2>3. P(k + 1) = P(k) \cup {c}
    <3>1. 1 .. k + 1 = (1 .. k) \cup {k + 1}
      BY <2>1
    <3>2. QED  BY <3>1
  <2>4. P(k) \in SUBSET Candidate /\ \A d \in P(k) : d.at \in published
    <3>1. \A i \in 1 .. k : Samples[i] \in S
      BY <2>1
    <3>2. QED  BY <3>1
  <2>5. c \in Candidate /\ c.at \in published
    BY <2>1
  <2>6. \A d \in P(k) : Before(d, c)
    <3>1. \A i \in 1 .. k : i \in 1 .. n /\ i < k + 1
      BY <2>1
    <3>2. QED  BY <2>1, <3>1
  <2> DEFINE Q == P(k)
             Ws == f[1 .. k]
  <2>7. WindowsOK(Q, Ws) /\ Q \in SUBSET Candidate /\ (\A d \in Q : d.at \in published)
        /\ (\A d \in Q : Before(d, c))
    BY <2>4, <2>6
  <2> HIDE DEF Q, Ws, c
  <2>8. WindowsOK(Q \cup {c}, AddSample(Ws, c))
    BY <2>5, <2>7, AddSampleKeeps
  <2>9. QED  BY <2>2, <2>3, <2>8 DEF Q, Ws
<1>5. Wrong = {}
  <2> HIDE DEF Wrong, P
  <2> SUFFICES ASSUME Wrong # {} PROVE FALSE
    OBVIOUS
  <2>1. Wrong \in SUBSET Nat
    BY DEF Wrong
  <2>2. PICK k \in Wrong : \A j \in Wrong : k <= j
    BY <2>1, Least
  <2>3. k # 0 /\ k \in Nat
    BY <1>3, <2>1, <2>2
  <2>4. k - 1 \in Nat /\ (k - 1) + 1 = k /\ k - 1 \notin Wrong
    BY <2>2, <2>3
  <2>5. QED  BY <1>4, <2>2, <2>4
<1>6. P(n) = S
  OBVIOUS
<1>7. WindowsOK(P(n), f[1 .. n])
  <2>1. n \in 0 .. n
    OBVIOUS
  <2>2. QED  BY <1>5, <2>1
<1>8. QED  BY <1>1, <1>6, <1>7

(***************************************************************************)
(* The blocks a report reads                                               *)
(***************************************************************************)

\* The published blocks are a branch, and the stored ones are not of every height.
ChainInv ==
  /\ IsBranch(published) /\ stored \subseteq Block
  /\ \E top \in Nat : \A b \in stored : Number(b) <= top

\* The queue changes the branch only as the runtime does.
LEMMA ChainSteps ==
  ASSUME [Next]_vars
  PROVE  \/ UNCHANGED <<published, stored>>
         \/ \E b \in Block : Chain!Publish(b) \/ Chain!Restore(b)
         \/ \E a, t \in Block : Chain!Announce(a, t)
<1>1. CASE PublishBlock \/ SwitchBranch \/ RestoreBlock
  BY <1>1 DEF PublishBlock, SwitchBranch, RestoreBlock, Retract
<1>2. CASE FinishSwitch
  BY <1>2 DEF FinishSwitch, CompleteSwitch, Chain!Complete
<1>3. CASE Start \/ StartQueue \/ EndOfWork \/ Submit \/ Take
  BY <1>3 DEF Start, StartQueue, EndOfWork, Submit, Take, chain
<1>4. CASE Shutdown \/ Crash \/ InterruptFails
  BY <1>4 DEF Shutdown, Drained, DrainTimeout, Interrupt, Exit, Crash, InterruptFails, chain
<1>5. CASE \E c \in Candidate : Call(c) \/ Join(c)
  BY <1>5 DEF Call, Join, chain
<1>6. CASE \E w \in writes : CommitInsert(w) \/ CommitSave(w) \/ WriteFails(w) \/ DiskRefusesSave(w)
  BY <1>6 DEF CommitInsert, CommitSave, WriteFails, DiskRefusesSave, chain
<1>7. CASE UNCHANGED vars
  BY <1>7 DEF vars, chain
<1>8. QED  BY <1>1, <1>2, <1>3, <1>4, <1>5, <1>6, <1>7 DEF Next, Runtime

\* The instance's blocks are the model's own.
LEMMA SameTree ==
  /\ \A a, b : Chain!OnChain(a, b) <=> OnChain(a, b)
  /\ \A b : Chain!Parent(b) = Parent(b)
BY DEF Chain!OnChain, OnChain, Chain!Parent, Parent, Chain!IsPrefix, IsPrefix

LEMMA ChainInvariance == Spec => []ChainInv
<1>1. Init => ChainInv
  <2> SUFFICES ASSUME Init PROVE ChainInv
    OBVIOUS
  <2>1. published = {} /\ stored = {}
    BY DEF Init, StoreInit, Chain!Init
  <2>2. 0 \in Nat /\ \A b \in stored : Number(b) <= 0
    BY <2>1
  <2>3. QED  BY <2>1, <2>2 DEF ChainInv, IsBranch
<1>2. ChainInv /\ [Next]_vars => ChainInv'
  <2> SUFFICES ASSUME ChainInv, [Next]_vars PROVE ChainInv'
    OBVIOUS
  <2>1. CASE UNCHANGED <<published, stored>>
    BY <2>1 DEF ChainInv, IsBranch
  <2>2. ASSUME NEW b \in Block, Chain!Publish(b) \/ Chain!Restore(b)
        PROVE  ChainInv'
    <3>1. published' = published \cup {b} /\ stored' = stored \cup {b} /\ Chain!Continues(b)
      BY <2>2 DEF Chain!Publish, Chain!Restore
    <3>2. IsBranch(published \cup {b})
      <4>1. (\A c \in published : OnChain(c, b)) /\ (published = {} \/ Parent(b) \in published)
        BY <3>1, SameTree DEF Chain!Continues
      <4>2. IsBranch(published)
        BY DEF ChainInv
      <4>3. QED  BY <4>1, <4>2, ExtensionIsBranch
    <3>3. PICK top \in Nat : \A d \in stored : Number(d) <= top
      BY DEF ChainInv
    <3>4. Number(b) \in Nat
      BY BlockFacts
    <3> DEFINE higher == IF Number(b) <= top THEN top ELSE Number(b)
    <3>5. higher \in Nat /\ top <= higher /\ Number(b) <= higher
      BY <3>4
    <3>6. \A d \in stored \cup {b} : Number(d) <= higher
      <4> SUFFICES ASSUME NEW d \in stored PROVE Number(d) <= higher
        BY <3>5
      <4>1. Number(d) \in Nat /\ Number(d) <= top
        BY <3>3, BlockFacts DEF ChainInv
      <4> HIDE DEF higher
      <4>2. QED  BY <3>5, <4>1
    <3> HIDE DEF higher
    <3>7. stored \cup {b} \subseteq Block
      BY DEF ChainInv
    <3>8. QED  BY <3>1, <3>2, <3>5, <3>6, <3>7 DEF ChainInv
  <2>3. ASSUME NEW a \in Block, NEW t \in Block, Chain!Announce(a, t)
        PROVE  ChainInv'
    <3>1. published' = {c \in published : OnChain(c, a)} /\ stored' = stored
      BY <2>3, SameTree DEF Chain!Announce
    <3>2. IsBranch({c \in published : OnChain(c, a)})
      BY TruncationIsBranch DEF ChainInv
    <3>3. QED  BY <3>1, <3>2 DEF ChainInv
  <2>4. QED  BY <2>1, <2>2, <2>3, ChainSteps
<1>3. QED  BY <1>1, <1>2, PTL DEF Spec

LEMMA CompleteIsPublished ==
  ASSUME published \subseteq stored
  PROVE  /\ Complete = published
         /\ {Number(d.block) : d \in Blocks} = {Number(b) : b \in stored}
<1> DEFINE read(b) == [block |-> b, canonical |-> b \in published]
<1>1. \A b : read(b).block = b /\ (read(b).canonical <=> b \in published)
  OBVIOUS
<1>2. Blocks = {read(b) : b \in stored}
  BY DEF Blocks
<1> HIDE DEF read
<1>3. Complete \subseteq published
  BY <1>1, <1>2 DEF Complete
<1>4. ASSUME NEW b \in published PROVE b \in Complete
  <2>1. read(b) \in Blocks /\ read(b).canonical /\ read(b).block = b
    BY <1>1, <1>2
  <2>2. QED  BY <2>1 DEF Complete
<1>5. {Number(d.block) : d \in Blocks} = {Number(b) : b \in stored}
  BY <1>1, <1>2
<1>6. QED  BY <1>3, <1>4, <1>5

\* The published blocks are finitely many and of different heights.
LEMMA PublishedIsFinite ==
  ASSUME ChainInv, published \subseteq stored
  PROVE  /\ IsFiniteSet(published)
         /\ Cardinality({Number(b) : b \in published}) = Cardinality(published)
         /\ IsFiniteSet({Number(b) : b \in published})
<1> DEFINE N == {Number(b) : b \in published}
           number == [b \in published |-> Number(b)]
<1>1. PICK top \in Nat : \A b \in stored : Number(b) <= top
  BY DEF ChainInv
<1>2. N \in SUBSET (0 .. top)
  <2>1. \A b \in published : Number(b) \in Nat /\ Number(b) <= top
    BY <1>1, BranchHeights DEF ChainInv
  <2>2. QED  BY <2>1
<1>3. IsFiniteSet(N)
  <2>1. IsFiniteSet(0 .. top)
    BY FS_Interval
  <2> HIDE DEF N
  <2>2. QED  BY <1>2, <2>1, FS_Subset
<1>4. number \in Injection(published, N)
  <2>1. \A a, b \in published : Number(a) = Number(b) => a = b
    BY BranchHeights DEF ChainInv
  <2>2. QED  BY <2>1 DEF Injection, IsInjective
<1>5. number \in Surjection(published, N)
  BY DEF Surjection
<1> HIDE DEF N, number
<1>6. IsFiniteSet(published)
  BY <1>3, <1>4, FS_Injection
<1>7. Cardinality(N) = Cardinality(published)
  BY <1>4, <1>5, <1>6, FS_Surjection
<1>8. QED  BY <1>3, <1>6, <1>7 DEF N

LEMMA SampledIsFinite ==
  ASSUME ChainInv, published \subseteq stored
  PROVE  /\ Sampled = {c \in Candidate : c.at \in published}
         /\ IsFiniteSet(Sampled)
<1> DEFINE Parts == {CandidatesOf(b) : b \in published}
           part == [b \in published |-> CandidatesOf(b)]
<1>1. Sampled = {c \in Candidate : c.at \in published}
  BY CompleteIsPublished DEF Sampled, CandidatesOf
<1>2. \A b \in published : IsFiniteSet(CandidatesOf(b))
  BY ReportAssumption DEF ChainInv, IsBranch
<1>3. part \in Surjection(published, Parts)
  BY DEF Surjection
<1>4. \A T \in Parts : IsFiniteSet(T)
  BY <1>2
<1>5. Sampled = UNION Parts
  BY <1>1 DEF CandidatesOf
<1> HIDE DEF Parts, part
<1>6. IsFiniteSet(Parts)
  BY <1>3, PublishedIsFinite, FS_Surjection
<1>7. IsFiniteSet(UNION Parts)
  BY <1>4, <1>6, FS_UNION
<1>8. QED  BY <1>1, <1>5, <1>7

\* The windows of the report are windows of the samples, all of them.
LEMMA ReportWindows ==
  ASSUME ChainInv, published \subseteq stored
  PROVE  WindowsOK(Sampled, Windows)
<1>1. Sampled = {c \in Candidate : c.at \in published} /\ IsFiniteSet(Sampled)
  BY SampledIsFinite
<1>2. ASSUME NEW c \in Sampled, NEW d \in Sampled, c # d
      PROVE  Before(c, d) \/ Before(d, c)
  <2>1. /\ c.at \in published /\ d.at \in published /\ c.index \in Nat /\ d.index \in Nat
        /\ c = [at |-> c.at, index |-> c.index] /\ d = [at |-> d.at, index |-> d.index]
    BY <1>1, CandidateAssumption
  <2>2. c.at # d.at \/ c.index # d.index
    BY <1>2, <2>1
  <2>3. /\ Number(c.at) \in Nat /\ Number(d.at) \in Nat
        /\ Number(c.at) = Number(d.at) => c.at = d.at
    BY <2>1, BranchHeights DEF ChainInv
  <2>4. c.index \in Nat /\ d.index \in Nat
    BY <2>1
  <2>5. QED  BY <2>2, <2>3, <2>4 DEF Before
<1> DEFINE n == Cardinality(Sampled)
<1>3. /\ n \in Nat /\ Samples \in [1 .. n -> Sampled]
      /\ \A c \in Sampled : \E i \in 1 .. n : Samples[i] = c
      /\ \A i, j \in 1 .. n : i < j => Before(Samples[i], Samples[j])
  BY <1>1, <1>2, SamplesAreOrdered
<1> HIDE DEF n
<1>4. Sampled \in SUBSET Candidate /\ \A c \in Sampled : c.at \in published
  BY <1>1
<1>5. QED  BY <1>3, <1>4, WindowsCoverSamples DEF ChainInv

(***************************************************************************)
(* What a report says                                                      *)
(***************************************************************************)

\* The numbers of an interval that are not in a set of its numbers.
LEMMA Gaps ==
  ASSUME NEW lo \in Nat, NEW hi \in Nat, lo <= hi, NEW N \in SUBSET (lo .. hi)
  PROVE  Cardinality({n \in lo .. hi : n \notin N}) = (hi - lo + 1) - Cardinality(N)
<1> DEFINE All == lo .. hi
           Free == All \ N
<1>1. IsFiniteSet(All) /\ Cardinality(All) = hi - lo + 1
  BY FS_Interval
<1>2. All \cap N = N /\ {n \in All : n \notin N} = Free
  OBVIOUS
<1> HIDE DEF All
<1>3. Cardinality(Free) = Cardinality(All) - Cardinality(All \cap N)
  BY <1>1, FS_Difference
<1>4. QED  BY <1>1, <1>2, <1>3 DEF All

\* The bounds of a report are heights of derived blocks, and all are between them.
LEMMA Bounds ==
  ASSUME ChainInv, published \subseteq stored, stored # {}
  PROVE  /\ From \in Nat /\ To \in Nat /\ From <= To
         /\ \A b \in published : Number(b) \in From .. To
<1> DEFINE N == {Number(b) : b \in stored}
<1>1. From = Min(N) /\ To = Max(N)
  BY CompleteIsPublished DEF From, To
<1>2. PICK top \in Nat : \A b \in stored : Number(b) <= top
  BY DEF ChainInv
<1>3. N \in SUBSET (0 .. top) /\ N # {}
  <2>1. \A b \in stored : Number(b) \in Nat /\ Number(b) <= top
    BY <1>2, BlockFacts DEF ChainInv
  <2>2. QED  BY <2>1
<1>4. \A b \in published : Number(b) \in N
  OBVIOUS
<1> HIDE DEF N
<1>5. Max(N) \in N /\ \A y \in N : y <= Max(N)
  BY <1>3, MaxFacts
<1>6. Min(N) \in N /\ \A y \in N : Min(N) <= y
  <2>1. N \in SUBSET Nat
    BY <1>3
  <2>2. PICK x \in N : \A y \in N : x <= y
    BY <1>3, <2>1, Least
  <2>3. QED  BY <2>2 DEF Min
<1>7. Max(N) \in Nat /\ Min(N) \in Nat /\ Min(N) <= Max(N)
  <2>1. \A y \in N : y \in Nat
    BY <1>3
  <2>2. Min(N) <= Max(N)
    BY <1>5, <1>6
  <2>3. QED  BY <1>5, <1>6, <2>1, <2>2
<1>8. \A b \in published : Number(b) \in Min(N) .. Max(N)
  <2>1. \A y \in N : y \in Nat /\ Min(N) <= y /\ y <= Max(N)
    BY <1>3, <1>5, <1>6
  <2>2. QED  BY <1>4, <1>7, <2>1
<1>9. QED  BY <1>1, <1>7, <1>8

\* The ancestry the report asks for is the order of the heights on the branch.
LEMMA InsideIsWithin ==
  ASSUME ChainInv, NEW w \in Window, NEW c \in Candidate
  PROVE  Inside(c, w) <=> c.at \in published /\ Within(c, w)
<1>1. w.first \in published /\ w.last \in published /\ c.at \in Block
  BY CandidateAssumption DEF Window
<1>2. w.first \in Block /\ w.last \in Block /\ IsBranch(published)
  BY <1>1 DEF ChainInv, IsBranch
<1>3. ASSUME Inside(c, w)  PROVE c.at \in published /\ Within(c, w)
  <2>1. OnChain(w.first, c.at) /\ OnChain(c.at, w.last) /\ c.index = w.route
    BY <1>3 DEF Inside
  <2>2. Number(w.first) <= Number(c.at) /\ Number(c.at) <= Number(w.last)
    BY <1>1, <1>2, <2>1, AncestorHeights
  <2>3. OnChain(w.first, w.last)
    BY <1>1, <1>2, <2>1, OnChainTransitive
  <2>4. Number(w.first) \in Nat /\ Number(c.at) \in Nat /\ Number(w.last) \in Nat
    BY <1>1, <1>2, BlockFacts
  <2>5. /\ Number(c.at) \in 0 .. Number(w.last)
        /\ Number(c.at) \in Number(w.first) .. Number(w.last)
    BY <2>2, <2>4
  <2>6. c.at = BlockAt(w.last, Number(c.at))
    BY <1>1, <1>2, <2>1, <2>5, BlockAtFacts
  <2>7. BlockAt(w.last, Number(c.at)) \in published
    BY <1>1, <1>2, <2>3, <2>5 DEF IsBranch
  <2>8. QED  BY <2>1, <2>2, <2>6, <2>7 DEF Within
<1>4. ASSUME c.at \in published, Within(c, w)  PROVE Inside(c, w)
  BY <1>1, <1>2, <1>4, BranchHeights DEF Inside, Within
<1>5. QED  BY <1>3, <1>4

\* Outside a recovery a sample counts as verified exactly with a finished proof.
LEMMA VerifiedFacts ==
  ASSUME Inv, switch = None, NEW c \in Candidate, c.at \in published
  PROVE  Verified(c) <=> rows[c] # None /\ rows[c].phase = "Finished" /\ rows[c].proven
<1>1. rows[c] # None => FlagsOK(c)
  BY DEF Inv, FlagInv
<1>2. rows[c] # None =>
        /\ rows[c].canonical \in BOOLEAN /\ rows[c].validates \in BOOLEAN
        /\ rows[c].proven \in BOOLEAN
  BY DEF Inv, TypeOK, StoreTypeOK, Row
<1>3. QED  BY <1>1, <1>2 DEF FlagsOK, Verified

\* One window of a report.
LEMMA ReportWindow ==
  ASSUME Inv, ChainInv, switch = None, NEW w \in Windows
  PROVE  LET sampled == {c \in Candidate : Inside(c, w)} IN
         /\ w.blocks = Number(w.last) - Number(w.first) + 1
         /\ {c.at : c \in sampled} = {BlockAt(w.last, n) : n \in Number(w.first) .. Number(w.last)}
         /\ \A c \in Candidate \ sampled : c.index = w.route /\ c.at \in published =>
              Number(c.at) + 1 # Number(w.first) /\ Number(c.at) # Number(w.last) + 1
         /\ w.verified = {c \in sampled :
              rows[c] # None /\ rows[c].phase = "Finished" /\ rows[c].proven}
<1> DEFINE sampled == {c \in Candidate : Inside(c, w)}
<1>1. published \subseteq stored
  BY DEF Inv, TypeOK, StoreTypeOK
<1>2. WindowOK(Sampled, w) /\ Sampled = {c \in Candidate : c.at \in published}
  BY <1>1, ReportWindows, SampledIsFinite DEF WindowsOK
<1>3. w \in Window /\ w.first \in published /\ w.last \in published
  BY <1>2 DEF WindowOK, Window
<1>4. \A c \in Candidate : c \in sampled <=> c.at \in published /\ Within(c, w)
  BY <1>3, InsideIsWithin
<1> HIDE DEF sampled
<1>5. sampled \subseteq Candidate
  BY DEF sampled
<1>6. IsBranch(published) /\ w.last \in Block
  BY <1>3 DEF ChainInv, IsBranch
<1>7. /\ Number(w.first) \in Nat /\ Number(w.last) \in Nat
      /\ Number(w.first) <= Number(w.last) /\ OnChain(w.first, w.last)
  BY <1>2, <1>3, <1>6, BranchHeights DEF WindowOK
<1>8. ASSUME NEW c \in sampled
      PROVE  \E n \in Number(w.first) .. Number(w.last) : c.at = BlockAt(w.last, n)
  <2>1. c.at \in published /\ Within(c, w)
    BY <1>4, <1>5
  <2>2. c.at \in Block /\ Number(c.at) \in Nat /\ OnChain(c.at, w.last)
    BY <1>3, <1>6, <2>1, BranchHeights DEF Within, IsBranch
  <2>3. Number(c.at) \in Number(w.first) .. Number(w.last) /\ Number(c.at) \in 0 .. Number(w.last)
    BY <1>7, <2>1, <2>2 DEF Within
  <2>4. c.at = BlockAt(w.last, Number(c.at))
    BY <1>6, <2>2, <2>3, BlockAtFacts
  <2>5. QED  BY <2>3, <2>4
<1>9. ASSUME NEW n \in Number(w.first) .. Number(w.last)
      PROVE  \E c \in sampled : c.at = BlockAt(w.last, n)
  <2> DEFINE b == BlockAt(w.last, n)
             c == [at |-> b, index |-> w.route]
  <2>1. b \in published
    BY <1>3, <1>6, <1>7 DEF IsBranch
  <2>2. Number(b) = n
    BY <1>6, <1>7, BlockAtFacts
  <2> HIDE DEF b
  <2>3. c \in Sampled
    <3>1. Number(w.first) <= Number(b) /\ Number(b) <= Number(w.last)
      BY <1>7, <2>2
    <3>2. QED  BY <1>2, <2>1, <3>1 DEF WindowOK
  <2>4. c.at = b /\ c.index = w.route
    OBVIOUS
  <2> HIDE DEF c
  <2>5. Within(c, w)
    BY <1>7, <2>2, <2>4 DEF Within
  <2>6. c \in sampled
    BY <1>2, <1>4, <2>3, <2>5
  <2>7. QED  BY <2>4, <2>6 DEF b
<1>10. {c.at : c \in sampled} = {BlockAt(w.last, n) : n \in Number(w.first) .. Number(w.last)}
  BY <1>8, <1>9
<1>11. \A c \in Candidate \ sampled : c.index = w.route /\ c.at \in published =>
         Number(c.at) + 1 # Number(w.first) /\ Number(c.at) # Number(w.last) + 1
  BY <1>2 DEF WindowOK
<1>12. w.verified = {c \in sampled :
          rows[c] # None /\ rows[c].phase = "Finished" /\ rows[c].proven}
  <2>1. w.verified = {c \in Sampled : Within(c, w) /\ Verified(c)}
    BY <1>2 DEF WindowOK
  <2>2. \A c \in Sampled : Within(c, w) <=> c \in sampled
    BY <1>2, <1>4
  <2>3. sampled \subseteq Sampled
    BY <1>2, <1>4, <1>5
  <2>4. \A c \in Sampled : Verified(c) <=>
           rows[c] # None /\ rows[c].phase = "Finished" /\ rows[c].proven
    BY <1>2, VerifiedFacts
  <2>5. QED  BY <2>1, <2>2, <2>3, <2>4
<1>13. w.blocks = Number(w.last) - Number(w.first) + 1
  BY <1>2 DEF WindowOK
<1>14. QED  BY <1>10, <1>11, <1>12, <1>13 DEF sampled

LEMMA ReportIsRight == Inv /\ ChainInv => ReportIsOfTheBranch
<1> SUFFICES ASSUME Inv, ChainInv, switch = None, stored # {}
             PROVE  ReportIsOfTheBranch
  BY DEF ReportIsOfTheBranch, ReportOpens
<1>1. published \subseteq stored
  BY DEF Inv, TypeOK, StoreTypeOK
<1>2. Complete = published /\ IsBranch(published)
  BY <1>1, CompleteIsPublished DEF ChainInv
<1>3. ~Conflicting
  BY <1>2, BranchHeights DEF Conflicting
<1>4. GapBlocks = Cardinality({n \in From .. To : \A b \in published : Number(b) # n})
  <2> DEFINE N == {Number(b) : b \in published}
  <2>1. From \in Nat /\ To \in Nat /\ From <= To /\ N \in SUBSET (From .. To)
    BY <1>1, Bounds
  <2>2. {n \in From .. To : \A b \in published : Number(b) # n} = {n \in From .. To : n \notin N}
    OBVIOUS
  <2>3. Cardinality(N) = Cardinality(published)
    BY <1>1, PublishedIsFinite
  <2> HIDE DEF N
  <2>4. Cardinality({n \in From .. To : n \notin N}) = (To - From + 1) - Cardinality(N)
    BY <2>1, Gaps
  <2>5. QED  BY <1>2, <2>2, <2>3, <2>4 DEF GapBlocks
<1>5. WindowsOK(Sampled, Windows) /\ Sampled = {c \in Candidate : c.at \in published}
  BY <1>1, ReportWindows, SampledIsFinite
<1>6. ASSUME NEW c \in Candidate
      PROVE  c.at \in published <=> Cardinality({w \in Windows : Inside(c, w)}) = 1
  <2>1. \A w \in Windows : Inside(c, w) <=> c.at \in published /\ Within(c, w)
    BY <1>5, InsideIsWithin DEF WindowsOK, WindowOK
  <2>2. ASSUME c.at \in published
        PROVE  Cardinality({w \in Windows : Inside(c, w)}) = 1
    <3>1. c \in Sampled
      BY <1>5, <2>2
    <3>2. PICK v \in Windows : Within(c, v)
      BY <1>5, <3>1 DEF WindowsOK
    <3>3. \A w \in Windows : Within(c, w) <=> w = v
      BY <1>5, <3>1, <3>2 DEF WindowsOK
    <3>4. {w \in Windows : Inside(c, w)} = {v}
      BY <2>1, <2>2, <3>3
    <3>5. QED  BY <3>4, FS_Singleton
  <2>3. ASSUME c.at \notin published
        PROVE  Cardinality({w \in Windows : Inside(c, w)}) = 0
    <3>1. {w \in Windows : Inside(c, w)} = {}
      BY <2>1, <2>3
    <3>2. QED  BY <3>1, FS_EmptySet
  <2>4. QED  BY <2>2, <2>3
<1>7. QED  BY <1>3, <1>4, <1>6, ReportWindow DEF ReportIsOfTheBranch

\* The report and the runtime share the database: a report that opens between any two
\* steps of the runtime, the queue and a crash has the published branch, each of its
\* candidates in one window, and as verified what a finished simulation proved.
THEOREM ReportsAreOfTheBranch == Spec => []ReportIsOfTheBranch
<1>1. Inv /\ ChainInv => ReportIsOfTheBranch
  BY ReportIsRight
<1>2. QED  BY <1>1, InvariantHolds, ChainInvariance, PTL

=============================================================================
