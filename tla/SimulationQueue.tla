-------------------------- MODULE SimulationQueue --------------------------
(***************************************************************************)
(* arb-app's SimulationQueue (simulation_queue.rs) and the part of run()   *)
(* that feeds it, stops it and starts it again (runtime.rs), over the      *)
(* simulations table and a published branch that grows and switches.       *)
(* Every insert and save runs on a thread of its own (spawn_blocking): it  *)
(* commits when it can, also when the task that asked for it is gone.      *)
(***************************************************************************)
EXTENDS SimulationStore

CONSTANTS
  Capacity,     \* QueueOptions.capacity
  Concurrency,  \* QueueOptions.concurrency
  MaxFaults     \* bound: crashes, refused and failed writes

VARIABLES
  process,      \* where run() is
  todo,         \* candidates of the last block run() has still to submit
  submitter,    \* the submit() that awaits its insert, or None
  channel,      \* the bounded channel, oldest first
  dispatcher,   \* state of the worker task
  job,          \* the tasks of its JoinSet, by candidate
  writes,       \* inserts and saves that are running
  simulated,    \* history: candidates the node was asked to simulate
  faults

queueVars == <<process, todo, submitter, channel, dispatcher, job, writes, simulated>>
vars == <<chain, rows, queueVars, faults>>

\* "down" is a process that crashed or never was, "stopped" one that left run()
\* through shutdown().
Process == {"down", "opening", "running", "draining", "interrupting", "exiting", "stopped"}
Dispatcher == {"none", "running", "failed"}

\* run_job's awaits; a task that returned stays in the set until it is joined.
JobStep == {"none", "starting", "calling", "ending", "done", "failed"}

Submitter == [candidate : Candidate, permit : BOOLEAN]
Inserted == {"Queued", "QueueFull", "Interrupted"}
Saved == {"Running", "QueueExpired", "Finished"}
Write == [candidate : Candidate, op : {"insert"}, phase : Inserted, proven : {FALSE}]
         \cup [candidate : Candidate, op : {"save"}, phase : Saved, proven : BOOLEAN]

ASSUME QueueAssumption ==
  /\ Capacity \in Nat \ {0} /\ Concurrency \in Nat \ {0} /\ MaxFaults \in Nat
  /\ None \notin Submitter

QueueTypeOK ==
  /\ process \in Process
  /\ todo \subseteq Candidate
  /\ submitter \in Submitter \cup {None}
  /\ channel \in Seq(Candidate)
  /\ dispatcher \in Dispatcher
  /\ job \in [Candidate -> JobStep]
  /\ writes \subseteq Write
  /\ simulated \subseteq Candidate
  /\ faults \in 0 .. MaxFaults

Idle == [c \in Candidate |-> "none"]

Init ==
  /\ StoreInit
  /\ process = "down" /\ todo = {} /\ submitter = None
  /\ channel = <<>> /\ dispatcher = "none" /\ job = Idle
  /\ writes = {} /\ simulated = {} /\ faults = 0

-----------------------------------------------------------------------------
(* Helpers                                                                 *)

Active == {c \in Candidate : job[c] # "none"}

Insert(c, phase) == [candidate |-> c, op |-> "insert", phase |-> phase, proven |-> FALSE]
Save(c, phase, proven) ==
  [candidate |-> c, op |-> "save", phase |-> phase, proven |-> proven]

\* The dispatcher returns or is aborted: the receiver and the JoinSet go.
DropDispatcher(how) ==
  /\ dispatcher' = how
  /\ channel' = <<>>
  /\ job' = Idle

\* run() has submitted what it had to and goes on with the chain.
RuntimeIsFree == process = "running" /\ todo = {} /\ submitter = None

Fault == faults < MaxFaults /\ faults' = faults + 1

-----------------------------------------------------------------------------
(* The runtime, as the queue sees it                                       *)

\* A block the runtime collected has its candidates submitted; one it replays
\* after a restart has not.
PublishBlock ==
  /\ RuntimeIsFree
  /\ \E b \in Block : Chain!Publish(b) /\ todo' \in {{}, CandidatesOf(b)}
  /\ UNCHANGED <<rows, process, submitter, channel, dispatcher, job, writes,
                 simulated, faults>>

SwitchBranch ==
  /\ RuntimeIsFree
  /\ \E a, t \in Block : Retract(a, t)
  /\ UNCHANGED <<queueVars, faults>>

\* A recovery goes on, in the run that began it or in the open() of a later one.
RestoreBlock ==
  /\ RuntimeIsFree \/ process = "opening"
  /\ \E b \in Block : Chain!Restore(b)
  /\ UNCHANGED <<rows, queueVars, faults>>

FinishSwitch ==
  /\ RuntimeIsFree \/ process = "opening"
  /\ CompleteSwitch
  /\ todo' = IF process = "running" THEN CandidatesOf(switch) ELSE {}
  /\ UNCHANGED <<process, submitter, channel, dispatcher, job, writes, simulated, faults>>

Start ==
  /\ process \in {"down", "stopped"}
  /\ process' = "opening"
  /\ UNCHANGED <<chain, rows, todo, submitter, channel, dispatcher, job, writes,
                 simulated, faults>>

\* run() interrupts what an earlier process left before it makes its queue;
\* open() has completed the pending recovery.
StartQueue ==
  /\ process = "opening" /\ switch = None
  /\ InterruptSimulations
  /\ process' = "running" /\ dispatcher' = "running"
  /\ UNCHANGED <<chain, todo, submitter, channel, job, writes, simulated, faults>>

\* The stop signal, the end of the window or an error ends run()'s work: an
\* insert it awaited goes on without it, its permit is returned.
EndOfWork ==
  /\ process = "running"
  /\ process' = "draining" /\ todo' = {} /\ submitter' = None
  /\ UNCHANGED <<chain, rows, channel, dispatcher, job, writes, simulated, faults>>

-----------------------------------------------------------------------------
(* submit                                                                  *)

\* mutant: the place in the channel is taken after the insert.
Submit_NoReservation ==
  /\ process = "running" /\ submitter = None
  /\ \E c \in todo :
       /\ todo' = todo \ {c}
       /\ submitter' = [candidate |-> c, permit |-> Len(channel) < Capacity]
       /\ writes' = writes \cup {Insert(c, "Queued")}
  /\ UNCHANGED <<chain, rows, process, channel, dispatcher, job, simulated, faults>>

\* try_reserve_owned decides what the row will say, then the insert is started.
Submit ==
  /\ process = "running" /\ submitter = None
  /\ \E c \in todo :
       LET phase == IF dispatcher # "running" THEN "Interrupted"
                    ELSE IF Len(channel) >= Capacity THEN "QueueFull" ELSE "Queued" IN
       /\ todo' = todo \ {c}
       /\ submitter' = [candidate |-> c, permit |-> phase = "Queued"]
       /\ writes' = writes \cup {Insert(c, phase)}
  /\ UNCHANGED <<chain, rows, process, channel, dispatcher, job, simulated, faults>>

Awaited(w) == submitter # None /\ submitter.candidate = w.candidate

\* mutant: a row that is already there does not keep the job from being sent.
CommitInsert_SendsAgain(w) ==
  /\ w.op = "insert"
  /\ InsertSimulation(w.candidate, w.phase)
  /\ writes' = writes \ {w}
  /\ submitter' = IF Awaited(w) THEN None ELSE submitter
  /\ channel' = IF Awaited(w) /\ submitter.permit /\ dispatcher = "running"
                  THEN Append(channel, w.candidate) ELSE channel
  /\ UNCHANGED <<chain, process, todo, dispatcher, job, simulated, faults>>

\* The insert commits.  A new row with a permit is sent; a channel whose
\* receiver is gone loses it.
CommitInsert(w) ==
  /\ w.op = "insert"
  /\ InsertSimulation(w.candidate, w.phase)
  /\ writes' = writes \ {w}
  /\ submitter' = IF Awaited(w) THEN None ELSE submitter
  /\ channel' = IF /\ Awaited(w) /\ submitter.permit /\ dispatcher = "running"
                   /\ rows[w.candidate] = None
                  THEN Append(channel, w.candidate) ELSE channel
  /\ UNCHANGED <<chain, process, todo, dispatcher, job, simulated, faults>>

-----------------------------------------------------------------------------
(* dispatch and run_job                                                    *)

\* The next pending job starts while there is room for it: it has expired, or
\* says that it is running.
Take ==
  /\ dispatcher = "running" /\ channel # <<>>
  /\ Cardinality(Active) < Concurrency
  /\ LET c == Head(channel) IN
     \/ /\ job' = [job EXCEPT ![c] = "ending"]
        /\ writes' = writes \cup {Save(c, "QueueExpired", FALSE)}
     \/ /\ job' = [job EXCEPT ![c] = "starting"]
        /\ writes' = writes \cup {Save(c, "Running", FALSE)}
  /\ channel' = Tail(channel)
  /\ UNCHANGED <<chain, rows, process, todo, submitter, dispatcher, simulated, faults>>

\* A save commits, and its task goes on if it still exists.
JobAfter(w) ==
  CASE job[w.candidate] = "starting" -> "calling"
    [] job[w.candidate] = "ending" -> "done"
    [] OTHER -> job[w.candidate]

CommitSave(w) ==
  /\ w.op = "save"
  /\ SaveSimulation(w.candidate, w.phase, w.proven)
  /\ writes' = writes \ {w}
  /\ job' = [job EXCEPT ![w.candidate] = JobAfter(w)]
  /\ UNCHANGED <<chain, process, todo, submitter, channel, dispatcher, simulated, faults>>

\* The node's answer, its refusal or the deadline of the call.
Call(c) ==
  /\ job[c] = "calling"
  /\ job' = [job EXCEPT ![c] = "ending"]
  /\ \E proven \in BOOLEAN : writes' = writes \cup {Save(c, "Finished", proven)}
  /\ simulated' = simulated \cup {c}
  /\ UNCHANGED <<chain, rows, process, todo, submitter, channel, dispatcher, faults>>

\* Tasks are joined only while the set is full, or once no job can come any
\* more; only then does the dispatcher see that one failed, and it returns.
Joining ==
  \/ Cardinality(Active) >= Concurrency
  \/ process = "draining" /\ channel = <<>>

\* mutant: the dispatcher waits for a place in the set and never joins one.
Join_OnlyAtTheEnd(c) ==
  /\ dispatcher = "running" /\ process = "draining" /\ channel = <<>>
  /\ \/ /\ job[c] = "done"
        /\ job' = [job EXCEPT ![c] = "none"]
        /\ UNCHANGED <<channel, dispatcher>>
     \/ job[c] = "failed" /\ DropDispatcher("failed")
  /\ UNCHANGED <<chain, rows, process, todo, submitter, writes, simulated, faults>>

Join(c) ==
  /\ dispatcher = "running" /\ Joining
  /\ \/ /\ job[c] = "done"
        /\ job' = [job EXCEPT ![c] = "none"]
        /\ UNCHANGED <<channel, dispatcher>>
     \/ job[c] = "failed" /\ DropDispatcher("failed")
  /\ UNCHANGED <<chain, rows, process, todo, submitter, writes, simulated, faults>>

-----------------------------------------------------------------------------
(* shutdown                                                                *)

\* The dispatcher returned: the channel is closed, empty, and its jobs joined.
Drained ==
  /\ process = "draining"
  /\ dispatcher = "failed" \/ (channel = <<>> /\ Active = {})
  /\ process' = "interrupting" /\ DropDispatcher("none")
  /\ UNCHANGED <<chain, rows, todo, submitter, writes, simulated, faults>>

\* The five seconds are over: the dispatcher and its tasks are aborted, the
\* writes they started are not.
DrainTimeout ==
  /\ process = "draining"
  /\ process' = "interrupting" /\ DropDispatcher("none")
  /\ UNCHANGED <<chain, rows, todo, submitter, writes, simulated, faults>>

Interrupt ==
  /\ process = "interrupting"
  /\ InterruptSimulations
  /\ process' = "exiting"
  /\ UNCHANGED <<chain, todo, submitter, channel, dispatcher, job, writes, simulated, faults>>

\* The process ends once the writes that run have ended; one that was not yet
\* given a thread is dropped.
Exit ==
  /\ process = "exiting"
  /\ process' = "stopped" /\ writes' = {}
  /\ UNCHANGED <<chain, rows, todo, submitter, channel, dispatcher, job, simulated, faults>>

-----------------------------------------------------------------------------
(* Faults                                                                  *)

Crash ==
  /\ process \notin {"down", "stopped"} /\ Fault
  /\ process' = "down" /\ todo' = {} /\ submitter' = None /\ writes' = {}
  /\ DropDispatcher("none")
  /\ UNCHANGED <<chain, rows, simulated>>

\* The database or, for an insert, the disk budget refuses.  A failed insert
\* ends the run, a failed save the job.
WriteFails(w) ==
  /\ Fault
  /\ writes' = writes \ {w}
  /\ IF w.op = "insert" /\ Awaited(w)
       THEN process' = "draining" /\ todo' = {} /\ submitter' = None
       ELSE UNCHANGED <<process, todo, submitter>>
  /\ job' = IF w.op = "save" /\ job[w.candidate] # "none"
              THEN [job EXCEPT ![w.candidate] = "failed"] ELSE job
  /\ UNCHANGED <<chain, rows, channel, dispatcher, simulated>>

\* The disk budget refuses a save: a small record without the result instead.
DiskRefusesSave(w) ==
  /\ Fault
  /\ w.op = "save"
  /\ SaveSimulation(w.candidate, "Interrupted", FALSE)
  /\ writes' = writes \ {w}
  /\ job' = [job EXCEPT ![w.candidate] = JobAfter(w)]
  /\ UNCHANGED <<chain, process, todo, submitter, channel, dispatcher, simulated>>

InterruptFails ==
  /\ process = "interrupting" /\ Fault
  /\ process' = "exiting"
  /\ UNCHANGED <<chain, rows, todo, submitter, channel, dispatcher, job, writes, simulated>>

-----------------------------------------------------------------------------
Runtime ==
  \/ PublishBlock \/ SwitchBranch \/ RestoreBlock \/ FinishSwitch
  \/ Start \/ StartQueue \/ EndOfWork \/ Submit

Shutdown == Drained \/ DrainTimeout \/ Interrupt \/ Exit

Next ==
  \/ Runtime \/ Take \/ Shutdown
  \/ \E c \in Candidate : Call(c) \/ Join(c)
  \/ \E w \in writes : CommitInsert(w) \/ CommitSave(w)
  \/ Crash \/ InterruptFails
  \/ \E w \in writes : WriteFails(w) \/ DiskRefusesSave(w)

Spec == Init /\ [][Next]_vars

(***************************************************************************)
(* Fairness: a write that runs ends (SQLite waits at most five seconds), a *)
(* call has a deadline, tasks that can run do, run() is started again and  *)
(* finishes its open() and its shutdown().  A run need not end.            *)
(***************************************************************************)
FairSpec ==
  /\ Spec
  /\ \A w \in Write : WF_vars(w \in writes /\ (CommitInsert(w) \/ CommitSave(w)))
  /\ \A c \in Candidate : WF_vars(Call(c)) /\ WF_vars(Join(c))
  /\ WF_vars(Take)
  /\ WF_vars(Start) /\ WF_vars(StartQueue) /\ WF_vars(Shutdown)
  /\ WF_vars(RestoreBlock \/ FinishSwitch)

-----------------------------------------------------------------------------
(* Properties                                                              *)

\* Every variable has the type its table or Rust type gives it.
TypeOK == StoreTypeOK /\ QueueTypeOK

\* A simulation counts as validating its candidate only while the candidate's
\* block is published, and only with a finished result that confirms it: late
\* answers, switches under a running call and interrupted rows never validate.
ValidatedIsPublished ==
  \A c \in Candidate : rows[c] # None /\ rows[c].validates =>
    rows[c].phase = "Finished" /\ rows[c].proven /\ c.at \in published

\* Outside a recovery the flags of a finished row are exactly those of its block,
\* whether the answer came before, during or after a switch: nothing that came
\* back to the branch stays uncounted, nothing that left it is counted.
FlagsFollowChain ==
  switch = None =>
    \A c \in Candidate : rows[c] # None /\ rows[c].phase = "Finished" =>
      /\ rows[c].canonical <=> c.at \in published
      /\ rows[c].validates <=> rows[c].proven /\ c.at \in published

\* While the queue of a run works, a Queued or Running row is one the queue still
\* has: in the channel or in a task, and never in both.
OpenRowsAreOwned ==
  process = "running" /\ dispatcher = "running" =>
    \A c \in Candidate : IsOpen(c) =>
      (\E i \in DOMAIN channel : channel[i] = c) # (job[c] # "none")

\* The end of a row is final: no late write, retry or restart changes the phase or
\* the result of a row that is finished, refused, expired or interrupted.
EndedRowsAreFinal ==
  [][\A c \in Candidate : rows[c] # None /\ ~IsOpen(c) =>
       /\ rows'[c] # None
       /\ rows'[c].phase = rows[c].phase /\ rows'[c].proven = rows[c].proven]_vars

\* The node is asked at most once for a candidate, also when its block comes back
\* and its candidates are submitted again, and over restarts.
SimulatedOnce ==
  [][\A c \in Candidate : job[c] = "calling" /\ job'[c] = "ending" => c \notin simulated]_vars

\* Every admitted row ends, unless its run continues without it: its save failed, or
\* the save of another job did and ended the dispatcher.
EveryRowEnds ==
  \A c \in Candidate :
    IsOpen(c) ~> ~IsOpen(c) \/ (process = "running" /\ (job[c] = "failed" \/ dispatcher = "failed"))

\* "Draining takes five seconds at most, what is late is marked Interrupted": a run
\* that was shut down leaves no row Queued or Running.
StoppedRunLeavesNoOpenRow == process = "stopped" => \A c \in Candidate : ~IsOpen(c)

=============================================================================
