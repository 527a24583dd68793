---------------------------- MODULE StoredReplay ----------------------------
(***************************************************************************)
(* The replay command (arb-app replay.rs): from a checkpoint, the stored   *)
(* raw records are processed again, in chain order (replay_chain) or in    *)
(* the order in which they were received (replay_observed).  Collectors go *)
(* on appending records meanwhile, and a replay that failed or was killed  *)
(* is run again over the rows it left.                                     *)
(***************************************************************************)
EXTENDS ForkTree, FiniteSets

CONSTANTS
  None,
  Parts,       \* the records of a bundle in the order they are stored
  Observer,    \* the (source, run) pairs, numbered in the order of the map's keys
  Time,        \* values of received_at_ms
  Start, To,   \* the checkpoint's block, and the height to replay to
  Rejected,    \* blocks with an event apply_block refuses
  Tx,          \* transactions whose outcome is followed
  Outcome,     \* their status in the receipts of each block
  MaxRecords,  \* bound: records in the log
  MaxPrior     \* bound: records above the checkpoint that were stored before it

Kind == {Parts[i] : i \in DOMAIN Parts}
Status == {"Unknown", "Succeeded", "Reverted"}

ASSUME ReplayAssumption ==
  /\ DOMAIN Parts = 1 .. Len(Parts) /\ Len(Parts) \in Nat
  /\ "receipts" \in Kind
  /\ Observer \subseteq Nat /\ Time \subseteq Nat
  /\ Start \in Block /\ To \in Nat /\ To >= Number(Start)
  /\ Rejected \subseteq Block /\ None \notin Block
  /\ Outcome \in [Block -> [Tx -> Status]]
  /\ MaxRecords \in Nat /\ MaxPrior \in Nat

VARIABLES
  log,        \* raw_records in id order
  after,      \* the checkpoint's last_raw_id
  mode,       \* the kind of replay; each has a research run, and so rows, of its own
  rows,       \* derived_blocks of that run: when a block was detected, and (history) the
              \* records the replay had read
  pc,         \* where the replay is
  view,       \* the block the pipeline is at
  window,     \* ids of the records it has read
  left,       \* observed: ids not yet drained from the timeline
  clock,      \* observed: logical_time
  pending,    \* observed: the records of blocks not yet applied
  statuses,   \* observed: the outcomes known at this time
  quality     \* observed: the time quality its rows are marked with

own == <<pc, view, window, left, clock, pending, statuses, quality>>
vars == <<log, after, mode, rows, own>>

Mode == {"chain", "observed"}
Control == {"idle", "chain", "observe", "apply", "done"}
Record == [block : Block, observer : Observer, kind : Kind, at : Time]
Part == [block : Block, observer : Observer, kind : Kind]
Row == [at : Time, read : SUBSET (1 .. MaxRecords)]

\* Every variable has the type its table or Rust type gives it; the pipeline is above
\* the checkpoint, and no part of a block it has applied is pending.
TypeOK ==
  /\ log \in Seq(Record) /\ Len(log) <= MaxRecords
  /\ after \in 0 .. Len(log)
  /\ DOMAIN rows = Block /\ \A b \in Block : rows[b] = None \/ rows[b] \in Row
  /\ pc \in Control /\ mode \in Mode
  /\ view \in Block /\ OnChain(Start, view) /\ Number(view) <= To
  /\ window \subseteq 1 .. Len(log) /\ left \subseteq window
  /\ clock \in Nat
  /\ pending \subseteq Part
  /\ \A part \in pending : ~OnChain(part.block, view)
  /\ statuses \in [Tx -> Status]
  /\ quality \in [regressions : Nat, multiple : BOOLEAN]

NoStatus == [x \in Tx |-> "Unknown"]
NoMark == [regressions |-> 0, multiple |-> FALSE]

Init ==
  /\ log = <<>> /\ after = 0
  /\ mode \in Mode /\ rows = [b \in Block |-> None]
  /\ pc = "idle" /\ view = Start /\ window = {} /\ left = {}
  /\ clock = 0 /\ pending = {} /\ statuses = NoStatus /\ quality = NoMark

\* The process ends with an error or is killed; only the rows stay.
Fails ==
  /\ pc' = "idle" /\ view' = Start /\ window' = {} /\ left' = {}
  /\ clock' = 0 /\ pending' = {} /\ statuses' = NoStatus /\ quality' = NoMark
  /\ UNCHANGED rows

-----------------------------------------------------------------------------
(* The records                                                             *)

\* A collector commits the bundle of a block, each part with the time of its answer:
\* the clocks of two observers are not comparable, and each may run back.  Blocks that no
\* replay reads are left out, and an observed replay reads its records before its first
\* step: what is appended later is as if it were appended after it.
AppendBundle(b, o, at) ==
  /\ Number(b) > Number(Start) /\ pc \notin {"observe", "apply"}
  /\ Len(log) + Len(Parts) <= MaxRecords
  /\ log' = log \o [i \in DOMAIN Parts |->
                     [block |-> b, observer |-> o, kind |-> Parts[i], at |-> at[i]]]
  /\ UNCHANGED <<after, mode, rows, own>>

\* The runtime saves the checkpoint; blocks above it may be stored already.  The chain
\* replay does not look at this part of it.
SaveCheckpoint ==
  /\ mode = "observed" /\ pc = "idle" /\ \A b \in Block : rows[b] = None
  /\ after = 0 /\ Len(log) <= MaxPrior
  /\ after' = Len(log)
  /\ UNCHANGED <<log, mode, rows, own>>

Holds(i, b, o, k) == log[i].block = b /\ log[i].observer = o /\ log[i].kind = k

\* assemble_block succeeds on what one observer has of a block.
Whole(ids, b) ==
  \E o \in Observer : \A k \in Kind : \E i \in ids : Holds(i, b, o, k)

Follows(b) == Number(b) = Number(view) + 1 /\ Parent(b) = view

\* Pipeline::process: a row that is there already is kept.
Process(b, time, read) ==
  /\ view' = b
  /\ rows' = IF rows[b] # None THEN rows
             ELSE [rows EXCEPT ![b] = [at |-> time, read |-> read]]

-----------------------------------------------------------------------------
(* replay_chain                                                            *)

\* The records a height is answered from, and the two things that are read of a group:
\* the first record of each kind, and the latest time among those.
AtHeight(n) == {i \in DOMAIN log : Number(log[i].block) = n}

First(ids, b, o, k) ==
  CHOOSE i \in ids : /\ Holds(i, b, o, k)
                     /\ \A j \in ids : Holds(j, b, o, k) => i <= j

\* The first group in key order that assembles gives the block its time.
ReplayTime(ids, b) ==
  LET o == CHOOSE p \in Observer :
             /\ \A k \in Kind : \E i \in ids : Holds(i, b, p, k)
             /\ \A q \in Observer :
                  (\A k \in Kind : \E i \in ids : Holds(i, b, q, k)) => p <= q
  IN CHOOSE t \in Time :
       /\ \E k \in Kind : log[First(ids, b, o, k)].at = t
       /\ \A k \in Kind : log[First(ids, b, o, k)].at <= t

BeginChain ==
  /\ mode = "chain" /\ pc \in {"idle", "done"}
  /\ pc' = "chain" /\ view' = Start /\ window' = {}
  /\ left' = {} /\ clock' = 0 /\ pending' = {} /\ statuses' = NoStatus
  /\ quality' = NoMark
  /\ UNCHANGED <<log, after, mode, rows>>

\* mutant: the first group that assembles is taken.
ReplayHeight_FirstGroup ==
  /\ pc = "chain" /\ Number(view) < To
  /\ LET ids == AtHeight(Number(view) + 1)
         next == {b \in Block : Follows(b) /\ Whole(ids, b)} IN
     \/ /\ \E b \in next : b \notin Rejected /\ Process(b, ReplayTime(ids, b), window \cup ids)
        /\ window' = window \cup ids
        /\ UNCHANGED <<pc, left, clock, pending, statuses, quality>>
     \/ next \subseteq Rejected /\ Fails
  /\ UNCHANGED <<log, after, mode>>

\* One height: the whole blocks that continue the view must be one block.
ReplayHeight ==
  /\ pc = "chain" /\ Number(view) < To
  /\ LET ids == AtHeight(Number(view) + 1)
         next == {b \in Block : Follows(b) /\ Whole(ids, b)} IN
     IF \E b \in next : next = {b} /\ b \notin Rejected
       THEN /\ \E b \in next : Process(b, ReplayTime(ids, b), window \cup ids)
            /\ window' = window \cup ids
            /\ UNCHANGED <<pc, left, clock, pending, statuses, quality>>
       ELSE Fails
  /\ UNCHANGED <<log, after, mode>>

EndChain ==
  /\ pc = "chain" /\ Number(view) = To
  /\ pc' = "done"
  /\ UNCHANGED <<log, after, mode, rows, view, window, left, clock, pending, statuses, quality>>

-----------------------------------------------------------------------------
(* replay_observed                                                         *)

\* The record before i of the same observer, in id order.
PriorOf(i, ids) ==
  {j \in ids : /\ j < i /\ log[j].observer = log[i].observer
               /\ \A l \in ids : l < i /\ log[l].observer = log[i].observer => l <= j}

\* ObservedReplay::new: how often a clock ran back, and whether there are several.
TimeQuality(ids) ==
  [regressions |-> Cardinality({i \in ids : \E j \in PriorOf(i, ids) : log[j].at > log[i].at}),
   multiple |-> Cardinality({log[i].observer : i \in ids}) > 1]

\* The records after the checkpoint's, of the heights to replay.
InWindow == {i \in after + 1 .. Len(log) : Number(log[i].block) \in Number(Start) + 1 .. To}

BeginObserved ==
  /\ mode = "observed" /\ pc \in {"idle", "done"}
  /\ pc' = "observe" /\ view' = Start
  /\ window' = InWindow /\ left' = InWindow
  /\ clock' = 0 /\ pending' = {} /\ statuses' = NoStatus
  /\ quality' = TimeQuality(InWindow)
  /\ UNCHANGED <<log, after, mode, rows>>

\* The records received next, all that carry the earliest time.
Due == {i \in left : \A j \in left : log[i].at <= log[j].at}

\* What the receipts among them say of x, together with what was known of it.
Told(x) ==
  ({statuses[x]} \cup {Outcome[log[i].block][x] : i \in {j \in Due : log[j].kind = "receipts"}})
    \ {"Unknown"}

Applied(b) == Number(b) <= Number(view)
IsFork(i) == Applied(log[i].block) /\ ~OnChain(log[i].block, view)

\* mutant: a status is taken from the latest receipts without a look at the earlier ones.
Conflicting_Never == FALSE

Conflicting == \E x \in Tx : Cardinality(Told(x)) > 1

\* mutant: records of a height already applied are passed over unread.
Forked_Never == FALSE

Forked == \E i \in Due : IsFork(i)

\* The parts that wait for their bundle.
Kept(ids) ==
  {[block |-> log[i].block, observer |-> log[i].observer, kind |-> log[i].kind] :
     i \in {j \in ids : ~Applied(log[j].block)}}

\* ObservedReplay::advance to the next time, and what replay_observed does with the records.
Advance ==
  /\ pc = "observe" /\ left # {}
  /\ IF Conflicting \/ Forked THEN Fails
       ELSE /\ pc' = "apply"
            /\ \E i \in Due : clock' = log[i].at
            /\ left' = left \ Due
            /\ statuses' = [x \in Tx |-> IF Told(x) = {} THEN "Unknown"
                                         ELSE CHOOSE s \in Told(x) : TRUE]
            /\ pending' = pending \cup Kept(Due)
            /\ UNCHANGED <<rows, view, window, quality>>
  /\ UNCHANGED <<log, after, mode>>

WholeIn(parts, b) ==
  \E o \in Observer : \A k \in Kind : [block |-> b, observer |-> o, kind |-> k] \in parts

Ready == IF Number(view) < To THEN {b \in Block : Follows(b) /\ WholeIn(pending, b)} ELSE {}

\* mutant: one block at most is applied at a time.
Apply_Once ==
  /\ pc = "apply"
  /\ \/ /\ Ready = {}
        /\ pc' = "observe"
        /\ UNCHANGED <<rows, view, window, left, clock, pending, statuses, quality>>
     \/ \E b \in Ready :
          /\ Ready = {b} /\ b \notin Rejected
          /\ Process(b, clock, window)
          /\ pending' = {part \in pending : part.block # b}
          /\ pc' = "observe"
          /\ UNCHANGED <<window, left, clock, statuses, quality>>
     \/ Ready # {} /\ (\A b \in Ready : Ready # {b} \/ b \in Rejected) /\ Fails
  /\ UNCHANGED <<log, after, mode>>

\* One turn of the inner loop: the whole block that continues the view, if there is one.
Apply ==
  /\ pc = "apply"
  /\ \/ /\ Ready = {}
        /\ pc' = "observe"
        /\ UNCHANGED <<rows, view, window, left, clock, pending, statuses, quality>>
     \/ \E b \in Ready :
          /\ Ready = {b} /\ b \notin Rejected
          /\ Process(b, clock, window)
          /\ pending' = {part \in pending : part.block # b}
          /\ UNCHANGED pc
          /\ UNCHANGED <<window, left, clock, statuses, quality>>
     \/ Ready # {} /\ (\A b \in Ready : Ready # {b} \/ b \in Rejected) /\ Fails
  /\ UNCHANGED <<log, after, mode>>

EndObserved ==
  /\ pc = "observe" /\ left = {}
  /\ IF Number(view) < To THEN Fails
     ELSE pc' = "done" /\ UNCHANGED <<rows, view, window, left, clock, pending, statuses, quality>>
  /\ UNCHANGED <<log, after, mode>>

Crash == pc \in {"chain", "observe", "apply"} /\ Fails /\ UNCHANGED <<log, after, mode>>

Next ==
  \/ \E b \in Block, o \in Observer, at \in [DOMAIN Parts -> Time] : AppendBundle(b, o, at)
  \/ SaveCheckpoint
  \/ BeginChain \/ ReplayHeight \/ EndChain
  \/ BeginObserved \/ Advance \/ Apply \/ EndObserved
  \/ Crash

Spec == Init /\ [][Next]_vars

-----------------------------------------------------------------------------
(* Properties                                                              *)

\* One observer had all of the block by then.
KnownBy(ids, b, time) == Whole({i \in ids : log[i].at <= time}, b)

KnownUpTo(ids, b, time) ==
  \A n \in Number(Start) + 1 .. Number(b) : KnownBy(ids, BlockAt(b, n), time)

\* "It publishes a state only when the whole block's input has arrived": an observed row
\* is detected at the first moment at which the block and all before it were complete at
\* some observer, neither earlier nor later, also when the replay is a second attempt; and
\* a replay whose rows carry no mark took the records in the order they were stored.
DetectedWhenKnown ==
  mode = "observed" =>
    /\ \A b \in Block : rows[b] # None =>
         /\ KnownUpTo(rows[b].read, b, rows[b].at)
         /\ \A t \in Time : t < rows[b].at => ~KnownUpTo(rows[b].read, b, t)
    /\ quality = NoMark => \A i \in window \ left, j \in left : i < j

Rivals(ids, b) ==
  {s \in Block : s # b /\ Number(s) = Number(b) /\ Parent(s) = Parent(b) /\ Whole(ids, s)}

\* "An unclear fork fails": a replay that reached its end took no side.  Among the records
\* it read there is no second whole block that continues the same parent.  The chain
\* replay is sure of this at every height it has passed.
NoForkIsGuessed ==
  /\ mode = "chain" =>
       \A n \in Number(Start) + 1 .. Number(view) : Rivals(window, BlockAt(view, n)) = {}
  /\ mode = "observed" /\ pc = "done" =>
       \A n \in Number(Start) + 1 .. To : Rivals(window, BlockAt(view, n)) = {}

\* "Before the receipt arrives a transaction's outcome is unknown": what is known at a
\* moment is what the receipts received by then say, all of them and nothing else.
StatusIsOfTheTime ==
  mode = "observed" =>
    \A x \in Tx :
      {Outcome[log[i].block][x] : i \in {j \in window \ left : log[j].kind = "receipts"}}
        \ {"Unknown"}
      = {statuses[x]} \ {"Unknown"}

=============================================================================
