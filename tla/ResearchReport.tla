--------------------------- MODULE ResearchReport ---------------------------
(***************************************************************************)
(* arb-app's export_report and the analysis it writes (arb-research's      *)
(* summarize_opportunities).  open_report reads all of a report in one     *)
(* read transaction, whose first statement pins the snapshot: a report is  *)
(* a function of the state in which it was opened, while the runtime and   *)
(* the queue go on.  A candidate's index stands for its route; the amounts *)
(* of one route in one block are not told apart.                           *)
(***************************************************************************)
EXTENDS SimulationStore, FiniteSetsExt, Functions

\* scan() looks at finitely many routes and amounts in a view.
ASSUME ReportAssumption == \A b \in Block : IsFiniteSet(CandidatesOf(b))

\* has_pending_recovery: "run recovery pending; report paused".
ReportOpens == switch = None /\ stored # {}

\* read_report_page: the derived blocks, those of branches that were left among them.
Blocks == {[block |-> b, canonical |-> b \in published] : b \in stored}

Complete == {d.block : d \in {e \in Blocks : e.canonical}}

\* report_bounds: the lowest and the highest derived block, canonical or not.
From == Min({Number(d.block) : d \in Blocks})
To == Max({Number(d.block) : d \in Blocks})

\* "conflicting canonical view": the report is refused.
Conflicting == \E a, b \in Complete : a # b /\ Number(a) = Number(b)

GapBlocks == (To - From + 1) - Cardinality(Complete)

Before(a, b) ==
  \/ Number(a.at) < Number(b.at)
  \/ Number(a.at) = Number(b.at) /\ a.index < b.index

\* The candidates of canonical blocks, in the order of their blocks.
Sampled == UNION {CandidatesOf(b) : b \in Complete}
Place(c, sampled) == Cardinality({d \in sampled : Before(d, c)}) + 1
Samples ==
  LET sampled == Sampled IN
  [i \in 1 .. Cardinality(sampled) |-> CHOOSE c \in sampled : Place(c, sampled) = i]

Verified(c) ==
  rows[c] # None /\ rows[c].canonical /\ rows[c].validates /\ rows[c].proven

\* mutant: a window goes on over a block that does not have the route.
Extends_AnyLater(window, c) ==
  window.route = c.index /\ OnChain(window.last, c.at)

\* The window the sample continues: its last block is the parent of the sample's.
Extends(window, c) ==
  /\ window.route = c.index
  /\ Number(window.last) + 1 = Number(c.at) /\ window.last = Parent(c.at)

AddSample(windows, c) ==
  LET previous == {w \in windows : Extends(w, c)}
      verified == IF Verified(c) THEN {c} ELSE {} IN
  IF previous = {}
    THEN windows \cup {[route |-> c.index, first |-> c.at, last |-> c.at, blocks |-> 1,
                        verified |-> verified]}
    ELSE {IF w \in previous
            THEN [w EXCEPT !.last = c.at, !.blocks = @ + 1, !.verified = @ \cup verified]
            ELSE w : w \in windows}

Windows == FoldLeft(AddSample, {}, Samples)

-----------------------------------------------------------------------------
(* Properties                                                              *)

Inside(c, w) ==
  c.index = w.route /\ OnChain(w.first, c.at) /\ OnChain(c.at, w.last)

\* Whenever a report can be opened, between any two steps of the runtime, the queue and
\* a crash, it is of the published branch and nothing else: it is not refused, its gaps
\* are the heights without a published block, each published candidate is in one window,
\* a window has all of the blocks between its ends and ends where the route does, and
\* what it calls verified are its candidates with a finished simulation that proves them.
ReportIsOfTheBranch ==
  ReportOpens => LET windows == Windows IN
    /\ ~Conflicting
    /\ GapBlocks = Cardinality({n \in From .. To : \A b \in published : Number(b) # n})
    /\ \A c \in Candidate :
         c.at \in published <=> Cardinality({w \in windows : Inside(c, w)}) = 1
    /\ \A w \in windows :
         LET sampled == {c \in Candidate : Inside(c, w)} IN
         /\ w.blocks = Number(w.last) - Number(w.first) + 1
         /\ {c.at : c \in sampled} = {BlockAt(w.last, n) : n \in Number(w.first) .. Number(w.last)}
         /\ \A c \in Candidate \ sampled : c.index = w.route /\ c.at \in published =>
              Number(c.at) + 1 # Number(w.first) /\ Number(c.at) # Number(w.last) + 1
         /\ w.verified = {c \in sampled :
              rows[c] # None /\ rows[c].phase = "Finished" /\ rows[c].proven}

=============================================================================
