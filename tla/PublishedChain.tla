--------------------------- MODULE PublishedChain ---------------------------
(***************************************************************************)
(* What the database promises the readers of derived blocks (the report    *)
(* and the simulation queue): one branch of the chain is published, block  *)
(* by block, without holes; it changes only by being extended, or by a     *)
(* switch that keeps a common part, retracts the rest at once and is       *)
(* announced until the block it leads to is published.  Outside a switch   *)
(* only a block that never was published before is added.                  *)
(***************************************************************************)
EXTENDS ForkTree

CONSTANT None

VARIABLES
  published,    \* blocks of the published branch
  stored,       \* blocks published at some time; a retracted block stays
  switch        \* None, or the block the announced switch leads to

chainVars == <<published, stored, switch>>

Init == published = {} /\ stored = {} /\ switch = None

\* b continues the published branch, or starts it.
Continues(b) ==
  /\ \A c \in published : OnChain(c, b)
  /\ published = {} \/ Parent(b) \in published

Publish(b) ==
  /\ switch = None
  /\ b \notin stored
  /\ Continues(b)
  /\ published' = published \cup {b}
  /\ stored' = stored \cup {b}
  /\ UNCHANGED switch

Announce(ancestor, target) ==
  /\ switch = None
  /\ OnChain(ancestor, target)
  /\ published' = {c \in published : OnChain(c, ancestor)}
  /\ switch' = target
  /\ UNCHANGED stored

\* mutant: a block of the new branch is published without a row of its own.
Restore_NotStored(b) ==
  /\ switch # None
  /\ OnChain(b, switch)
  /\ Continues(b)
  /\ published' = published \cup {b}
  /\ UNCHANGED <<stored, switch>>

Restore(b) ==
  /\ switch # None
  /\ OnChain(b, switch)
  /\ Continues(b)
  /\ published' = published \cup {b}
  /\ stored' = stored \cup {b}
  /\ UNCHANGED switch

Complete ==
  /\ switch \in published
  /\ switch' = None
  /\ UNCHANGED <<published, stored>>

Next ==
  \/ \E b \in Block : Publish(b) \/ Restore(b)
  \/ \E a, t \in Block : Announce(a, t)
  \/ Complete

Spec == Init /\ [][Next]_chainVars

\* One branch: of two published blocks one is an ancestor of the other.
OneBranch == \A b, c \in published : OnChain(b, c) \/ OnChain(c, b)

\* No hole: with two blocks, every block between them is published.
NoHoles ==
  \A b, c \in published : \A n \in Number(b) .. Number(c) :
    OnChain(b, c) => BlockAt(c, n) \in published

=============================================================================
