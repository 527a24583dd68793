--------------------------- MODULE MCNodeClients ---------------------------
(***************************************************************************)
(* Small instances of NodeClients: two branches that repeat each other's   *)
(* transactions, at one height or at two, with logs and without, and three *)
(* pools: on both branches, on one, and on each at a height of its own.    *)
(***************************************************************************)
EXTENDS NodeClients

TwoBranches == Prefixes(<<0, 0, 0>>) \cup Prefixes(<<0, 1, 0, 0>>)

Repeated ==
  [b \in Block |-> CASE Number(b) = 1 -> {"transfer"}
                     [] Number(b) = 2 -> {"swap", "approval"}
                     [] b \in {<<0, 0, 0>>, <<0, 1, 0, 0>>} -> {"late"}
                     [] OTHER -> {}]

\* On the second branch the swap of height 2 does nothing.
Swaps == [b \in Block |-> IF b = <<0, 0>> THEN {"swap"} ELSE {}]

AskedAbout == {"swap", "late"}

\* The second branch has another price.
FaresOnOneBranch ==
  [b \in Block |-> IF OnChain(<<0, 1>>, b) THEN "Reverted" ELSE "Succeeded"]

ThreePools == {"both", "first", "again"}
Graduation(p) == [kind : Launch, pool : {p}]

\* A pool in the first block, one on the first branch, of which the second has only an
\* event, and one that the second branch launches a block later.
Graduations ==
  [b \in Block |-> CASE b = <<0>> -> {Graduation("both")}
                     [] b = <<0, 0>> -> {Graduation("first"), Graduation("again")}
                     [] b = <<0, 1>> -> {[kind : {"Initialize"}, pool : {"first"}]}
                     [] b = <<0, 1, 0>> -> {Graduation("again")}
                     [] OTHER -> {}]

\* A node that comes back does to collect what one that does not come back does.
CollectSeesAll == client = "collect" => returns

=============================================================================
