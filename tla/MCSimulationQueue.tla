------------------------- MODULE MCSimulationQueue -------------------------
(***************************************************************************)
(* Small instances of SimulationQueue and of the reports on its tables:    *)
(* two blocks on one parent, one of them with a child.                     *)
(***************************************************************************)
EXTENDS SimulationQueue, ResearchReport

Fork == {<<>>, <<0>>, <<1>>}
LongFork == Fork \cup {<<0, 0>>}

OneEach == [at : Fork, index : {0}]
OneOnEachSide == {c \in OneEach : c.at # <<>>}

\* One route: over two blocks on the short side, with a block without it on the long one.
WithHole == [at : {<<>>, <<1>>, <<0, 0>>}, index : {0}]

=============================================================================
