----------------------------- MODULE PoolMarket -----------------------------
(***************************************************************************)
(* The pool that is tracked (PoolTracking) and, on a view of its own, what *)
(* the pipeline looks for in a view (RouteSearch).                         *)
(***************************************************************************)
EXTENDS PoolTracking, RouteSearch

MarketInit == Init /\ NothingAsked

\* The views that are asked about are not those of the tracked pool: either of the two
\* takes a step, and the search only before the first block.
MarketNext ==
  \/ Next /\ NothingAsked /\ UNCHANGED asked
  \/ Init /\ Search /\ UNCHANGED vars

MarketSpec == MarketInit /\ [][MarketNext]_<<vars, asked>>

=============================================================================
