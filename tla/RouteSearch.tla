---------------------------- MODULE RouteSearch ----------------------------
(***************************************************************************)
(* What the pipeline does with a view: the routes over its pools           *)
(* (arb-core route.rs) and the amounts that pay on a route                 *)
(* (opportunity.rs).  A descriptor keeps what the routes are chosen by, a  *)
(* pool what it is quoted by.                                              *)
(***************************************************************************)
EXTENDS TickQuote, Sequences, SequencesExt

CONSTANTS
  Chain,        \* chain_id, by pool id
  QuoteAsset,   \* run.quote_asset
  MinDepth, MinProfit,
  Listing,      \* lists of descriptors that routes are looked for in
  Market,       \* pairs of pools that amounts are tried on
  Cost          \* run.costs

VARIABLE asked  \* what the pipeline asks about: a list, a pair of pools, or nothing

ASSUME SearchAssumption ==
  /\ \A list \in Listing : list \in Seq({list[i] : i \in DOMAIN list})
  /\ \A market \in Market :
       /\ market # None /\ DOMAIN market = {"buy", "sell"}
       /\ \A pool \in {market.buy, market.sell} :
            pool.price \in Nat \ {0} /\ pool.liquidity \in Nat /\ pool.quoteIsZero \in BOOLEAN
  /\ \A cost \in Cost :
       /\ cost.amount = None \/ cost.amount \in Nat
       /\ cost.conversion # None =>
            cost.conversion.numerator \in Nat /\ cost.conversion.denominator \in Nat
  /\ MinProfit \in Nat /\ None \notin {[pools |-> list] : list \in Listing}

-----------------------------------------------------------------------------
(* route_candidates                                                        *)

\* mutant: an id is in conflict if its last description is not its first.
Unique_FirstAndLast(pools) ==
  LET at(id) == {i \in DOMAIN pools : pools[i].id = id}
      first(id) == CHOOSE i \in at(id) : \A j \in at(id) : i <= j
      last(id) == CHOOSE i \in at(id) : \A j \in at(id) : j <= i
      ids == {pools[i].id : i \in DOMAIN pools} IN
  [last |-> [id \in ids |-> pools[last(id)]],
   conflicts |-> {id \in ids : pools[first(id)] # pools[last(id)]}]

\* The map of the ids listed, each with its last description, and the ids that were
\* described differently from the time before.
Insert(acc, p) ==
  [last |-> [id \in DOMAIN acc.last \cup {p.id} |-> IF id = p.id THEN p ELSE acc.last[id]],
   conflicts |-> IF p.id \in DOMAIN acc.last /\ acc.last[p.id] # p
                   THEN acc.conflicts \cup {p.id} ELSE acc.conflicts]

Unique(pools) ==
  FoldLeft(Insert, [last |-> [id \in {} |-> None], conflicts |-> {}], pools)

\* A pool of the quote asset and another token, which may be quoted.
Usable(p) ==
  /\ p.quoteable
  /\ p.quoteAsset = QuoteAsset /\ p.token # QuoteAsset
  /\ {p.currency0, p.currency1} = {p.token, QuoteAsset}

Grouped(pools) ==
  LET unique == Unique(pools) IN
  {unique.last[id] : id \in {i \in DOMAIN unique.last :
                               i \notin unique.conflicts /\ Usable(unique.last[i])}}

ExcludedPools(pools) == Cardinality(DOMAIN Unique(pools).last) - Cardinality(Grouped(pools))

Leg(pool, in, out) == [pool |-> pool, in |-> in, out |-> out]

RouteOver(first, second) ==
  <<Leg(first.id, QuoteAsset, first.token), Leg(second.id, second.token, QuoteAsset)>>

\* Both orders of any two pools of one token on one chain.
Routes(pools) ==
  {RouteOver(pq[1], pq[2]) : pq \in
     {xy \in Grouped(pools) \X Grouped(pools) :
        /\ xy[1].id # xy[2].id
        /\ Chain[xy[1].id] = Chain[xy[2].id] /\ xy[1].token = xy[2].token}}

\* Route::validate
ValidRoute(route) ==
  /\ Len(route) >= 2
  /\ \A i \in DOMAIN route :
       /\ Chain[route[i].pool] = Chain[route[1].pool]
       /\ route[i].in # route[i].out
       /\ route[i].out = route[(i % Len(route)) + 1].in

-----------------------------------------------------------------------------
(* evaluate and scan                                                       *)

\* The way through a pool that takes the quote asset, and the one that gives it.
Buys(pool) == pool.quoteIsZero
Sells(pool) == ~pool.quoteIsZero

Evaluates(buy, sell, amount) ==
  /\ IsQuoted(buy, Buys(buy), amount)
  /\ IsQuoted(sell, Sells(sell), AmountOut(buy, Buys(buy), amount))

FinalAmount(buy, sell, amount) ==
  AmountOut(sell, Sells(sell), AmountOut(buy, Buys(buy), amount))

\* mutant: the cost is rounded down.
CostInQuote_Floor(cost) ==
  IF cost.amount = None THEN None
  ELSE IF cost.asset = QuoteAsset THEN cost.amount
  ELSE IF cost.conversion = None \/ ~cost.conversion.current THEN None
  ELSE (cost.amount * cost.conversion.numerator) \div cost.conversion.denominator

\* in_quote_asset: None is a cost that is not known, or that no conversion of this view's
\* block covers.
CostInQuote(cost) ==
  IF cost.amount = None THEN None
  ELSE IF cost.asset = QuoteAsset THEN cost.amount
  ELSE IF cost.conversion = None \/ ~cost.conversion.current THEN None
  ELSE CeilDiv(cost.amount * cost.conversion.numerator, cost.conversion.denominator)

\* The error of a conversion by zero.
CostFails(cost) ==
  /\ cost.amount # None /\ cost.asset # QuoteAsset /\ cost.conversion # None
  /\ cost.conversion.current
  /\ cost.conversion.numerator = 0 \/ cost.conversion.denominator = 0

\* scan: the amounts that are accepted.  Every pool of the route is deep enough, the costs
\* are known, and what is left of the result is at least the profit asked for.
Accepted(buy, sell, amount, cost) ==
  /\ \A pool \in {buy, sell} :
       HasDepth(pool, pool.quoteIsZero) /\ Depth(pool, pool.quoteIsZero) >= MinDepth
  /\ Evaluates(buy, sell, amount)
  /\ ~CostFails(cost) /\ CostInQuote(cost) # None
  /\ FinalAmount(buy, sell, amount) - amount - CostInQuote(cost) >= MinProfit

-----------------------------------------------------------------------------
(* The view of a block is asked about once, the next block's anew.         *)

NothingAsked == asked = None

AskRoutes == asked = None /\ asked' \in {[pools |-> l] : l \in Listing}
AskAmounts == asked = None /\ asked' \in Market
NextView == asked # None /\ asked' = None

Search == AskRoutes \/ AskAmounts \/ NextView

IsListing == asked # None /\ "pools" \in DOMAIN asked
IsMarket == asked # None /\ "buy" \in DOMAIN asked

-----------------------------------------------------------------------------
(* Properties                                                              *)

\* Routes are the two orders of any two pools that are usable and described in one way
\* only, however often and in whatever order the pools are listed; each of them validates,
\* and what is in none of them is counted as excluded or is the only one of its token.
RoutesAreThePairs ==
  IsListing =>
    LET pools == asked.pools
        clear == {pools[i] : i \in {j \in DOMAIN pools :
                    /\ Usable(pools[j])
                    /\ \A l \in DOMAIN pools : pools[l].id = pools[j].id => pools[l] = pools[j]}}
    IN /\ \A route \in Routes(pools) : ValidRoute(route) /\ route[1].pool # route[2].pool
       /\ \A p, q \in clear :
            RouteOver(p, q) \in Routes(pools) <=>
              p.id # q.id /\ p.token = q.token /\ Chain[p.id] = Chain[q.id]
       /\ \A route \in Routes(pools) : \E p, q \in clear : route = RouteOver(p, q)
       /\ ExcludedPools(pools) + Cardinality(clear)
            = Cardinality({pools[i].id : i \in DOMAIN pools})

\* What a unit of the quote asset is in the token, as a fraction.
Rate(pool) ==
  IF pool.quoteIsZero THEN <<pool.price * pool.price, Q * Q>>
                      ELSE <<Q * Q, pool.price * pool.price>>

\* A route pays only if the token is cheaper where it is bought: neither rounding nor the
\* hook's fees make money out of two pools that agree.
ProfitNeedsPriceGap ==
  IsMarket =>
    LET buy == asked.buy
        sell == asked.sell IN
    \A amount \in 1 .. MaxAmount :
      Evaluates(buy, sell, amount) /\ FinalAmount(buy, sell, amount) > amount =>
        Rate(buy)[1] * Rate(sell)[2] > Rate(sell)[1] * Rate(buy)[2]

\* An accepted amount pays its costs in full, at the conversion's exact rate, and leaves
\* the profit asked for.
ProfitCoversCost ==
  IsMarket =>
    LET buy == asked.buy
        sell == asked.sell IN
    \A amount \in 1 .. MaxAmount, cost \in Cost : Accepted(buy, sell, amount, cost) =>
      LET left == FinalAmount(buy, sell, amount) - amount - MinProfit IN
      IF cost.asset = QuoteAsset THEN left >= cost.amount
      ELSE left * cost.conversion.denominator >= cost.amount * cost.conversion.numerator

\* A candidate's profit is one that is there.
ProfitIsReal == ProfitNeedsPriceGap /\ ProfitCoversCost

=============================================================================
