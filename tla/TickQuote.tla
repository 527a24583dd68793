----------------------------- MODULE TickQuote -----------------------------
(***************************************************************************)
(* The quotes of a pool (arb-core protocol/verified.rs): one step of the   *)
(* swap formula inside the ticks that a snapshot proved free of liquidity  *)
(* changes.  Prices, widths and the tick bitmap are scaled down: 2^96 is   *)
(* Q, a bitmap word has WordSize bits, and sqrt_at_tick is any increasing  *)
(* table.                                                                  *)
(***************************************************************************)
EXTENDS Integers, FiniteSetsExt

CONSTANTS
  None,
  Q,            \* 2^96
  MaxWord,      \* U256::MAX
  MaxAmount,    \* i128::MAX
  MaxTick,      \* 887272
  Spacing,      \* tick_spacing
  WordSize,     \* 256
  SqrtAtTick,   \* sqrt_at_tick, by tick
  FeeUnit,      \* 10000 basis points
  HookFee, CreatorTax

Tick == -MaxTick .. MaxTick

ASSUME QuoteAssumption ==
  /\ Q \in Nat \ {0} /\ MaxWord \in Nat /\ MaxAmount \in Nat /\ MaxTick \in Nat
  /\ Spacing \in Nat \ {0} /\ WordSize \in Nat \ {0}
  /\ DOMAIN SqrtAtTick = Tick
  /\ \A t \in Tick : SqrtAtTick[t] \in Nat \ {0}
  /\ \A t, u \in Tick : t < u => SqrtAtTick[t] < SqrtAtTick[u]
  /\ FeeUnit \in Nat \ {0} /\ HookFee \in Nat /\ CreatorTax \in Nat
  /\ HookFee + CreatorTax <= FeeUnit

\* The bitmap's words, and the two that the next tick either way can be in.
Compressed(tick) == tick \div Spacing
Word == {(Compressed(t) + i) \div WordSize : t \in Tick, i \in {0, 1}}
WordsAround(tick) == {(Compressed(tick) + i) \div WordSize : i \in {0, 1}}

Clamp(tick) == IF tick < -MaxTick THEN -MaxTick ELSE IF tick > MaxTick THEN MaxTick ELSE tick

CeilDiv(a, b) == (a + b - 1) \div b

\* tick_boundary: the next initialized tick in the word, or the end of the word.
BoundaryTick(pool, down) ==
  LET compressed == Compressed(pool.tick) + (IF down THEN 0 ELSE 1)
      word == compressed \div WordSize
      bit == IF down
               THEN Max({b \in pool.bitmap[word] : b <= compressed % WordSize} \cup {0})
               ELSE Min({b \in pool.bitmap[word] : b >= compressed % WordSize}
                          \cup {WordSize - 1})
  IN Clamp((word * WordSize + bit) * Spacing)

HasBoundary(pool, down) ==
  pool.bitmap[(Compressed(pool.tick) + (IF down THEN 0 ELSE 1)) \div WordSize] # None

Boundary(pool, down) == SqrtAtTick[BoundaryTick(pool, down)]

\* mutant: rounded in favour of the trader.
PriceAfter_Floor(pool, down, amount) ==
  LET scaled == pool.liquidity * Q IN
  IF down THEN (scaled * pool.price) \div (scaled + amount * pool.price)
          ELSE pool.price + (amount * Q) \div pool.liquidity

\* The price after the swap, rounded against the trader either way.
PriceAfter(pool, down, amount) ==
  LET scaled == pool.liquidity * Q IN
  IF down THEN CeilDiv(scaled * pool.price, scaled + amount * pool.price)
          ELSE pool.price + (amount * Q) \div pool.liquidity

Gross(pool, down, amount) ==
  LET after == PriceAfter(pool, down, amount) IN
  IF down THEN (pool.liquidity * (pool.price - after)) \div Q
          ELSE ((pool.liquidity * Q * (after - pool.price)) \div after) \div pool.price

\* quote: what the trader gets, after the hook's fee and the creator's tax.
AmountOut(pool, down, amount) ==
  LET gross == Gross(pool, down, amount) IN
  gross - (gross * HookFee) \div FeeUnit - (gross * CreatorTax) \div FeeUnit

\* The checks on the pool: supported, without fees of its own, with liquidity and with a
\* price that fits its tick.
IsQuotable(pool) ==
  /\ pool.verification = "Supported"
  /\ pool.lpFee = 0 /\ pool.protocolFee = 0
  /\ pool.liquidity > 0
  /\ pool.tick < MaxTick
  /\ SqrtAtTick[pool.tick] <= pool.price /\ pool.price <= SqrtAtTick[pool.tick + 1]

\* quote succeeds: no crossing of a tick and no number too wide.
IsQuoted(pool, down, amount) ==
  /\ IsQuotable(pool) /\ amount \in 1 .. MaxAmount
  /\ HasBoundary(pool, down)
  /\ down => /\ amount * pool.price <= MaxWord
             /\ pool.liquidity * Q + amount * pool.price <= MaxWord
  /\ IF down THEN PriceAfter(pool, down, amount) > Boundary(pool, down)
             ELSE PriceAfter(pool, down, amount) < Boundary(pool, down)
  /\ Gross(pool, down, amount) <= MaxAmount

\* quote_depth: None unless one unit can be quoted and there is room both ways.
HasDepth(pool, zero) ==
  /\ IsQuoted(pool, zero, 1)
  /\ HasBoundary(pool, TRUE) /\ HasBoundary(pool, FALSE)
  /\ Boundary(pool, TRUE) < pool.price /\ pool.price < Boundary(pool, FALSE)

\* mutant: only the way up is looked at.
Depth_OneWay(pool, zero) ==
  LET upper == Boundary(pool, FALSE) IN
  IF zero THEN ((pool.liquidity * Q * (upper - pool.price)) \div upper) \div pool.price
          ELSE (pool.liquidity * (upper - pool.price)) \div Q

\* The units of the asset that fit between the price and the nearer boundary.
Depth(pool, zero) ==
  LET lower == Boundary(pool, TRUE)
      upper == Boundary(pool, FALSE)
      scaled == pool.liquidity * Q IN
  IF zero
    THEN Min({((scaled * (pool.price - lower)) \div pool.price) \div lower,
              ((scaled * (upper - pool.price)) \div upper) \div pool.price})
    ELSE Min({(pool.liquidity * (pool.price - lower)) \div Q,
              (pool.liquidity * (upper - pool.price)) \div Q})

=============================================================================
