---------------------------- MODULE PoolTracking ----------------------------
(***************************************************************************)
(* The state of a pool between two snapshots (arb-core state.rs): events   *)
(* of whole blocks are applied to what source.bootstrap read, and an event *)
(* after which the snapshot proves nothing takes the proof away.  The      *)
(* chain's own pool is beside it: its positions, its price and its fees.   *)
(***************************************************************************)
EXTENDS TickQuote, Sequences, SequencesExt

CONSTANTS
  Position,        \* tick ranges of the chain's positions, <<lower, upper>>
  Unit,         \* what a liquidity change adds or takes
  MaxUnits,     \* bound: units in a range
  Landing,      \* bound: prices that swaps end at
  MaxBatch      \* bound: events in a block

VARIABLES
  chain,     \* the pool as it is on the chain
  batch,     \* BlockBatch.observations of the block being built
  tracked,   \* the PoolState of the view, or None before the first snapshot
  refused    \* apply_block has refused a block

vars == <<chain, batch, tracked, refused>>

Verification == {"Pending", "Supported", "Unsupported"}

\* A price at a tick that is crossed downwards belongs to the tick below.
FitsTick(price, tick) ==
  /\ SqrtAtTick[tick] <= price
  /\ tick < MaxTick => price <= SqrtAtTick[tick + 1]

Bits == SUBSET (0 .. WordSize - 1)

Pool == [price : Nat \ {0}, tick : Tick, liquidity : Nat, lpFee : {0, 1}, protocolFee : {0, 1},
         verification : Verification, bitmap : [Word -> Bits \cup {None}]]

ASSUME TrackingAssumption ==
  /\ \A r \in Position : /\ r[1] \in Tick /\ r[2] \in Tick /\ r[1] < r[2]
                      /\ r[1] % Spacing = 0 /\ r[2] % Spacing = 0
  /\ IsFiniteSet(Position)
  /\ Landing \subseteq Nat
  /\ Unit \in Nat \ {0} /\ MaxUnits \in Nat /\ MaxBatch \in Nat
  /\ None \notin Pool /\ \A bits \in Bits : bits # None

-----------------------------------------------------------------------------
(* The chain                                                               *)

\* The liquidity of the positions whose range has the tick.
Active(c, tick) ==
  FoldFunctionOnSet(+, 0, c.positions, {r \in Position : r[1] <= tick /\ tick < r[2]})

\* Ticks at which a position begins or ends.
Initialized(c) == UNION {{r[1], r[2]} : r \in {s \in Position : c.positions[s] > 0}}

Init ==
  /\ chain = [positions |-> [r \in Position |-> 0], price |-> SqrtAtTick[0], tick |-> 0,
              lpFee |-> 0, protocolFee |-> 0]
  /\ batch = <<>> /\ tracked = None /\ refused = FALSE

Emit(event) ==
  /\ Len(batch) < MaxBatch
  /\ batch' = Append(batch, event)
  /\ UNCHANGED <<tracked, refused>>

Swap(price, tick, lpFee) ==
  /\ FitsTick(price, tick)
  /\ chain' = [chain EXCEPT !.price = price, !.tick = tick, !.lpFee = lpFee]
  /\ Emit([kind |-> "Swap", price |-> price, tick |-> tick, lpFee |-> lpFee,
           liquidity |-> Active(chain, tick)])

ModifyLiquidity(r, delta) ==
  /\ chain.positions[r] + delta \in 0 .. MaxUnits * Unit
  /\ chain' = [chain EXCEPT !.positions = [chain.positions EXCEPT ![r] = @ + delta]]
  /\ Emit([kind |-> "LiquidityChanged", lower |-> r[1], upper |-> r[2], delta |-> delta])

SetProtocolFee(fee) ==
  /\ chain' = [chain EXCEPT !.protocolFee = fee]
  /\ Emit([kind |-> "ProtocolFeeUpdated", fee |-> fee])

-----------------------------------------------------------------------------
(* apply_block                                                             *)

\* mutant: a swap that leaves the words that were read keeps the proof.
ApplySwap_KeepsProof(pool, e) ==
  [pool EXCEPT
     !.price = e.price, !.tick = e.tick, !.liquidity = e.liquidity, !.lpFee = e.lpFee,
     !.verification = IF e.lpFee # 0 THEN "Unsupported" ELSE @]

\* A swap states the pool's price, tick and liquidity; outside the words that were read
\* the next ticks are not known.
ApplySwap(pool, e) ==
  [pool EXCEPT
     !.price = e.price, !.tick = e.tick, !.liquidity = e.liquidity, !.lpFee = e.lpFee,
     !.verification =
       IF \E w \in WordsAround(e.tick) : pool.bitmap[w] = None THEN "Pending"
       ELSE IF e.lpFee # 0 THEN "Unsupported" ELSE @]

\* mutant: the upper end belongs to the range.
Covers_Closed(e, tick) == e.lower <= tick /\ tick <= e.upper

Covers(e, tick) == e.lower <= tick /\ tick < e.upper

\* mutant: the words that were read are kept, and the pool stays supported.
ApplyLiquidity_KeepsProof(pool, e) ==
  [pool EXCEPT !.liquidity = IF Covers(e, pool.tick) THEN @ + e.delta ELSE @]

\* A change of liquidity may begin or end a tick anywhere: the words are forgotten.
ApplyLiquidity(pool, e) ==
  [pool EXCEPT
     !.liquidity = IF Covers(e, pool.tick) THEN @ + e.delta ELSE @,
     !.bitmap = IF e.delta # 0 THEN [w \in Word |-> None] ELSE @,
     !.verification = IF e.delta # 0 THEN "Pending" ELSE @]

ApplyProtocolFee(pool, e) ==
  [pool EXCEPT !.protocolFee = e.fee,
               !.verification = IF e.fee # 0 THEN "Unsupported" ELSE @]

\* None is the error of a block that is refused: a liquidity below zero.
ApplyEvent(pool, e) ==
  IF pool = None THEN None
  ELSE CASE e.kind = "Swap" -> ApplySwap(pool, e)
         [] e.kind = "ProtocolFeeUpdated" -> ApplyProtocolFee(pool, e)
         [] e.kind = "LiquidityChanged" ->
              IF ApplyLiquidity(pool, e).liquidity < 0 THEN None ELSE ApplyLiquidity(pool, e)

\* The block's events are applied all together; what refuses one of them leaves the view
\* as it was, and the run ends.
ApplyBlock ==
  /\ batch # <<>> /\ ~refused
  /\ batch' = <<>>
  /\ LET next == FoldLeft(ApplyEvent, tracked, batch) IN
     IF tracked # None /\ next = None THEN refused' = TRUE /\ UNCHANGED tracked
                                     ELSE tracked' = next /\ UNCHANGED refused
  /\ UNCHANGED chain

-----------------------------------------------------------------------------
(* source.bootstrap at the end of the block                                *)

\* The bits of a word are the initialized ticks of its span.
BitsOf(c, w) ==
  {b \in 0 .. WordSize - 1 : (w * WordSize + b) * Spacing \in Initialized(c)}

ReadPool(c) ==
  [price |-> c.price, tick |-> c.tick, liquidity |-> Active(c, c.tick),
   lpFee |-> c.lpFee, protocolFee |-> c.protocolFee,
   verification |-> IF c.lpFee = 0 /\ c.protocolFee = 0 THEN "Supported" ELSE "Unsupported",
   bitmap |-> [w \in Word |-> IF w \in WordsAround(c.tick) THEN BitsOf(c, w) ELSE None]]

\* Bootstrap::validate, which a snapshot and every checkpoint go through: a pool that may
\* be quoted has the words of both directions.
Validates(pool) ==
  /\ pool.price # 0 /\ pool.tick \in Tick
  /\ pool.verification = "Supported" => \A w \in WordsAround(pool.tick) : pool.bitmap[w] # None

\* The first snapshot, and one more for a pool whose proof was taken away.  A pool whose
\* fee is not the one it was registered with, or was last seen with, is refused.
Bootstrap ==
  /\ batch = <<>> /\ ~refused
  /\ tracked # None => tracked.verification = "Pending"
  /\ chain.lpFee = (IF tracked = None THEN 0 ELSE tracked.lpFee)
  /\ tracked' = ReadPool(chain)
  /\ UNCHANGED <<chain, batch, refused>>

-----------------------------------------------------------------------------
Next ==
  \/ \E price \in Landing, tick \in Tick, fee \in {0, 1} : Swap(price, tick, fee)
  \/ \E r \in Position, delta \in {-Unit, 0, Unit} : ModifyLiquidity(r, delta)
  \/ \E fee \in {0, 1} : SetProtocolFee(fee)
  \/ ApplyBlock
  \/ Bootstrap

Spec == Init /\ [][Next]_vars

-----------------------------------------------------------------------------
(* Properties                                                              *)

Tracking == tracked # None /\ batch = <<>>

\* Adding up the events since the snapshot gives the liquidity that the chain has at the
\* price, through changes of ranges the price is in, leaves and comes back to, and no
\* block of the chain is refused.
LiquidityIsActive ==
  /\ ~refused
  /\ Tracking => /\ tracked.liquidity = Active(chain, chain.tick)
                 /\ tracked.price = chain.price /\ tracked.tick = chain.tick

\* The amounts that the properties below try.
Amount == 1 .. MaxAmount

\* A quote is what the chain would give: the fees are none, and no position begins or ends
\* between the price and the price after the swap, whichever words were read and whatever
\* happened since.
QuoteCrossesNoTick ==
  Tracking =>
    \A down \in BOOLEAN, amount \in Amount : IsQuoted(tracked, down, amount) =>
      /\ chain.lpFee = 0 /\ chain.protocolFee = 0
      /\ LET after == PriceAfter(tracked, down, amount) IN
         \A t \in Initialized(chain) :
           IF down THEN ~(after <= SqrtAtTick[t] /\ SqrtAtTick[t] < chain.price)
                   ELSE ~(chain.price < SqrtAtTick[t] /\ SqrtAtTick[t] <= after)

\* Rounding never favours the trader: who swaps and swaps back what he got has not gained.
RoundTripNeverGains ==
  Tracking =>
    \A down \in BOOLEAN, amount \in Amount : IsQuoted(tracked, down, amount) =>
      LET out == AmountOut(tracked, down, amount)
          back == [tracked EXCEPT !.price = PriceAfter(tracked, down, amount)] IN
      out > 0 => AmountOut(back, ~down, out) <= amount

\* The depth is conservative: an amount below it does not cross a boundary on its way in,
\* and a swap the other way that gives less than it does not cross one on its way out.
StaysInside(pool, down, amount) ==
  IF down THEN PriceAfter(pool, TRUE, amount) > Boundary(pool, TRUE)
          ELSE PriceAfter(pool, FALSE, amount) < Boundary(pool, FALSE)

DepthIsInside ==
  Tracking =>
    \A zero \in BOOLEAN : HasDepth(tracked, zero) =>
      \A amount \in Amount :
        /\ amount < Depth(tracked, zero) => StaysInside(tracked, zero, amount)
        /\ Gross(tracked, ~zero, amount) < Depth(tracked, zero) =>
             StaysInside(tracked, ~zero, amount)

\* A checkpoint of the view is accepted when it is loaded again, whatever happened to the
\* pool since its words were read.
CheckpointReloads == tracked # None => Validates(tracked)

=============================================================================
